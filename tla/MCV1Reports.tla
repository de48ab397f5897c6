---------------------------- MODULE MCV1Reports ----------------------------
EXTENDS V1Reports, TLC

CONSTANTS q1, q2, q3, s1, s2, r1, r2

Base == [op |-> "get", report |-> 0, sims |-> <<>>, sim |-> s1, ver |-> 2,
         status |-> "keep", output |-> NoOutput, error |-> FALSE]
Get(x, v) == [Base EXCEPT !.report = x, !.ver = v]
Post(sims) == [Base EXCEPT !.op = "post", !.sims = sims]
Patch(x, v, st, out) ==
    [Base EXCEPT !.op = "patch", !.report = x, !.ver = v, !.status = st, !.output = out, !.error = st = "error"]
PatchSim(s, st, out) == [Base EXCEPT !.op = "simpatch", !.sim = s, !.status = st, !.output = out]
PostSim(s) == [Base EXCEPT !.op = "simpost", !.sim = s]

MCOutputs == {r1, r2, Legacy, Uncertified}

Pair == <<s1, s2>>
MCPopulation == [s \in Sims |-> [type |-> "geography", id |-> "us"]]

\* Requests about the report of one pair of simulations: 1 is of the former cache
\* version, 2 of the new one when it exists.  Then the same during a roll-out, and
\* a report that names the simulations in the other order.
PairCalls == <<Patch(1, 2, "running", NoOutput), Patch(2, 2, "running", NoOutput), Patch(1, 2, "complete", r1), Patch(2, 2, "complete", r2),
               Patch(2, 2, "error", NoOutput), Patch(2, 2, "keep", Uncertified), Patch(2, 2, "complete", Uncertified), Get(1, 2), Post(Pair),
               Patch(2, 2, "pending", NoOutput),
               PatchSim(s1, "complete", r1), PostSim(s1)>>
OtherCalls == {Get(2, 1), Get(3, 2), Patch(2, 1, "complete", r1), Post(<<s2, s2>>)}

\* Two requests about the pair, in no order, and a third.
MCCalls ==
    {[q \in Requests |-> CASE q = q1 -> PairCalls[i] [] q = q2 -> PairCalls[j] [] q = q3 -> c] :
        <<i, j>> \in {<<a, b>> \in (DOMAIN PairCalls) \X (DOMAIN PairCalls) : a <= b},
        c \in Range(PairCalls) \union OtherCalls}

Report(v, sims, st, out) == [NewRow(0, v, sims) EXCEPT !.status = st, !.output = out]
Sim(n, st, out) == [NewRow(n, 0, <<>>) EXCEPT !.status = st, !.output = out]

OldSims == (s1 :> Synced(Sim(1, "pending", NoOutput))) @@ (s2 :> Sim(2, "complete", Legacy))
NewSims == (s1 :> Synced(Sim(1, "complete", Legacy))) @@ (s2 :> Synced(Sim(2, "complete", r1)))

Former == 1 :> Synced(Report(1, Pair, "pending", NoOutput))
Swapped == 3 :> Synced(Report(2, <<s2, s1>>, "complete", r1))

\* Just after a deployment; with the report of the new version, pending or not,
\* stored before runs existed or not; and without the first simulation.
MCStored ==
    {Former @@ OldSims, Former @@ NewSims, s2 :> Sim(1, "pending", NoOutput)}
    \union {Former @@ Swapped @@ (2 :> row) @@ sims : sims \in {OldSims, NewSims},
              row \in {Report(2, Pair, "running", NoOutput), Synced(Report(2, Pair, "pending", NoOutput))}}
    \union {Former @@ (2 :> row) @@ NewSims :
              row \in {Report(2, Pair, "complete", r1), Synced(Report(2, Pair, "pending", r1))}}
=============================================================================
