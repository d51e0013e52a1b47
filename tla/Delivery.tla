------------------------------ MODULE Delivery ------------------------------
(***************************************************************************)
(* What the uploader promises about a vehicle once it has recorded it: the *)
(* record is reported to the traffic server before it is closed, it is     *)
(* closed only once, and it never goes back.  Section 3.1 of Readme.txt    *)
(* describes these steps; Pipeline implements them.                        *)
(***************************************************************************)
CONSTANT Image
VARIABLE stage

Stage == {"unknown", "recorded", "reported", "closed"}

Init == stage = [i \in Image |-> "unknown"]

Advance(i, from, to) ==
    /\ stage[i] = from
    /\ stage' = [stage EXCEPT ![i] = to]

Record(i) == Advance(i, "unknown", "recorded")
Report(i) == Advance(i, "recorded", "reported")
Close(i)  == Advance(i, "reported", "closed")

Next == \E i \in Image : Record(i) \/ Report(i) \/ Close(i)

Spec == Init /\ [][Next]_stage

\* What is recorded does get reported and closed; nothing is promised of a
\* vehicle that is not recorded.
FairSpec == Spec /\ \A i \in Image : WF_stage(Report(i)) /\ WF_stage(Close(i))
=============================================================================
