----------------------------- MODULE MessageLog -----------------------------
(***************************************************************************)
(* What a rotated log promises to whoever reads it after a crash: a        *)
(* message is added when it is written or never; of those added only the   *)
(* oldest ever go, and not even those if there is no limit; and none that  *)
(* is among the last messages up to the limit.  Zlog implements it.        *)
(***************************************************************************)
EXTENDS Naturals

VARIABLES log,   \* the messages that can be read, a set of numbers
          next,  \* the number of the next message
          keep   \* how many of the last messages are kept, 0 = all

Init ==
    /\ log = {}
    /\ next = 0
    /\ keep \in Nat

Write ==
    /\ log' = log \cup {next}
    /\ next' = next + 1
    /\ UNCHANGED keep

\* The message does not get into the log.
Lose ==
    /\ next' = next + 1
    /\ UNCHANGED <<log, keep>>

DropOldest ==
    /\ keep > 0
    /\ \E first \in 1..next :
           /\ first + keep <= next
           /\ log' = {m \in log : m >= first}
    /\ UNCHANGED <<next, keep>>

Next == Write \/ Lose \/ DropOldest

Spec == Init /\ [][Next]_<<log, next, keep>>
=============================================================================
