----------------------------- MODULE TaskContract -----------------------------
(***************************************************************************)
(* What the task manager promises to a caller, whatever crashes: a task it *)
(* took has one row that goes from unfinished to ended and never back, and *)
(* the end a waiter is sent is already in that row.                        *)
(***************************************************************************)
CONSTANTS Tasks, Awaiters, Unfinished, Ended, Absent, Nothing, Unknown

VARIABLES
  row,   \* the state in the tasks table
  sent   \* what each waiter was sent: Nothing, Unknown (no answer) or an end

Init == row = [t \in Tasks |-> Absent] /\ sent = [a \in Awaiters |-> Nothing]

Submit(t) == row[t] = Absent /\ \E s \in Unfinished : row' = [row EXCEPT ![t] = s]

Proceed(t) ==
  row[t] \in Unfinished /\ \E s \in Unfinished \cup Ended : row' = [row EXCEPT ![t] = s]

\* The waiters of one task are sent its end at once.
Tell(who, t) ==
  /\ row[t] \in Ended
  /\ sent' = [a \in Awaiters |-> IF a \in who THEN row[t] ELSE sent[a]]

\* The call that would have told them failed.
GiveUp(who) == sent' = [a \in Awaiters |-> IF a \in who THEN Unknown ELSE sent[a]]

Waiting == {a \in Awaiters : sent[a] = Nothing}

Next == \/ \E t \in Tasks : (Submit(t) \/ Proceed(t)) /\ UNCHANGED sent
        \/ \E who \in SUBSET Waiting : (GiveUp(who) \/ \E t \in Tasks : Tell(who, t)) /\ UNCHANGED row

Spec == Init /\ [][Next]_<<row, sent>>

-----------------------------------------------------------------------------
(* With loops that end a task which has just ended: an end may be replaced *)
(* by another, and a waiter may be told the one that was replaced.         *)

Amend(t) == row[t] \in Ended /\ \E s \in Ended : row' = [row EXCEPT ![t] = s]

TellEnd(who, t) ==
  /\ row[t] \in Ended
  /\ \E s \in Ended : sent' = [a \in Awaiters |-> IF a \in who THEN s ELSE sent[a]]

LooseNext ==
  \/ \E t \in Tasks : (Submit(t) \/ Proceed(t) \/ Amend(t)) /\ UNCHANGED sent
  \/ \E who \in SUBSET Waiting : (GiveUp(who) \/ \E t \in Tasks : TellEnd(who, t)) /\ UNCHANGED row

LooseSpec == Init /\ [][LooseNext]_<<row, sent>>
=============================================================================
