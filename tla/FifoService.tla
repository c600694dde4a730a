---------------------------- MODULE FifoService ----------------------------
(***************************************************************************)
(* What a message queue promises: items, numbered in the order they        *)
(* arrive, are served one at a time and in that order; a waiting item may  *)
(* be refused on arrival or flushed while it waits, but an item in service *)
(* is never taken back, repeated or overtaken.                             *)
(***************************************************************************)
EXTENDS Integers

CONSTANT Items        \* item numbers, 1 .. some bound

VARIABLE stage           \* stage of each item

Stages == {"new", "waiting", "serving", "over"}

Init == stage = [i \in Items |-> "new"]

\* Handing the service to the oldest waiting item, if it is free, may happen
\* together with the step that frees it or brings the item: from stages s to t.
Handoff(s, t) ==
  \/ t = s
  \/ \E i \in Items :
       /\ s[i] = "waiting"
       /\ \A k \in Items : s[k] # "serving" /\ (s[k] = "waiting" => i <= k)
       /\ t = [s EXCEPT ![i] = "serving"]

Arrive(i) ==
  /\ stage[i] = "new"
  /\ \A j \in Items : stage[j] = "new" => i <= j
  /\ \/ Handoff([stage EXCEPT ![i] = "waiting"], stage')
     \/ stage' = [stage EXCEPT ![i] = "over"]

Finish(i) ==
  /\ stage[i] = "serving"
  /\ Handoff([stage EXCEPT ![i] = "over"], stage')

Resume == Handoff(stage, stage')

Flush ==
  stage' = [i \in Items |-> IF stage[i] = "waiting" THEN "over" ELSE stage[i]]

Next == (\E i \in Items : Arrive(i) \/ Finish(i)) \/ Resume \/ Flush

Spec == Init /\ [][Next]_stage
============================================================================
