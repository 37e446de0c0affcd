----------------------------- MODULE JobPromise -----------------------------
(***************************************************************************)
(* What the job queue promises of every job, whichever process works on    *)
(* it: it is taken at most MaxAttempts times, it is worked on only while   *)
(* taken, it is finished only after its work was done at least once, and   *)
(* what is finished or parked is never touched again.                      *)
(***************************************************************************)
EXTENDS Integers

CONSTANTS Jobs, MaxAttempts

VARIABLES state,     \* [Jobs -> JobState]
          attempts,  \* how often each job was taken
          effects    \* how often the work of each job was done to its end

promised == <<state, attempts, effects>>

JobState == {"absent", "pending", "running", "done", "failed"}

Init == /\ state = [j \in Jobs |-> "absent"]
        /\ attempts = [j \in Jobs |-> 0]
        /\ effects = [j \in Jobs |-> 0]

To(j, from, to) == /\ state[j] = from
                   /\ state' = [state EXCEPT ![j] = to]

Submit(j) == To(j, "absent", "pending") /\ UNCHANGED <<attempts, effects>>

Take(S) == /\ \A j \in S : state[j] = "pending" /\ attempts[j] < MaxAttempts
           /\ state' = [j \in Jobs |-> IF j \in S THEN "running" ELSE state[j]]
           /\ attempts' = [j \in Jobs |-> IF j \in S THEN attempts[j] + 1 ELSE attempts[j]]
           /\ UNCHANGED effects

Work(j) == /\ state[j] = "running"
           /\ effects' = [effects EXCEPT ![j] = @ + 1]
           /\ effects[j] < attempts[j]
           /\ UNCHANGED <<state, attempts>>

Finish(j) == /\ effects[j] > 0
             /\ To(j, "running", "done")
             /\ UNCHANGED <<attempts, effects>>

GiveBack(j) == /\ attempts[j] < MaxAttempts
               /\ To(j, "running", "pending")
               /\ UNCHANGED <<attempts, effects>>

Park(j) == /\ attempts[j] = MaxAttempts
           /\ To(j, "running", "failed")
           /\ UNCHANGED <<attempts, effects>>

Next == \/ \E S \in SUBSET Jobs : Take(S)
        \/ \E j \in Jobs : Submit(j) \/ Work(j) \/ Finish(j) \/ GiveBack(j) \/ Park(j)

Spec == Init /\ [][Next]_promised
=============================================================================
