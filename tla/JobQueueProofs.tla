--------------------------- MODULE JobQueueProofs ---------------------------
(***************************************************************************)
(* For any number of processes, jobs and attempts, with any failures and   *)
(* crashes: a job has one holder, only exhausted media are written off,    *)
(* and the table with its polling processes implements JobPromise.         *)
(***************************************************************************)
EXTENDS JobQueue, TLAPS

Waits == {"down", "count", "seed", "idle", "pick"}

\* What a process has in its hands, and what it knows about the job in hand at
\* each step of process().
HandOK(r) ==
    /\ runner[r].at \in Waits => runner[r].cur = {}
    /\ \A j, k \in runner[r].cur : j = k
    /\ runner[r].cur \cap runner[r].held = {}
    /\ \A j \in runner[r].held : state[j] = "running" /\ effects[j] < attempts[j]
    /\ runner[r].at # "park" => \A j \in runner[r].cur : state[j] = "running"
    /\ runner[r].at = "call" => \A j \in runner[r].cur : effects[j] < attempts[j]
    /\ runner[r].at = "rearm" /\ ~runner[r].threw => \A j \in runner[r].cur : effects[j] > 0
    /\ runner[r].at = "good" => \A j \in runner[r].cur : effects[j] > 0
    /\ runner[r].at = "park" =>
          \A j \in runner[r].cur : state[j] = "failed" /\ attempts[j] = MaxAttempts

JobOK(j) == /\ state[j] = "absent" => attempts[j] = 0
            /\ state[j] = "pending" => attempts[j] < MaxAttempts
            /\ effects[j] <= attempts[j]

Apart == \A r1, r2 \in Runners : r1 # r2 => Hands(r1) \cap Hands(r2) = {}

\* The inductive invariant.
IInv == /\ TypeOK
        /\ \A r \in Runners : HandOK(r)
        /\ \A j \in Jobs : JobOK(j)
        /\ Apart
        /\ OnlyExhaustedMediaWrittenOff

USE AttemptsAssumption, BatchAssumption, BoundsAssumption, DigestsAssumption

\* The initial state satisfies the invariant.
LEMMA InitIInv == Init => IInv
  BY DEF Init, IInv, TypeOK, HandOK, JobOK, Apart, Hands, OnlyExhaustedMediaWrittenOff,
         Resting, Process, Steps, JobState, Waits

\* Booting holds no job.
LEMMA StartStep == ASSUME IInv, NEW r \in Runners, Start(r) PROVE IInv'
<1> USE DEF IInv, Start, At, Goes, GoTo, table, tries
<1>1. TypeOK'
  BY DEF TypeOK, Process, Steps, JobState
<1>2. ASSUME NEW q \in Runners PROVE HandOK(q)'
  <2>1. CASE q = r
    BY <2>1 DEF HandOK, TypeOK, Process, Waits
  <2>2. CASE q # r
    BY <2>2 DEF HandOK, TypeOK, Process, Waits
  <2> QED
    BY <2>1, <2>2
<1>3. ASSUME NEW k \in Jobs PROVE JobOK(k)'
  BY DEF JobOK, TypeOK
<1>4. Apart'
  BY DEF Apart, Hands, TypeOK, Process
<1>5. OnlyExhaustedMediaWrittenOff'
  BY DEF OnlyExhaustedMediaWrittenOff, TypeOK, HandOK
<1> QED
  BY <1>1, <1>2, <1>3, <1>4, <1>5

\* Counting the pending digests.
LEMMA CountStep == ASSUME IInv, NEW r \in Runners, CountDigests(r) PROVE IInv'
<1> USE DEF IInv, CountDigests, At, Goes, GoTo, table, tries
<1>1. TypeOK'
  BY DEF TypeOK, Process, Steps, JobState
<1>2. ASSUME NEW q \in Runners PROVE HandOK(q)'
  <2>1. CASE q = r
    BY <2>1 DEF HandOK, TypeOK, Process, Waits
  <2>2. CASE q # r
    BY <2>2 DEF HandOK, TypeOK, Process, Waits
  <2> QED
    BY <2>1, <2>2
<1>3. ASSUME NEW k \in Jobs PROVE JobOK(k)'
  BY DEF JobOK, TypeOK
<1>4. Apart'
  BY DEF Apart, Hands, TypeOK, Process
<1>5. OnlyExhaustedMediaWrittenOff'
  BY DEF OnlyExhaustedMediaWrittenOff, TypeOK, HandOK
<1> QED
  BY <1>1, <1>2, <1>3, <1>4, <1>5

\* Seeding inserts a row nobody holds.
LEMMA SeedStep == ASSUME IInv, NEW r \in Runners, Seed(r) PROVE IInv'
<1> USE DEF IInv, Seed, Insert, At, Goes, GoTo, table, tries
<1>1. TypeOK'
  BY DEF TypeOK, Process, Steps, JobState
<1>2. ASSUME NEW q \in Runners PROVE HandOK(q)'
  <2>1. CASE q = r
    BY <2>1 DEF HandOK, TypeOK, Process, Waits
  <2>2. CASE q # r
    BY <2>2 DEF HandOK, TypeOK, Process, Waits
  <2> QED
    BY <2>1, <2>2
<1>3. ASSUME NEW k \in Jobs PROVE JobOK(k)'
  BY DEF JobOK, TypeOK
<1>4. Apart'
  BY DEF Apart, Hands, TypeOK, Process
<1>5. OnlyExhaustedMediaWrittenOff'
  BY DEF OnlyExhaustedMediaWrittenOff, TypeOK, HandOK
<1> QED
  BY <1>1, <1>2, <1>3, <1>4, <1>5

\* A failed seed goes on to poll.
LEMMA SeedFailsStep == ASSUME IInv, NEW r \in Runners, SeedFails(r) PROVE IInv'
<1> USE DEF IInv, SeedFails, Fault, At, Goes, GoTo, table, tries
<1>1. TypeOK'
  BY DEF TypeOK, Process, Steps, JobState
<1>2. ASSUME NEW q \in Runners PROVE HandOK(q)'
  <2>1. CASE q = r
    BY <2>1 DEF HandOK, TypeOK, Process, Waits
  <2>2. CASE q # r
    BY <2>2 DEF HandOK, TypeOK, Process, Waits
  <2> QED
    BY <2>1, <2>2
<1>3. ASSUME NEW k \in Jobs PROVE JobOK(k)'
  BY DEF JobOK, TypeOK
<1>4. Apart'
  BY DEF Apart, Hands, TypeOK, Process
<1>5. OnlyExhaustedMediaWrittenOff'
  BY DEF OnlyExhaustedMediaWrittenOff, TypeOK, HandOK
<1> QED
  BY <1>1, <1>2, <1>3, <1>4, <1>5

\* A claim takes rows that were pending, so that nobody else has them in hand.
LEMMA ClaimStep == ASSUME IInv, NEW r \in Runners, Claim(r) PROVE IInv'
<1> USE DEF IInv
<1>1. PICK S \in SUBSET Claimable :
        /\ state' = [j \in Jobs |-> IF j \in S THEN "running" ELSE state[j]]
        /\ attempts' = [j \in Jobs |-> IF j \in S THEN attempts[j] + 1 ELSE attempts[j]]
        /\ runner' = [runner EXCEPT ![r] = [runner[r] EXCEPT !.at = "pick", !.held = S]]
  BY DEF Claim, Goes
<1>2. UNCHANGED <<due, effects, unusable, faults, crashes>> /\ runner[r].cur = {}
  BY DEF Claim, At, HandOK, Waits
<1>3. \A j \in S : j \in Jobs /\ state[j] = "pending" /\ attempts[j] < MaxAttempts
                   /\ effects[j] <= attempts[j]
  BY DEF Claimable, DuePending, InState, JobOK
<1>4. /\ runner'[r] = [runner[r] EXCEPT !.at = "pick", !.held = S]
      /\ runner[r] \in Process
      /\ \A q \in Runners : q # r => runner'[q] = runner[q]
  BY <1>1 DEF TypeOK
<1>5. \A q \in Runners : Hands(q) \cap S = {}
  BY <1>3 DEF HandOK, Hands
<1>6. TypeOK'
  <2>1. state' \in [Jobs -> JobState] /\ attempts' \in [Jobs -> 0..MaxAttempts]
    BY <1>1, <1>3 DEF TypeOK, JobState
  <2>2. runner'[r] \in Process /\ runner' \in [Runners -> Process]
    BY <1>1, <1>3, <1>4 DEF TypeOK, Process, Steps
  <2> QED
    BY <2>1, <2>2, <1>2 DEF TypeOK
<1>7. ASSUME NEW q \in Runners PROVE HandOK(q)'
  <2>1. CASE q = r
    BY <2>1, <1>1, <1>2, <1>3, <1>4 DEF HandOK, TypeOK, Process, Waits
  <2>2. CASE q # r
    BY <2>2, <1>1, <1>2, <1>4, <1>5 DEF HandOK, TypeOK, Process, Hands
  <2> QED
    BY <2>1, <2>2
<1>8. ASSUME NEW k \in Jobs PROVE JobOK(k)'
  BY <1>1, <1>2, <1>3 DEF JobOK, TypeOK
<1>9. Apart'
  <2>1. Hands(r)' = S /\ \A q \in Runners : q # r => Hands(q)' = Hands(q)
    BY <1>2, <1>4 DEF Hands, Process
  <2> QED
    BY <2>1, <1>5 DEF Apart
<1>10. OnlyExhaustedMediaWrittenOff'
  BY <1>1, <1>2, <1>3 DEF OnlyExhaustedMediaWrittenOff, TypeOK
<1> QED
  BY <1>6, <1>7, <1>8, <1>9, <1>10

\* Picking moves a job from one hand to the other.
LEMMA PickStep == ASSUME IInv, NEW r \in Runners, PickJob(r) PROVE IInv'
<1> USE DEF IInv
<1>1. PICK j \in runner[r].held :
        runner' = [runner EXCEPT ![r] = [runner[r] EXCEPT !.at = "call", !.cur = {j},
                                                          !.held = @ \ {j}]]
  BY DEF PickJob, Goes
<1>2. UNCHANGED <<state, attempts, due, effects, unusable, faults, crashes>>
  BY DEF PickJob, table, tries
<1>3. /\ runner[r] \in Process
      /\ runner'[r] = [runner[r] EXCEPT !.at = "call", !.cur = {j}, !.held = @ \ {j}]
      /\ \A q \in Runners : q # r => runner'[q] = runner[q]
  BY <1>1 DEF TypeOK
<1>4. TypeOK'
  <2>1. j \in Jobs /\ runner[r].held \ {j} \in SUBSET Jobs
    BY <1>3 DEF Process
  <2>2. runner'[r] \in Process
    <3>1. runner'[r] = [at |-> "call", held |-> runner[r].held \ {j}, cur |-> {j},
                        threw |-> runner[r].threw]
      BY <1>3 DEF Process
    <3>2. runner[r].threw \in BOOLEAN
      BY <1>3 DEF Process
    <3> QED
      BY <3>1, <3>2, <2>1 DEF Process, Steps
  <2>3. runner' \in [Runners -> Process]
    BY <2>2, <1>1, <1>3 DEF TypeOK
  <2> QED
    BY <2>3, <1>2 DEF TypeOK
<1>5. ASSUME NEW q \in Runners PROVE HandOK(q)'
  <2>1. CASE q = r
    BY <2>1, <1>1, <1>2, <1>3 DEF HandOK, Process, Waits
  <2>2. CASE q # r
    BY <2>2, <1>2, <1>3 DEF HandOK
  <2> QED
    BY <2>1, <2>2
<1>6. ASSUME NEW k \in Jobs PROVE JobOK(k)'
  BY <1>2 DEF JobOK
<1>7. Apart'
  <2>1. Hands(r)' \subseteq Hands(r) /\ \A q \in Runners : q # r => Hands(q)' = Hands(q)
    BY <1>1, <1>3 DEF Hands, Process
  <2> QED
    BY <2>1 DEF Apart
<1>8. OnlyExhaustedMediaWrittenOff'
  BY <1>2 DEF OnlyExhaustedMediaWrittenOff
<1> QED
  BY <1>4, <1>5, <1>6, <1>7, <1>8

\* The end of a poll.
LEMMA PollEndsStep == ASSUME IInv, NEW r \in Runners, PollEnds(r) PROVE IInv'
<1> USE DEF IInv, PollEnds, At, Goes, GoTo, table, tries
<1>1. TypeOK'
  BY DEF TypeOK, Process, Steps, JobState
<1>2. ASSUME NEW q \in Runners PROVE HandOK(q)'
  <2>1. CASE q = r
    BY <2>1 DEF HandOK, TypeOK, Process, Waits
  <2>2. CASE q # r
    BY <2>2 DEF HandOK, TypeOK, Process, Waits
  <2> QED
    BY <2>1, <2>2
<1>3. ASSUME NEW k \in Jobs PROVE JobOK(k)'
  BY DEF JobOK, TypeOK
<1>4. Apart'
  BY DEF Apart, Hands, TypeOK, Process
<1>5. OnlyExhaustedMediaWrittenOff'
  BY DEF OnlyExhaustedMediaWrittenOff, TypeOK, HandOK
<1> QED
  BY <1>1, <1>2, <1>3, <1>4, <1>5

\* A handler that returned has done the work of the attempt.
LEMMA ReturnsStep == ASSUME IInv, NEW r \in Runners, HandlerReturns(r) PROVE IInv'
<1> USE DEF IInv
<1>1. PICK j \in runner[r].cur : effects' = [effects EXCEPT ![j] = @ + 1] /\ runner[r].at = "call"
                   /\ runner' = [runner EXCEPT ![r] = [runner[r] EXCEPT
                        !.at = IF j \in Digests THEN "rearm" ELSE "good"]]
  BY DEF HandlerReturns, At, NextJob, GoTo, Goes
<1>2. UNCHANGED <<state, attempts, due, unusable, faults, crashes>>
  BY DEF HandlerReturns, At, NextJob, GoTo, Goes, table, tries
<1>3. runner' = [runner EXCEPT ![r] = [runner[r] EXCEPT !.at = IF j \in Digests THEN "rearm" ELSE "good"]]
  BY <1>1 DEF HandlerReturns, NextJob, GoTo, Goes, At
<1>4. j \in Jobs /\ runner[r].cur = {j} /\ runner[r] \in Process /\ j \notin runner[r].held
  BY DEF TypeOK, Process, HandOK
<1>5. /\ runner'[r] = [runner[r] EXCEPT !.at = IF j \in Digests THEN "rearm" ELSE "good"]
      /\ \A q \in Runners : q # r => runner'[q] = runner[q] /\ j \notin Hands(q)
  BY <1>3, <1>4 DEF TypeOK, Apart, Hands
<1>6. TypeOK'
  BY <1>1, <1>2, <1>3, <1>4 DEF TypeOK, Process, Steps, JobState
<1>7. ASSUME NEW q \in Runners PROVE HandOK(q)'
  <2>1. CASE q = r
    BY <2>1, <1>1, <1>2, <1>4, <1>5 DEF HandOK, TypeOK, Process, Waits, JobOK, Exhausted
  <2>2. CASE q # r
    BY <2>2, <1>1, <1>2, <1>4, <1>5 DEF HandOK, TypeOK, Process, Hands
  <2> QED
    BY <2>1, <2>2
<1>8. ASSUME NEW k \in Jobs PROVE JobOK(k)'
  BY <1>1, <1>2, <1>4 DEF JobOK, TypeOK, HandOK, Exhausted
<1>9. Apart'
  <2>1. Hands(r)' \subseteq Hands(r) /\ \A q \in Runners : q # r => Hands(q)' = Hands(q)
    BY <1>4, <1>5 DEF Hands, Process
  <2> QED
    BY <2>1 DEF Apart
<1>10. OnlyExhaustedMediaWrittenOff'
  BY <1>1, <1>2, <1>4 DEF OnlyExhaustedMediaWrittenOff, TypeOK, HandOK
<1> QED
  BY <1>6, <1>7, <1>8, <1>9, <1>10

\* A handler that threw has not.
LEMMA ThrowsStep == ASSUME IInv, NEW r \in Runners, HandlerThrows(r) PROVE IInv'
<1> USE DEF IInv
<1>1. PICK p \in {[runner[r] EXCEPT !.at = "rearm", !.threw = TRUE],
                  [runner[r] EXCEPT !.at = "bad"]} :
             runner' = [runner EXCEPT ![r] = p] /\ runner[r].at = "call"
  BY DEF HandlerThrows, Goes, GoTo, At
<1>2. UNCHANGED <<state, attempts, due, effects, unusable, faults, crashes>>
  BY DEF HandlerThrows, table, tries
<1>3. /\ runner[r] \in Process /\ p \in Process
      /\ p.held = runner[r].held /\ p.cur = runner[r].cur
      /\ p.at = "bad" \/ (p.at = "rearm" /\ p.threw)
      /\ runner'[r] = p
      /\ \A q \in Runners : q # r => runner'[q] = runner[q]
  <2>1. runner[r] \in Process
    BY DEF TypeOK
  <2>2. CASE p = [runner[r] EXCEPT !.at = "bad"]
    BY <2>1, <2>2, <1>1 DEF TypeOK, Process, Steps
  <2>3. CASE p = [runner[r] EXCEPT !.at = "rearm", !.threw = TRUE]
    BY <2>1, <2>3, <1>1 DEF TypeOK, Process, Steps
  <2> QED
    BY <2>2, <2>3
<1>4. TypeOK'
  BY <1>1, <1>2, <1>3 DEF TypeOK
<1>5. ASSUME NEW q \in Runners PROVE HandOK(q)'
  <2>1. CASE q = r
    BY <2>1, <1>1, <1>2, <1>3 DEF HandOK, Waits
  <2>2. CASE q # r
    BY <2>2, <1>2, <1>3 DEF HandOK
  <2> QED
    BY <2>1, <2>2
<1>6. ASSUME NEW k \in Jobs PROVE JobOK(k)'
  BY <1>2 DEF JobOK
<1>7. Apart'
  <2>1. \A q \in Runners : Hands(q)' = Hands(q)
    BY <1>3 DEF Hands
  <2> QED
    BY <2>1 DEF Apart
<1>8. OnlyExhaustedMediaWrittenOff'
  BY <1>2 DEF OnlyExhaustedMediaWrittenOff
<1> QED
  BY <1>4, <1>5, <1>6, <1>7, <1>8

\* Re-arming inserts a row nobody holds.
LEMMA RearmStep == ASSUME IInv, NEW r \in Runners, Rearm(r) PROVE IInv'
<1> USE DEF IInv, Rearm, Insert, At, Goes, GoTo, table, tries
<1>1. TypeOK'
  BY DEF TypeOK, Process, Steps, JobState
<1>2. ASSUME NEW q \in Runners PROVE HandOK(q)'
  <2>1. CASE q = r
    BY <2>1 DEF HandOK, TypeOK, Process, Waits
  <2>2. CASE q # r
    BY <2>2 DEF HandOK, TypeOK, Process, Waits
  <2> QED
    BY <2>1, <2>2
<1>3. ASSUME NEW k \in Jobs PROVE JobOK(k)'
  BY DEF JobOK, TypeOK
<1>4. Apart'
  BY DEF Apart, Hands, TypeOK, Process
<1>5. OnlyExhaustedMediaWrittenOff'
  BY DEF OnlyExhaustedMediaWrittenOff, TypeOK, HandOK
<1> QED
  BY <1>1, <1>2, <1>3, <1>4, <1>5

\* A digest that cannot be re-armed has failed.
LEMMA RearmFailsStep == ASSUME IInv, NEW r \in Runners, RearmFails(r) PROVE IInv'
<1> USE DEF IInv, RearmFails, Fault, At, Goes, GoTo, table, tries
<1>1. TypeOK'
  BY DEF TypeOK, Process, Steps, JobState
<1>2. ASSUME NEW q \in Runners PROVE HandOK(q)'
  <2>1. CASE q = r
    BY <2>1 DEF HandOK, TypeOK, Process, Waits
  <2>2. CASE q # r
    BY <2>2 DEF HandOK, TypeOK, Process, Waits
  <2> QED
    BY <2>1, <2>2
<1>3. ASSUME NEW k \in Jobs PROVE JobOK(k)'
  BY DEF JobOK, TypeOK
<1>4. Apart'
  BY DEF Apart, Hands, TypeOK, Process
<1>5. OnlyExhaustedMediaWrittenOff'
  BY DEF OnlyExhaustedMediaWrittenOff, TypeOK, HandOK
<1> QED
  BY <1>1, <1>2, <1>3, <1>4, <1>5

\* Only the job in hand is marked done.
LEMMA DoneStep == ASSUME IInv, NEW r \in Runners, MarkDone(r) PROVE IInv'
<1> USE DEF IInv
<1>1. PICK j \in runner[r].cur : state' = [state EXCEPT ![j] = "done"] /\ runner[r].at = "good"
  BY DEF MarkDone, At, NextJob, GoTo, Goes
<1>2. UNCHANGED <<attempts, due, effects, unusable, faults, crashes>>
  BY DEF MarkDone, At, NextJob, GoTo, Goes, table, tries
<1>3. runner' = [runner EXCEPT ![r] = [runner[r] EXCEPT !.at = "pick", !.cur = {}, !.threw = FALSE]]
  BY <1>1 DEF MarkDone, NextJob, GoTo, Goes, At
<1>4. j \in Jobs /\ runner[r].cur = {j} /\ runner[r] \in Process /\ j \notin runner[r].held
  BY DEF TypeOK, Process, HandOK
<1>5. /\ runner'[r] = [runner[r] EXCEPT !.at = "pick", !.cur = {}, !.threw = FALSE]
      /\ \A q \in Runners : q # r => runner'[q] = runner[q] /\ j \notin Hands(q)
  BY <1>3, <1>4 DEF TypeOK, Apart, Hands
<1>6. TypeOK'
  BY <1>1, <1>2, <1>3, <1>4 DEF TypeOK, Process, Steps, JobState
<1>7. ASSUME NEW q \in Runners PROVE HandOK(q)'
  <2>1. CASE q = r
    BY <2>1, <1>1, <1>2, <1>4, <1>5 DEF HandOK, TypeOK, Process, Waits, JobOK, Exhausted
  <2>2. CASE q # r
    BY <2>2, <1>1, <1>2, <1>4, <1>5 DEF HandOK, TypeOK, Process, Hands
  <2> QED
    BY <2>1, <2>2
<1>8. ASSUME NEW k \in Jobs PROVE JobOK(k)'
  BY <1>1, <1>2, <1>4 DEF JobOK, TypeOK, HandOK, Exhausted
<1>9. Apart'
  <2>1. Hands(r)' \subseteq Hands(r) /\ \A q \in Runners : q # r => Hands(q)' = Hands(q)
    BY <1>4, <1>5 DEF Hands, Process
  <2> QED
    BY <2>1 DEF Apart
<1>10. OnlyExhaustedMediaWrittenOff'
  BY <1>1, <1>2, <1>4 DEF OnlyExhaustedMediaWrittenOff, TypeOK, HandOK
<1> QED
  BY <1>6, <1>7, <1>8, <1>9, <1>10

\* A failed done update is a failed job.
LEMMA DoneFailsStep == ASSUME IInv, NEW r \in Runners, MarkDoneFails(r) PROVE IInv'
<1> USE DEF IInv, MarkDoneFails, Fault, At, Goes, GoTo, table, tries
<1>1. TypeOK'
  BY DEF TypeOK, Process, Steps, JobState
<1>2. ASSUME NEW q \in Runners PROVE HandOK(q)'
  <2>1. CASE q = r
    BY <2>1 DEF HandOK, TypeOK, Process, Waits
  <2>2. CASE q # r
    BY <2>2 DEF HandOK, TypeOK, Process, Waits
  <2> QED
    BY <2>1, <2>2
<1>3. ASSUME NEW k \in Jobs PROVE JobOK(k)'
  BY DEF JobOK, TypeOK
<1>4. Apart'
  BY DEF Apart, Hands, TypeOK, Process
<1>5. OnlyExhaustedMediaWrittenOff'
  BY DEF OnlyExhaustedMediaWrittenOff, TypeOK, HandOK
<1> QED
  BY <1>1, <1>2, <1>3, <1>4, <1>5

\* A job given back has an attempt left.
LEMMA RetryStep == ASSUME IInv, NEW r \in Runners, Retry(r) PROVE IInv'
<1> USE DEF IInv
<1>1. PICK j \in runner[r].cur : /\ ~Exhausted(j) /\ runner[r].at = "bad"
                               /\ state' = [state EXCEPT ![j] = "pending"]
                               /\ due' = due \ {j}
  BY DEF Retry, At, NextJob, GoTo, Goes
<1>2. UNCHANGED <<attempts, effects, unusable, faults, crashes>>
  BY DEF Retry, At, NextJob, GoTo, Goes, table, tries
<1>3. runner' = [runner EXCEPT ![r] = [runner[r] EXCEPT !.at = "pick", !.cur = {}, !.threw = FALSE]]
  BY <1>1 DEF Retry, NextJob, GoTo, Goes, At
<1>4. j \in Jobs /\ runner[r].cur = {j} /\ runner[r] \in Process /\ j \notin runner[r].held
  BY DEF TypeOK, Process, HandOK
<1>5. /\ runner'[r] = [runner[r] EXCEPT !.at = "pick", !.cur = {}, !.threw = FALSE]
      /\ \A q \in Runners : q # r => runner'[q] = runner[q] /\ j \notin Hands(q)
  BY <1>3, <1>4 DEF TypeOK, Apart, Hands
<1>6. TypeOK'
  BY <1>1, <1>2, <1>3, <1>4 DEF TypeOK, Process, Steps, JobState
<1>7. ASSUME NEW q \in Runners PROVE HandOK(q)'
  <2>1. CASE q = r
    BY <2>1, <1>1, <1>2, <1>4, <1>5 DEF HandOK, TypeOK, Process, Waits, JobOK, Exhausted
  <2>2. CASE q # r
    BY <2>2, <1>1, <1>2, <1>4, <1>5 DEF HandOK, TypeOK, Process, Hands
  <2> QED
    BY <2>1, <2>2
<1>8. ASSUME NEW k \in Jobs PROVE JobOK(k)'
  BY <1>1, <1>2, <1>4 DEF JobOK, TypeOK, HandOK, Exhausted
<1>9. Apart'
  <2>1. Hands(r)' \subseteq Hands(r) /\ \A q \in Runners : q # r => Hands(q)' = Hands(q)
    BY <1>4, <1>5 DEF Hands, Process
  <2> QED
    BY <2>1 DEF Apart
<1>10. OnlyExhaustedMediaWrittenOff'
  BY <1>1, <1>2, <1>4 DEF OnlyExhaustedMediaWrittenOff, TypeOK, HandOK
<1> QED
  BY <1>6, <1>7, <1>8, <1>9, <1>10

\* A job parked has none.
LEMMA GiveUpStep == ASSUME IInv, NEW r \in Runners, GiveUp(r) PROVE IInv'
<1> USE DEF IInv
<1>1. PICK j \in runner[r].cur : /\ Exhausted(j) /\ runner[r].at = "bad"
                               /\ state' = [state EXCEPT ![j] = "failed"]
  BY DEF GiveUp, At, NextJob, GoTo, Goes
<1>2. UNCHANGED <<attempts, due, effects, unusable, faults, crashes>>
  BY DEF GiveUp, At, NextJob, GoTo, Goes, table, tries
<1>3. runner' = [runner EXCEPT ![r] = [runner[r] EXCEPT !.at = "park"]]
  BY <1>1 DEF GiveUp, NextJob, GoTo, Goes, At
<1>4. j \in Jobs /\ runner[r].cur = {j} /\ runner[r] \in Process /\ j \notin runner[r].held
  BY DEF TypeOK, Process, HandOK
<1>5. /\ runner'[r] = [runner[r] EXCEPT !.at = "park"]
      /\ \A q \in Runners : q # r => runner'[q] = runner[q] /\ j \notin Hands(q)
  BY <1>3, <1>4 DEF TypeOK, Apart, Hands
<1>6. TypeOK'
  BY <1>1, <1>2, <1>3, <1>4 DEF TypeOK, Process, Steps, JobState
<1>7. ASSUME NEW q \in Runners PROVE HandOK(q)'
  <2>1. CASE q = r
    BY <2>1, <1>1, <1>2, <1>4, <1>5 DEF HandOK, TypeOK, Process, Waits, JobOK, Exhausted
  <2>2. CASE q # r
    BY <2>2, <1>1, <1>2, <1>4, <1>5 DEF HandOK, TypeOK, Process, Hands
  <2> QED
    BY <2>1, <2>2
<1>8. ASSUME NEW k \in Jobs PROVE JobOK(k)'
  BY <1>1, <1>2, <1>4 DEF JobOK, TypeOK, HandOK, Exhausted
<1>9. Apart'
  <2>1. Hands(r)' \subseteq Hands(r) /\ \A q \in Runners : q # r => Hands(q)' = Hands(q)
    BY <1>4, <1>5 DEF Hands, Process
  <2> QED
    BY <2>1 DEF Apart
<1>10. OnlyExhaustedMediaWrittenOff'
  BY <1>1, <1>2, <1>4 DEF OnlyExhaustedMediaWrittenOff, TypeOK, HandOK
<1> QED
  BY <1>6, <1>7, <1>8, <1>9, <1>10

\* The job in hand is exhausted when its media is written off.
LEMMA MediaStep == ASSUME IInv, NEW r \in Runners, MarkMedia(r) PROVE IInv'
<1> USE DEF IInv, MarkMedia, NextJob, At, Goes, GoTo, table, tries
<1>1. TypeOK'
  BY DEF TypeOK, Process, Steps, JobState
<1>2. ASSUME NEW q \in Runners PROVE HandOK(q)'
  <2>1. CASE q = r
    BY <2>1 DEF HandOK, TypeOK, Process, Waits
  <2>2. CASE q # r
    BY <2>2 DEF HandOK, TypeOK, Process, Waits
  <2> QED
    BY <2>1, <2>2
<1>3. ASSUME NEW k \in Jobs PROVE JobOK(k)'
  BY DEF JobOK, TypeOK
<1>4. Apart'
  BY DEF Apart, Hands, TypeOK, Process
<1>5. OnlyExhaustedMediaWrittenOff'
  BY DEF OnlyExhaustedMediaWrittenOff, TypeOK, HandOK
<1> QED
  BY <1>1, <1>2, <1>3, <1>4, <1>5

\* An abandoned batch leaves no hands behind.
LEMMA RecordFailsStep == ASSUME IInv, NEW r \in Runners, RecordFails(r) PROVE IInv'
<1> USE DEF IInv, RecordFails, Fault, Abandon, Resting, At, Goes, GoTo, table, tries
<1>1. TypeOK'
  BY DEF TypeOK, Process, Steps, JobState
<1>2. ASSUME NEW q \in Runners PROVE HandOK(q)'
  <2>1. CASE q = r
    BY <2>1 DEF HandOK, TypeOK, Process, Waits
  <2>2. CASE q # r
    BY <2>2 DEF HandOK, TypeOK, Process, Waits
  <2> QED
    BY <2>1, <2>2
<1>3. ASSUME NEW k \in Jobs PROVE JobOK(k)'
  BY DEF JobOK, TypeOK
<1>4. Apart'
  BY DEF Apart, Hands, TypeOK, Process
<1>5. OnlyExhaustedMediaWrittenOff'
  BY DEF OnlyExhaustedMediaWrittenOff, TypeOK, HandOK
<1> QED
  BY <1>1, <1>2, <1>3, <1>4, <1>5

\* Neither does a crash.
LEMMA CrashStep == ASSUME IInv, NEW r \in Runners, Crash(r) PROVE IInv'
<1> USE DEF IInv, Crash, Resting, At, Goes, GoTo, table, tries
<1>1. TypeOK'
  BY DEF TypeOK, Process, Steps, JobState
<1>2. ASSUME NEW q \in Runners PROVE HandOK(q)'
  <2>1. CASE q = r
    BY <2>1 DEF HandOK, TypeOK, Process, Waits
  <2>2. CASE q # r
    BY <2>2 DEF HandOK, TypeOK, Process, Waits
  <2> QED
    BY <2>1, <2>2
<1>3. ASSUME NEW k \in Jobs PROVE JobOK(k)'
  BY DEF JobOK, TypeOK
<1>4. Apart'
  BY DEF Apart, Hands, TypeOK, Process
<1>5. OnlyExhaustedMediaWrittenOff'
  BY DEF OnlyExhaustedMediaWrittenOff, TypeOK, HandOK
<1> QED
  BY <1>1, <1>2, <1>3, <1>4, <1>5

\* The rows other services insert, and the clock.
LEMMA OutsideStep == ASSUME IInv, NEW j \in Jobs, Enqueue(j) \/ RunAtComes(j) PROVE IInv'
<1> USE DEF IInv
<1>1. /\ UNCHANGED <<attempts, runner, effects, unusable, faults, crashes>>
      /\ due' \in SUBSET Jobs
      /\ (state' = state)
           \/ (state[j] = "absent" /\ state' = [state EXCEPT ![j] = "pending"])
  BY DEF Enqueue, RunAtComes, Insert, TypeOK
<1>2. TypeOK'
  BY <1>1 DEF TypeOK, JobState
<1>3. ASSUME NEW q \in Runners PROVE HandOK(q)'
  BY <1>1 DEF HandOK, TypeOK, Process
<1>4. ASSUME NEW k \in Jobs PROVE JobOK(k)'
  BY <1>1 DEF JobOK, TypeOK
<1>5. Apart' /\ OnlyExhaustedMediaWrittenOff'
  BY <1>1 DEF Apart, Hands, OnlyExhaustedMediaWrittenOff, TypeOK
<1> QED
  BY <1>2, <1>3, <1>4, <1>5

\* Every step preserves the invariant.
LEMMA StepIInv == IInv /\ [Next]_vars => IInv'
<1> SUFFICES ASSUME IInv, [Next]_vars PROVE IInv'
  OBVIOUS
<1>1. ASSUME NEW j \in Jobs, Enqueue(j) \/ RunAtComes(j) PROVE IInv'
  BY <1>1, OutsideStep
<1>2. ASSUME NEW r \in Runners, Boot(r) PROVE IInv'
  BY <1>2, StartStep, CountStep, SeedStep, SeedFailsStep DEF Boot
<1>3. ASSUME NEW r \in Runners, Poll(r) PROVE IInv'
  BY <1>3, ClaimStep, PickStep, PollEndsStep DEF Poll
<1>4. ASSUME NEW r \in Runners, Handle(r) PROVE IInv'
  BY <1>4, ReturnsStep, ThrowsStep, RearmStep, RearmFailsStep, DoneStep, DoneFailsStep,
     RetryStep, GiveUpStep, MediaStep, RecordFailsStep DEF Handle
<1>5. ASSUME NEW r \in Runners, Crash(r) PROVE IInv'
  BY <1>5, CrashStep
<1>6. CASE UNCHANGED vars
  BY <1>6 DEF vars, IInv, TypeOK, HandOK, JobOK, Apart, Hands, OnlyExhaustedMediaWrittenOff
<1> QED
  BY <1>1, <1>2, <1>3, <1>4, <1>5, <1>6 DEF Next

\* The invariant behind the theorems below.
THEOREM AlwaysIInv == Spec => []IInv
  BY InitIInv, StepIInv, PTL DEF Spec

\* The queue's state stays within its types.
THEOREM QueueTypes == Spec => []TypeOK
  BY AlwaysIInv, PTL DEF IInv

\* However polls, failures and crashes interleave, no job is in two processes'
\* hands, and what is in hand is marked running in the table.
THEOREM OneHolderAlways == Spec => []OneHolder
<1>1. IInv => OneHolder
  BY DEF IInv, OneHolder, HandOK, Apart, Hands, InState, At, TypeOK, Process
<1> QED
  BY <1>1, AlwaysIInv, PTL

\* Only media whose job used every attempt is written off.
THEOREM WrittenOffAlways == Spec => []OnlyExhaustedMediaWrittenOff
  BY AlwaysIInv, PTL DEF IInv

-----------------------------------------------------------------------------
(* Refinement: every step of the processes is a step of JobPromise.        *)

\* Both start from an empty table.
LEMMA InitPromise == Init => Promise!Init
  BY DEF Init, Promise!Init

\* One step of a process is one step of the promise, or none.
LEMMA StepPromise == IInv /\ [Next]_vars => [Promise!Next]_<<state, attempts, effects>>
<1> SUFFICES ASSUME IInv, [Next]_vars PROVE [Promise!Next]_<<state, attempts, effects>>
  OBVIOUS
<1> DEFINE Same == UNCHANGED <<state, attempts, effects>>
<1>0. TypeOK
  BY DEF IInv
<1>1. ASSUME NEW j \in Jobs, Enqueue(j) PROVE Promise!Submit(j)
  BY <1>1 DEF Enqueue, Insert, Promise!Submit, Promise!To
<1>2. ASSUME NEW j \in Jobs, RunAtComes(j) PROVE Same
  BY <1>2 DEF RunAtComes
<1>3. ASSUME NEW r \in Runners, Boot(r) PROVE Same \/ \E j \in Jobs : Promise!Submit(j)
  BY <1>3 DEF Boot, Start, CountDigests, Seed, SeedFails, Insert, table, Promise!Submit,
              Promise!To
<1>4. ASSUME NEW r \in Runners, Claim(r) PROVE \E S \in SUBSET Jobs : Promise!Take(S)
  <2>1. PICK S \in SUBSET Claimable :
          /\ state' = [j \in Jobs |-> IF j \in S THEN "running" ELSE state[j]]
          /\ attempts' = [j \in Jobs |-> IF j \in S THEN attempts[j] + 1 ELSE attempts[j]]
    BY <1>4 DEF Claim
  <2>2. S \in SUBSET Jobs /\ \A j \in S : state[j] = "pending" /\ attempts[j] < MaxAttempts
    BY DEF Claimable, DuePending, InState, IInv, JobOK
  <2>3. UNCHANGED effects
    BY <1>4 DEF Claim
  <2>4. Promise!Take(S)
    BY <2>1, <2>2, <2>3 DEF Promise!Take
  <2> QED
    BY <2>2, <2>4
<1>5. ASSUME NEW r \in Runners, PickJob(r) \/ PollEnds(r) PROVE Same
  BY <1>5 DEF PickJob, PollEnds, table
<1>6. ASSUME NEW r \in Runners, HandlerReturns(r) PROVE \E j \in Jobs : Promise!Work(j)
  BY <1>0, <1>6 DEF HandlerReturns, At, table, IInv, HandOK, TypeOK, Process, Promise!Work
<1>7. ASSUME NEW r \in Runners, Rearm(r) PROVE \E j \in Jobs : Promise!Submit(j)
  BY <1>7, DigestsAssumption DEF Rearm, Insert, Promise!Submit, Promise!To
<1>8. ASSUME NEW r \in Runners, MarkDone(r) PROVE \E j \in Jobs : Promise!Finish(j)
  BY <1>0, <1>8 DEF MarkDone, At, IInv, HandOK, TypeOK, Process, Promise!Finish, Promise!To
<1>9. ASSUME NEW r \in Runners, Retry(r) PROVE \E j \in Jobs : Promise!GiveBack(j)
  <2>1. PICK j \in runner[r].cur :
          ~Exhausted(j) /\ state' = [state EXCEPT ![j] = "pending"] /\ runner[r].at = "bad"
    BY <1>9 DEF Retry, At
  <2>2. j \in Jobs /\ state[j] = "running" /\ attempts[j] < MaxAttempts
    BY <2>1, <1>0 DEF IInv, HandOK, TypeOK, Process, Exhausted
  <2>3. UNCHANGED <<attempts, effects>>
    BY <1>9 DEF Retry
  <2> QED
    BY <2>1, <2>2, <2>3 DEF Promise!GiveBack, Promise!To
<1>10. ASSUME NEW r \in Runners, GiveUp(r) PROVE \E j \in Jobs : Promise!Park(j)
  <2>1. PICK j \in runner[r].cur :
          Exhausted(j) /\ state' = [state EXCEPT ![j] = "failed"] /\ runner[r].at = "bad"
    BY <1>10 DEF GiveUp, At
  <2>2. j \in Jobs /\ state[j] = "running" /\ attempts[j] = MaxAttempts
    BY <2>1, <1>0 DEF IInv, HandOK, TypeOK, Process, Exhausted
  <2>3. UNCHANGED <<attempts, effects>>
    BY <1>10 DEF GiveUp
  <2> QED
    BY <2>1, <2>2, <2>3 DEF Promise!Park, Promise!To
<1>11. ASSUME NEW r \in Runners, \/ HandlerThrows(r) \/ RearmFails(r) \/ MarkDoneFails(r)
                                 \/ MarkMedia(r) \/ RecordFails(r) \/ Crash(r)
       PROVE Same
  BY <1>11 DEF HandlerThrows, RearmFails, MarkDoneFails, MarkMedia, RecordFails, Crash, table
<1>12. CASE UNCHANGED vars
  BY <1>12 DEF vars
<1> QED
  BY <1>1, <1>2, <1>3, <1>4, <1>5, <1>6, <1>7, <1>8, <1>9, <1>10, <1>11, <1>12
  DEF Next, Poll, Handle, Promise!Next

\* The polling processes implement the abstract queue, whatever fails.
THEOREM ImplementsPromise == Spec => KeepsPromise
  BY InitPromise, StepPromise, AlwaysIInv, PTL DEF Spec, KeepsPromise, Promise!Spec,
     Promise!promised

-----------------------------------------------------------------------------
(* The daily sweep.  Without failures a live digest hands over to another:  *)
(* from the table to a batch, to the handler, to the row its finally block  *)
(* inserts; and nobody leaves the boot without one.                         *)

\* Where a digest that is armed is.
Carries(r, d) == \/ d \in runner[r].held
                 \/ d \in runner[r].cur /\ runner[r].at \in {"call", "rearm"}
Live(d) == state[d] = "pending" \/ \E r \in Runners : Carries(r, d)

LEMMA ArmedIsLive == Armed = {d \in Digests : Live(d)} /\ Armed' = {d \in Digests : Live(d)'}
  BY DEF Armed, PendingDigests, InState, Live, Carries

\* Inserting a digest arms the sweep, whatever else the step does.
LEMMA InsertArms ==
    ASSUME TypeOK, NEW j \in Digests, NEW now, Insert(j, now)
    PROVE  Live(j)'
  BY DEF Insert, TypeOK, Live

\* The failures so far never become fewer.
LEMMA FailuresStay ==
    ASSUME TypeOK, [Next]_vars, faults' = 0, crashes' = 0
    PROVE  faults = 0 /\ crashes = 0
<1>1. faults \in Nat /\ crashes \in Nat
  BY DEF TypeOK
<1>2. ASSUME NEW j \in Jobs, Enqueue(j) \/ RunAtComes(j) PROVE UNCHANGED tries
  BY <1>2 DEF Enqueue, RunAtComes, tries
<1>3. ASSUME NEW r \in Runners, Start(r) \/ CountDigests(r) \/ Seed(r) \/ Poll(r)
      PROVE  UNCHANGED tries
  BY <1>3 DEF Start, CountDigests, Seed, Poll, Claim, PickJob, PollEnds, tries
<1>4. ASSUME NEW r \in Runners, HandlerReturns(r) \/ HandlerThrows(r) \/ Rearm(r)
                                \/ MarkDone(r) \/ Retry(r) \/ GiveUp(r) \/ MarkMedia(r)
      PROVE  UNCHANGED tries
  BY <1>4 DEF HandlerReturns, HandlerThrows, Rearm, MarkDone, Retry, GiveUp, MarkMedia, tries
<1>5. ASSUME NEW r \in Runners,
             SeedFails(r) \/ RearmFails(r) \/ MarkDoneFails(r) \/ RecordFails(r)
      PROVE  FALSE
  <2>1. faults' = faults + 1
    BY <1>5 DEF SeedFails, RearmFails, MarkDoneFails, RecordFails, Fault
  <2> QED BY <2>1, <1>1
<1>6. ASSUME NEW r \in Runners, Crash(r) PROVE FALSE
  BY <1>6, <1>1 DEF Crash
<1>7. CASE UNCHANGED vars
  BY <1>7 DEF vars
<1> QED BY <1>2, <1>3, <1>4, <1>5, <1>6, <1>7 DEF Next, Boot, Handle, tries

\* Between two polls a process holds nothing a claim could overwrite.
EmptyBetweenPolls ==
    \A r \in Runners : runner[r].at \in {"down", "count", "seed", "idle"} => runner[r].held = {}

LEMMA EmptyStep ==
    ASSUME TypeOK, EmptyBetweenPolls, [Next]_vars
    PROVE  EmptyBetweenPolls'
<1>p. runner \in [Runners -> Process]
  BY DEF TypeOK
<1>a. ASSUME NEW r \in Runners, NEW p, Goes(r, p),
             p.at \in {"down", "count", "seed", "idle"} => p.held = {}
      PROVE  EmptyBetweenPolls'
  BY <1>a, <1>p DEF Goes, EmptyBetweenPolls
<1>b. ASSUME NEW r \in Runners, NEW st, GoTo(r, st), runner[r].held = {} \/ st \notin
             {"down", "count", "seed", "idle"}
      PROVE  EmptyBetweenPolls'
  <2> DEFINE p == [runner[r] EXCEPT !.at = st]
  <2>1. p.at = st /\ p.held = runner[r].held
    BY <1>p DEF Process
  <2>2. Goes(r, p)
    BY <1>b DEF GoTo
  <2> HIDE DEF p
  <2> QED BY <2>1, <2>2, <1>a, <1>b
<1>1. ASSUME NEW j \in Jobs, Enqueue(j) \/ RunAtComes(j) PROVE EmptyBetweenPolls'
  BY <1>1 DEF Enqueue, RunAtComes, EmptyBetweenPolls
<1>2. ASSUME NEW r \in Runners, Boot(r) PROVE EmptyBetweenPolls'
  <2>1. runner[r].held = {}
    BY <1>2 DEF Boot, Start, CountDigests, Seed, SeedFails, At, EmptyBetweenPolls
  <2> QED BY <2>1, <1>2, <1>b DEF Boot, Start, CountDigests, Seed, SeedFails
<1>3. ASSUME NEW r \in Runners, Claim(r) \/ PickJob(r) PROVE EmptyBetweenPolls'
  <2>1. CASE Claim(r)
    <3>1. PICK S : Goes(r, [runner[r] EXCEPT !.at = "pick", !.held = S])
      BY <2>1 DEF Claim
    <3>2. [runner[r] EXCEPT !.at = "pick", !.held = S].at = "pick"
      BY <1>p DEF Process
    <3> QED BY <3>1, <3>2, <1>a
  <2>2. CASE PickJob(r)
    <3>1. PICK j : Goes(r, [runner[r] EXCEPT !.at = "call", !.cur = {j}, !.held = @ \ {j}])
      BY <2>2 DEF PickJob
    <3>2. [runner[r] EXCEPT !.at = "call", !.cur = {j}, !.held = @ \ {j}].at = "call"
      BY <1>p DEF Process
    <3> QED BY <3>1, <3>2, <1>a
  <2> QED BY <1>3, <2>1, <2>2
<1>4. ASSUME NEW r \in Runners, PollEnds(r) PROVE EmptyBetweenPolls'
  BY <1>4, <1>b DEF PollEnds
<1>5. ASSUME NEW r \in Runners,
             \/ HandlerReturns(r) \/ Rearm(r) \/ RearmFails(r) \/ MarkDoneFails(r) \/ GiveUp(r)
      PROVE EmptyBetweenPolls'
  BY <1>5, <1>b DEF HandlerReturns, Rearm, RearmFails, MarkDoneFails, GiveUp
<1>6. ASSUME NEW r \in Runners, HandlerThrows(r) PROVE EmptyBetweenPolls'
  <2>1. \/ Goes(r, [runner[r] EXCEPT !.at = "rearm", !.threw = TRUE])
        \/ GoTo(r, "bad")
    BY <1>6 DEF HandlerThrows
  <2>2. [runner[r] EXCEPT !.at = "rearm", !.threw = TRUE].at = "rearm"
    BY <1>p DEF Process
  <2> QED BY <2>1, <2>2, <1>a, <1>b
<1>7. ASSUME NEW r \in Runners, MarkDone(r) \/ Retry(r) \/ MarkMedia(r)
      PROVE EmptyBetweenPolls'
  <2>1. Goes(r, [runner[r] EXCEPT !.at = "pick", !.cur = {}, !.threw = FALSE])
    BY <1>7 DEF MarkDone, Retry, MarkMedia, NextJob
  <2>2. [runner[r] EXCEPT !.at = "pick", !.cur = {}, !.threw = FALSE].at = "pick"
    BY <1>p DEF Process
  <2> QED BY <2>1, <2>2, <1>a
<1>8. ASSUME NEW r \in Runners, RecordFails(r) \/ Crash(r) PROVE EmptyBetweenPolls'
  BY <1>8, <1>a DEF RecordFails, Crash, Abandon, Resting
<1>9. CASE UNCHANGED vars
  BY <1>9 DEF vars, EmptyBetweenPolls
<1> QED BY <1>1, <1>2, <1>3, <1>4, <1>5, <1>6, <1>7, <1>8, <1>9 DEF Next, Poll, Handle

LEMMA ArmedStep ==
    ASSUME IInv, EmptyBetweenPolls, [Next]_vars, Armed # {}, faults' = 0, crashes' = 0
    PROVE  Armed' # {}
<1> TypeOK /\ TypeOK'
  BY StepIInv DEF IInv
<1> SUFFICES \E e \in Digests : Live(e)'
  BY ArmedIsLive
<1> PICK d \in Digests : Live(d)
  BY ArmedIsLive
<1>0. faults = 0 /\ crashes = 0
  BY FailuresStay
<1>p. runner \in [Runners -> Process]
  BY DEF TypeOK
<1>1. ASSUME NEW j \in Jobs, Enqueue(j) \/ RunAtComes(j) PROVE Live(d)'
  BY <1>1 DEF Enqueue, RunAtComes, Insert, Live, Carries, TypeOK
<1>2. ASSUME NEW r \in Runners, Start(r) \/ CountDigests(r) PROVE Live(d)'
  BY <1>2 DEF Start, CountDigests, At, GoTo, Goes, Live, Carries, TypeOK, Process
<1>3. ASSUME NEW r \in Runners, Seed(r) \/ Rearm(r) PROVE \E e \in Digests : Live(e)'
  BY <1>3, InsertArms DEF Seed, Rearm
<1>4. ASSUME NEW r \in Runners,
             SeedFails(r) \/ RearmFails(r) \/ MarkDoneFails(r) \/ RecordFails(r) \/ Crash(r)
      PROVE  FALSE
  BY <1>4, <1>0 DEF SeedFails, RearmFails, MarkDoneFails, RecordFails, Crash, Fault, TypeOK
<1>5. ASSUME NEW r \in Runners, Claim(r) PROVE Live(d)'
  <2>1. PICK S \in SUBSET Claimable :
          /\ state' = [j \in Jobs |-> IF j \in S THEN "running" ELSE state[j]]
          /\ runner' = [runner EXCEPT ![r] = [runner[r] EXCEPT !.at = "pick", !.held = S]]
    BY <1>5 DEF Claim, Goes
  <2>2. runner[r].at = "idle" /\ runner[r].cur = {} /\ runner[r].held = {}
    BY <1>5 DEF Claim, At, IInv, HandOK, Waits, EmptyBetweenPolls
  <2>3. CASE d \in S
    BY <2>1, <2>3 DEF Live, Carries, TypeOK, Process
  <2>4. CASE d \notin S /\ state[d] = "pending"
    BY <2>1, <2>4, DigestsAssumption DEF Live
  <2>5. CASE d \notin S /\ \E q \in Runners \ {r} : Carries(q, d)
    BY <2>1, <2>5 DEF Live, Carries, TypeOK
  <2>6. CASE d \notin S /\ Carries(r, d)
    BY <2>2, <2>6 DEF Carries
  <2>7. state[d] = "pending" \/ \E q \in Runners : Carries(q, d)
    BY DEF Live
  <2> QED BY <2>3, <2>4, <2>5, <2>6, <2>7
<1>6. ASSUME NEW r \in Runners, PickJob(r) PROVE Live(d)'
  <2>1. PICK j \in runner[r].held :
          runner' = [runner EXCEPT ![r] = [runner[r] EXCEPT !.at = "call", !.cur = {j},
                                                            !.held = @ \ {j}]]
    BY <1>6 DEF PickJob, Goes
  <2>2. state' = state /\ runner[r].at = "pick" /\ runner[r].cur = {}
    BY <1>6 DEF PickJob, table, At, IInv, HandOK, Waits
  <2> QED BY <2>1, <2>2 DEF Live, Carries, TypeOK, Process
<1>7. ASSUME NEW r \in Runners, PollEnds(r) PROVE Live(d)'
  BY <1>7 DEF PollEnds, table, At, GoTo, Goes, Live, Carries, TypeOK, Process
<1>8. ASSUME NEW r \in Runners, HandlerReturns(r) \/ HandlerThrows(r) PROVE Live(d)'
  <2>1. PICK j \in runner[r].cur :
          /\ runner'[r].held = runner[r].held /\ runner'[r].cur = runner[r].cur
          /\ j \in Digests => runner'[r].at = "rearm"
          /\ \A q \in Runners \ {r} : runner'[q] = runner[q]
    <3>1. CASE HandlerReturns(r)
      BY <3>1 DEF HandlerReturns, Goes, GoTo, TypeOK, Process
    <3>2. CASE HandlerThrows(r)
      <4>1. PICK j \in runner[r].cur :
              IF j \in Digests
              THEN Goes(r, [runner[r] EXCEPT !.at = "rearm", !.threw = TRUE])
              ELSE Goes(r, [runner[r] EXCEPT !.at = "bad"])
        BY <3>2 DEF HandlerThrows, GoTo
      <4>2. CASE j \in Digests
        BY <1>p, <4>1, <4>2 DEF Goes, Process
      <4>3. CASE j \notin Digests
        BY <1>p, <4>1, <4>3 DEF Goes, Process
      <4> QED BY <4>2, <4>3
    <3> QED BY <1>8, <3>1, <3>2
  <2>2. state' = state /\ \A k \in runner[r].cur : k = j
    BY <1>8 DEF HandlerReturns, HandlerThrows, table, IInv, HandOK
  <2> QED BY <2>1, <2>2 DEF Live, Carries, TypeOK
<1>9. ASSUME NEW r \in Runners, MarkDone(r) \/ Retry(r) \/ GiveUp(r) \/ MarkMedia(r)
      PROVE  Live(d)'
  <2>1. /\ runner'[r].held = runner[r].held
        /\ \A q \in Runners \ {r} : runner'[q] = runner[q]
    <3>1. \/ runner' = [runner EXCEPT ![r] = [runner[r] EXCEPT !.at = "pick", !.cur = {},
                                                              !.threw = FALSE]]
          \/ runner' = [runner EXCEPT ![r] = [runner[r] EXCEPT !.at = "park"]]
      BY <1>9 DEF MarkDone, Retry, GiveUp, MarkMedia, NextJob, Goes, GoTo
    <3> QED BY <1>p, <3>1 DEF Process
  <2>2. runner[r].at \in {"good", "bad", "park"}
    BY <1>9 DEF MarkDone, Retry, GiveUp, MarkMedia, At
  <2>3. state[d] = "pending" => state'[d] = "pending"
    <3>1. runner[r].at # "park" => \A j \in runner[r].cur : state[j] = "running"
      BY DEF IInv, HandOK
    <3> QED BY <1>9, <3>1, DigestsAssumption
            DEF MarkDone, Retry, GiveUp, MarkMedia, At, table, TypeOK
  <2> QED BY <2>1, <2>2, <2>3 DEF Live, Carries, TypeOK
<1>10. CASE UNCHANGED vars
  BY <1>10 DEF vars, Live, Carries
<1> QED
  BY <1>1, <1>2, <1>3, <1>4, <1>5, <1>6, <1>7, <1>8, <1>9, <1>10
  DEF Next, Boot, Poll, Handle

Booted == \E r \in Runners : runner[r].at \notin {"down", "count", "seed"}

\* The first process out of its boot leaves a digest behind.
LEMMA BootStep ==
    ASSUME IInv, [Next]_vars, ~Booted, Booted', faults' = 0, crashes' = 0
    PROVE  Armed' # {}
<1> TypeOK /\ TypeOK'
  BY StepIInv DEF IInv
<1> SUFFICES \E e \in Digests : Live(e)'
  BY ArmedIsLive
<1>1. \A r \in Runners : runner[r].at \in {"down", "count", "seed"}
  BY DEF Booted
<1>2. ASSUME NEW r \in Runners, Poll(r) \/ Handle(r) PROVE FALSE
  BY <1>1, <1>2 DEF Poll, Handle, Claim, PickJob, PollEnds, HandlerReturns, HandlerThrows,
     Rearm, RearmFails, MarkDone, MarkDoneFails, Retry, GiveUp, MarkMedia, RecordFails, At
<1>3. ASSUME NEW r \in Runners, SeedFails(r) \/ Crash(r) PROVE FALSE
  BY <1>3, FailuresStay DEF SeedFails, Crash, Fault
<1>4. ASSUME NEW r \in Runners, Start(r) PROVE FALSE
  BY <1>4, <1>1 DEF Start, GoTo, Goes, Booted, TypeOK, Process
<1>5. ASSUME NEW r \in Runners, CountDigests(r) PROVE \E e \in Digests : Live(e)'
  <2>1. CASE PendingDigests = {}
    BY <2>1, <1>5, <1>1 DEF CountDigests, GoTo, Goes, Booted, TypeOK, Process
  <2>2. CASE PendingDigests # {}
    BY <2>2, <1>5 DEF CountDigests, PendingDigests, InState, Live
  <2> QED BY <2>1, <2>2
<1>6. ASSUME NEW r \in Runners, Seed(r) PROVE \E e \in Digests : Live(e)'
  BY <1>6, InsertArms DEF Seed
<1>7. ~(UNCHANGED vars) /\ ~\E j \in Jobs : Enqueue(j) \/ RunAtComes(j)
  BY DEF vars, Enqueue, RunAtComes, Booted
<1> QED BY <1>2, <1>3, <1>4, <1>5, <1>6, <1>7 DEF Next, Boot

\* Whatever the handlers throw and however polls of any number of processes
\* interleave, the daily sweep is not lost while no process dies and no call fails.
THEOREM SweepIsCarriedOn == Spec => []SweepNotLost
<1>1. Init => SweepNotLost /\ EmptyBetweenPolls
  BY DEF Init, SweepNotLost, EmptyBetweenPolls, Resting
<1>2. IInv /\ EmptyBetweenPolls /\ [Next]_vars => EmptyBetweenPolls'
  BY EmptyStep DEF IInv
<1>3. IInv /\ EmptyBetweenPolls /\ SweepNotLost /\ [Next]_vars => SweepNotLost'
  <2> SUFFICES ASSUME IInv, EmptyBetweenPolls, SweepNotLost, [Next]_vars,
                      faults' = 0, crashes' = 0, Booted'
               PROVE  Armed' # {}
    BY DEF SweepNotLost, Booted
  <2>1. faults = 0 /\ crashes = 0
    BY FailuresStay DEF IInv
  <2>2. CASE Booted
    BY <2>1, <2>2, ArmedStep DEF SweepNotLost, Booted
  <2>3. CASE ~Booted
    BY <2>3, BootStep
  <2> QED BY <2>2, <2>3
<1> QED BY <1>1, <1>2, <1>3, AlwaysIInv, PTL DEF Spec
=============================================================================
