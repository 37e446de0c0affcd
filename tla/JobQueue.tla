------------------------------ MODULE JobQueue ------------------------------
(***************************************************************************)
(* The Postgres-backed job queue and the API processes that poll it.       *)
(*                                                                         *)
(* A poll claims a batch of due rows in one statement and then handles     *)
(* them one after the other; every write to the Job table is a step of its *)
(* own, can fail, and the process can die before it.  The batch lives only *)
(* in the memory of the process that claimed it.                           *)
(*                                                                         *)
(* Two kinds of job: a digest enqueues its own successor; the others only  *)
(* do their work, and a thumbnail job given up on marks its media failed.  *)
(***************************************************************************)
EXTENDS Integers, FiniteSets

CONSTANTS Runners,      \* API processes with JOBS_ENABLED
          Jobs,         \* identities of Job rows
          Digests,      \* the ones used for notification.digest rows
          MaxAttempts,  \* maxAttempts of every row
          BatchSize,    \* rows a poll claims at most
          MaxFaults,    \* bound: database calls that fail
          MaxCrashes    \* bound: processes that die

ASSUME DigestsAssumption == Digests \subseteq Jobs
ASSUME AttemptsAssumption == MaxAttempts \in Nat \ {0}
ASSUME BatchAssumption == BatchSize \in Nat \ {0}
ASSUME BoundsAssumption == MaxFaults \in Nat /\ MaxCrashes \in Nat

VARIABLES state,      \* [Jobs -> JobState]
          attempts,   \* [Jobs -> Nat]
          due,        \* jobs whose runAt has come
          runner,     \* what every process is doing
          effects,    \* history: handler runs that returned, per job
          unusable,   \* media rows marked failed, by the job that did it
          faults, crashes

table == <<state, attempts, due>>
tries == <<faults, crashes>>
vars == <<state, attempts, due, runner, effects, unusable, faults, crashes>>

JobState == {"absent", "pending", "running", "done", "failed"}

Steps == {"down",     \* the process is not running
          "count",    \* booting: about to count the pending digests
          "seed",     \* booting: none found, about to enqueue one
          "idle",     \* between polls
          "pick",     \* in the loop over the claimed batch
          "call",     \* in the handler of a job
          "rearm",    \* digest handler, in its finally block
          "good",     \* the handler returned, about to write done
          "bad",      \* it threw, about to write pending or failed
          "park"}     \* written failed, about to mark the media

\* cur: the job in hand, held: the rest of the batch, threw: the digest failed.
Process == [at : Steps, held : SUBSET Jobs, cur : SUBSET Jobs, threw : BOOLEAN]

TypeOK == /\ state \in [Jobs -> JobState]
          /\ attempts \in [Jobs -> 0..MaxAttempts]
          /\ due \in SUBSET Jobs
          /\ runner \in [Runners -> Process]
          /\ effects \in [Jobs -> Nat]
          /\ unusable \in SUBSET Jobs
          /\ faults \in 0..MaxFaults
          /\ crashes \in 0..MaxCrashes

Resting(step) == [at |-> step, held |-> {}, cur |-> {}, threw |-> FALSE]

Init == /\ state = [j \in Jobs |-> "absent"]
        /\ attempts = [j \in Jobs |-> 0]
        /\ due = {}
        /\ runner = [r \in Runners |-> Resting("down")]
        /\ effects = [j \in Jobs |-> 0]
        /\ unusable = {}
        /\ faults = 0
        /\ crashes = 0

InState(st) == {j \in Jobs : state[j] = st}
Hands(r) == runner[r].held \cup runner[r].cur
At(r, step) == runner[r].at = step
Goes(r, p)  == runner' = [runner EXCEPT ![r] = p]
GoTo(r, step) == Goes(r, [runner[r] EXCEPT !.at = step])
Fault == faults < MaxFaults /\ faults' = faults + 1 /\ UNCHANGED crashes

\* The loop goes on with the rest of the batch, or the poll ends.
NextJob(r) == Goes(r, [runner[r] EXCEPT !.at = "pick", !.cur = {}, !.threw = FALSE])

\* An error that leaves process(): tick() logs it and drops what it still held.
Abandon(r) == Goes(r, Resting("idle"))

-----------------------------------------------------------------------------
(* JobQueue.enqueue and the clock.                                         *)

Insert(j, now) == /\ state[j] = "absent"
                  /\ state' = [state EXCEPT ![j] = "pending"]
                  /\ due' = IF now THEN due \cup {j} ELSE due
                  /\ UNCHANGED attempts

\* Any service enqueues a job, for now or for later.
Enqueue(j) == /\ j \notin Digests
              /\ \E now \in BOOLEAN : Insert(j, now)
              /\ UNCHANGED <<runner, effects, unusable, faults, crashes>>

\* Bound: a digest becomes due, or is seeded, only while rows are left for the
\* successors of the ones already due.
RowForSuccessor == Cardinality(Digests \cap InState("absent"))
                   > Cardinality(Digests \cap due \cap
                        (InState("pending") \cup UNION {Hands(r) : r \in Runners}))

RunAtComes(j) == /\ state[j] = "pending" /\ j \notin due
                 /\ j \in Digests => RowForSuccessor
                 /\ due' = due \cup {j}
                 /\ UNCHANGED <<state, attempts, runner, effects, unusable, faults, crashes>>

-----------------------------------------------------------------------------
(* JobRunner.onApplicationBootstrap and ensureDaily.                       *)

Start(r) == /\ At(r, "down")
            /\ GoTo(r, "count")
            /\ UNCHANGED <<state, attempts, due, effects, unusable, faults, crashes>>

PendingDigests == Digests \cap InState("pending")

\* Fault: the seed looks at every digest row there ever was.
CountEveryDigest(r) ==
    /\ At(r, "count")
    /\ GoTo(r, IF Digests \subseteq InState("absent")
               THEN "seed" ELSE "idle")
    /\ UNCHANGED <<state, attempts, due, effects, unusable, faults, crashes>>

CountDigests(r) ==
    /\ At(r, "count")
    /\ GoTo(r, IF PendingDigests = {} THEN "seed" ELSE "idle")
    /\ UNCHANGED <<state, attempts, due, effects, unusable, faults, crashes>>

Seed(r) == /\ At(r, "seed")
           /\ RowForSuccessor
           /\ \E j \in Digests : Insert(j, FALSE)
           /\ GoTo(r, "idle")
           /\ UNCHANGED <<effects, unusable, faults, crashes>>

\* The seeding is best effort: a failure is logged and polling starts anyway.
SeedFails(r) == /\ runner[r].at \in {"count", "seed"}
                /\ Fault
                /\ GoTo(r, "idle")
                /\ UNCHANGED <<table, effects, unusable>>

-----------------------------------------------------------------------------
(* JobRunner.tick: claim, then process each.                               *)

DuePending == InState("pending") \cap due

\* Fault: rows already being worked on are claimed again.
ClaimableOrStale == {j \in Jobs : state[j] \in {"pending", "running"}
                                  /\ attempts[j] < MaxAttempts} \cap due

\* FOR UPDATE SKIP LOCKED: rows another poll is claiming are skipped, so a poll
\* may get fewer than there are.
Claimable == DuePending

Claim(r) ==
    /\ At(r, "idle")
    /\ \E S \in SUBSET Claimable :
         /\ S # {} /\ Cardinality(S) <= BatchSize
         /\ state' = [j \in Jobs |-> IF j \in S THEN "running" ELSE state[j]]
         /\ attempts' = [j \in Jobs |-> IF j \in S THEN attempts[j] + 1 ELSE attempts[j]]
         /\ Goes(r, [runner[r] EXCEPT !.at = "pick", !.held = S])
    /\ UNCHANGED <<due, effects, unusable, faults, crashes>>

PickJob(r) == /\ At(r, "pick")
              /\ \E j \in runner[r].held :
                   Goes(r, [runner[r] EXCEPT !.at = "call", !.cur = {j}, !.held = @ \ {j}])
              /\ UNCHANGED <<table, effects, unusable, tries>>

PollEnds(r) == /\ At(r, "pick") /\ runner[r].held = {}
               /\ GoTo(r, "idle")
               /\ UNCHANGED <<table, effects, unusable, tries>>

\* The handler does its work; a digest goes on to its finally block.
HandlerReturns(r) ==
    /\ At(r, "call")
    /\ \E j \in runner[r].cur :
         /\ effects' = [effects EXCEPT ![j] = @ + 1]
         /\ GoTo(r, IF j \in Digests THEN "rearm" ELSE "good")
    /\ UNCHANGED <<table, unusable, tries>>

\* Fault: an error of the handler is swallowed.
ThrowsUnheard(r) ==
    /\ At(r, "call")
    /\ \E j \in runner[r].cur : GoTo(r, IF j \in Digests THEN "rearm" ELSE "good")
    /\ UNCHANGED <<table, effects, unusable, tries>>

HandlerThrows(r) ==
    /\ At(r, "call")
    /\ \E j \in runner[r].cur :
         IF j \in Digests THEN Goes(r, [runner[r] EXCEPT !.at = "rearm", !.threw = TRUE])
                               ELSE GoTo(r, "bad")
    /\ UNCHANGED <<table, effects, unusable, tries>>

\* Fault: the next sweep is only armed when this one succeeded.
RearmIfSent(r) ==
    /\ At(r, "rearm")
    /\ IF runner[r].threw THEN UNCHANGED table ELSE \E j \in Digests : Insert(j, FALSE)
    /\ GoTo(r, IF runner[r].threw THEN "bad" ELSE "good")
    /\ UNCHANGED <<effects, unusable, faults, crashes>>

\* finally: tomorrow's sweep is enqueued whether or not this one threw.
Rearm(r) == /\ At(r, "rearm")
            /\ \E j \in Digests : Insert(j, FALSE)
            /\ GoTo(r, IF runner[r].threw THEN "bad" ELSE "good")
            /\ UNCHANGED <<effects, unusable, faults, crashes>>

RearmFails(r) == /\ At(r, "rearm")
                 /\ Fault
                 /\ GoTo(r, "bad")
                 /\ UNCHANGED <<table, effects, unusable>>

MarkDone(r) == /\ At(r, "good")
               /\ \E j \in runner[r].cur : state' = [state EXCEPT ![j] = "done"]
               /\ NextJob(r)
               /\ UNCHANGED <<attempts, due, effects, unusable, faults, crashes>>

\* The update is inside the try: its failure is taken for a failure of the job.
MarkDoneFails(r) == /\ At(r, "good")
                    /\ Fault
                    /\ GoTo(r, "bad")
                    /\ UNCHANGED <<table, effects, unusable>>

\* Fault: no retry.
ExhaustedAtOnce(j) == attempts[j] >= 1

Exhausted(j) == attempts[j] >= MaxAttempts

\* Fault: the row is only given a new runAt.
RetryStaysRunning(r) == /\ At(r, "bad")
                        /\ \E j \in runner[r].cur : ~Exhausted(j) /\ due' = due \ {j}
                        /\ NextJob(r)
                        /\ UNCHANGED <<state, attempts, effects, unusable, faults, crashes>>

\* backoff: the job is pending again, due a little later.
Retry(r) == /\ At(r, "bad")
            /\ \E j \in runner[r].cur : /\ ~Exhausted(j)
                                        /\ state' = [state EXCEPT ![j] = "pending"]
                                        /\ due' = due \ {j}
            /\ NextJob(r)
            /\ UNCHANGED <<attempts, effects, unusable, faults, crashes>>

GiveUp(r) == /\ At(r, "bad")
             /\ \E j \in runner[r].cur : /\ Exhausted(j)
                                         /\ state' = [state EXCEPT ![j] = "failed"]
             /\ GoTo(r, "park")
             /\ UNCHANGED <<attempts, due, effects, unusable, faults, crashes>>

\* markThumbnailMediaFailed
MarkMedia(r) == /\ At(r, "park")
                /\ unusable' = unusable \cup (runner[r].cur \ Digests)
                /\ NextJob(r)
                /\ UNCHANGED <<table, effects, tries>>

\* A write of the catch block fails: the error leaves process() and the loop.
RecordFails(r) == /\ runner[r].at \in {"bad", "park"}
                  /\ Fault
                  /\ Abandon(r)
                  /\ UNCHANGED <<table, effects, unusable>>

Crash(r) == /\ ~At(r, "down")
            /\ crashes < MaxCrashes /\ crashes' = crashes + 1
            /\ Goes(r, Resting("down"))
            /\ UNCHANGED <<state, attempts, due, effects, unusable, faults>>

-----------------------------------------------------------------------------

Poll(r) == Claim(r) \/ PickJob(r) \/ PollEnds(r)

Handle(r) == \/ HandlerReturns(r) \/ HandlerThrows(r) \/ Rearm(r) \/ RearmFails(r)
             \/ MarkDone(r) \/ MarkDoneFails(r) \/ Retry(r) \/ GiveUp(r)
             \/ MarkMedia(r) \/ RecordFails(r)

Boot(r) == Start(r) \/ CountDigests(r) \/ Seed(r) \/ SeedFails(r)

Next == \/ \E j \in Jobs : Enqueue(j) \/ RunAtComes(j)
        \/ \E r \in Runners : Boot(r) \/ Poll(r) \/ Handle(r) \/ Crash(r)

Spec == Init /\ [][Next]_vars

\* Processes are restarted and keep polling, handlers come to an end, time passes.  A
\* process is at one thing at a time, so one condition covers all it does.
\* No fairness on Enqueue, on the failures or on Crash.
FairSpec == /\ Spec
            /\ \A j \in Jobs : WF_vars(RunAtComes(j))
            /\ \A r \in Runners : WF_vars(Boot(r) \/ Poll(r) \/ Handle(r))

-----------------------------------------------------------------------------
(* Safety.                                                                 *)

\* No two processes ever hold the same job, and what a process still has to
\* handle is a row marked running: nobody else will claim it meanwhile.
OneHolder ==
    /\ \A r1, r2 \in Runners : r1 # r2 => Hands(r1) \cap Hands(r2) = {}
    /\ \A r \in Runners : /\ runner[r].held \subseteq InState("running")
                          /\ ~At(r, "park") => Hands(r) \subseteq InState("running")

\* Media is only written off after its job used up every attempt.
OnlyExhaustedMediaWrittenOff ==
    \A j \in unusable : state[j] = "failed" /\ attempts[j] = MaxAttempts

\* A digest that is pending, or that a live process will still re-arm.
Armed == PendingDigests \cup
         {j \in Digests : \E r \in Runners : \/ j \in runner[r].held
                                             \/ j \in runner[r].cur /\ runner[r].at \in {"call", "rearm"}}

\* As long as no process died and no database call failed, the daily sweep is
\* never lost once a process has booted, whatever the handlers throw.
SweepNotLost ==
    /\ crashes = 0 /\ faults = 0
    /\ \E r \in Runners : runner[r].at \notin {"down", "count", "seed"}
    => Armed # {}

\* The table keeps the promise of a job queue.
Promise == INSTANCE JobPromise WITH Jobs <- Jobs, MaxAttempts <- MaxAttempts,
                                    state <- state, attempts <- attempts, effects <- effects
KeepsPromise == Promise!Spec

-----------------------------------------------------------------------------
(* Liveness.                                                               *)

\* Every job that was enqueued is eventually done or parked, whatever handlers
\* throw and whoever claims it, unless a process dies or a database call fails.
EveryJobEndsOrCrash ==
    \A j \in Jobs \ Digests :
       state[j] = "pending" ~> state[j] \in {"done", "failed"} \/ crashes > 0 \/ faults > 0

\* However processes die, some restart finds the sweep gone and seeds it again.
SweepComesBack == [](faults = 0) => []<>(Armed # {})

-----------------------------------------------------------------------------
(* What the comments say and the code does not do.                         *)

\* job-queue.service.ts: "so the job outlives a process restart": a job that was
\* enqueued ends, done or parked, though processes die and restart.
EveryJobEnds ==
    \A j \in Jobs \ Digests : state[j] = "pending" ~> state[j] \in {"done", "failed"}

\* job-queue.service.ts, of ensureDaily: "Ensures a single pending job of type exists
\* ... so a restart never duplicates them": at most one sweep that was never tried
\* is waiting for its day.
OneSweepScheduled == Cardinality({j \in PendingDigests : attempts[j] = 0}) <= 1
=============================================================================
