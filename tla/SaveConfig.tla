----------------------------- MODULE SaveConfig -----------------------------
(***************************************************************************)
(* The batched save of the BIG-IP configuration (pkg/as3/request.go).  A     *)
(* patch of a source address list changes the running configuration only.    *)
(* The endpoints worker starts a goroutine, process, that records the time   *)
(* of the patch in syncFq.updateTimes; the goroutine of Work runs frequency  *)
(* every 30 seconds, which saves when there are many records or an old one,  *)
(* and forgets the records.  syncFq.lock orders process and frequency.       *)
(***************************************************************************)
EXTENDS Naturals, Sequences, FiniteSets

CONSTANTS
    Batch,      \* frequency saves when it finds more records than this (10)
    MaxAge,     \* or a record older than this (2 minutes)
    MaxPatches, \* bound: patches in a behaviour
    Faults      \* what can go wrong: "answer", "store", "crash"

ASSUME SaveAssumption ==
    /\ Batch \in Nat /\ MaxAge \in Nat /\ MaxPatches \in Nat
    /\ Faults \subseteq {"answer", "store", "crash"}

VARIABLES
    running,    \* patches the running configuration has
    saved,      \* patches the saved configuration has
    worker,     \* the endpoints worker: "idle", or "wait" for PATCH's answer
    spawned,    \* goroutines process that wait for syncFq.lock
    times,      \* syncFq.updateTimes, as the ages of the records
    fq,         \* frequency: "sleep", or, with syncFq.lock, "store" or "clear"
    lost        \* history: the last of the patches whose answer was lost, or that
                \* were before the process ended

vars == <<running, saved, worker, spawned, times, fq, lost>>

Init ==
    /\ running = 0 /\ saved = 0
    /\ worker = "idle"
    /\ spawned = 0
    /\ times = <<>>
    /\ fq = "sleep"
    /\ lost = 0

\* UpdateBigIPSourceAddress: the BIG-IP carries out the patch ...
Patch ==
    /\ running < MaxPatches
    /\ worker = "idle"
    /\ running' = running + 1
    /\ worker' = "wait"
    /\ UNCHANGED <<saved, spawned, times, fq, lost>>

\* ... and its answer arrives: go process().
PatchAnswered ==
    /\ worker = "wait"
    /\ worker' = "idle"
    /\ spawned' = spawned + 1
    /\ UNCHANGED <<running, saved, times, fq, lost>>

\* The answer is lost: an error, which endpointsSyncHandler ignores.
PatchAnswerLost ==
    /\ "answer" \in Faults
    /\ worker = "wait"
    /\ worker' = "idle"
    /\ lost' = running
    /\ UNCHANGED <<running, saved, spawned, times, fq>>

\* Mutants of Process: it runs without a patch, or does not take syncFq.lock.
Process_Unasked ==
    /\ fq = "sleep"
    /\ times' = Append(times, 0)
    /\ spawned' = spawned - 1
    /\ UNCHANGED <<running, saved, worker, fq, lost>>

Process_NoLock ==
    /\ spawned > 0
    /\ times' = Append(times, 0)
    /\ spawned' = spawned - 1
    /\ UNCHANGED <<running, saved, worker, fq, lost>>

Process ==
    /\ spawned > 0
    /\ fq = "sleep"
    /\ times' = Append(times, 0)
    /\ spawned' = spawned - 1
    /\ UNCHANGED <<running, saved, worker, fq, lost>>

\* Mutant of Due: old records are no reason to save.
Due_ManyOnly == Len(times) > Batch

\* frequency takes the lock and finds a reason to save.
Due == Len(times) > Batch \/ \E i \in DOMAIN times : times[i] > MaxAge

Frequency ==
    /\ fq = "sleep"
    /\ Due
    /\ fq' = "store"
    /\ UNCHANGED <<running, saved, worker, spawned, times, lost>>

StoreDisk ==
    /\ fq = "store"
    /\ saved' = running
    /\ fq' = "clear"
    /\ UNCHANGED <<running, worker, spawned, times, lost>>

\* The save fails, or only its answer is lost: the records are kept.
StoreDiskFails ==
    /\ "store" \in Faults
    /\ fq = "store"
    /\ saved' \in {saved, running}
    /\ fq' = "sleep"
    /\ UNCHANGED <<running, worker, spawned, times, lost>>

Clear ==
    /\ fq = "clear"
    /\ times' = <<>>
    /\ fq' = "sleep"
    /\ UNCHANGED <<running, saved, worker, spawned, lost>>

\* As3Request saves after it binds a policy, whatever frequency does.
OtherSave ==
    /\ saved' = running
    /\ UNCHANGED <<running, worker, spawned, times, fq, lost>>

\* Records age; beyond MaxAge it does not matter by how much.
Age ==
    /\ times' = [i \in DOMAIN times |-> IF times[i] > MaxAge THEN times[i] ELSE times[i] + 1]
    /\ UNCHANGED <<running, saved, worker, spawned, fq, lost>>

\* The controller ends and starts again.
Crash ==
    /\ "crash" \in Faults
    /\ worker' = "idle" /\ spawned' = 0 /\ times' = <<>> /\ fq' = "sleep"
    /\ lost' = running
    /\ UNCHANGED <<running, saved>>

Next ==
    \/ Patch \/ PatchAnswered \/ PatchAnswerLost
    \/ Process
    \/ Frequency \/ StoreDisk \/ StoreDiskFails \/ Clear
    \/ OtherSave
    \/ Age
    \/ Crash

\* Goroutines run, time passes, and a save that is tried again and again
\* succeeds once.  Nothing makes the endpoints or As3Request act.
Fairness ==
    /\ WF_vars(PatchAnswered) /\ SF_vars(Process)
    /\ WF_vars(Frequency) /\ SF_vars(StoreDisk) /\ WF_vars(Clear)
    /\ WF_vars(Age)

Spec == Init /\ [][Next]_vars /\ Fairness

-----------------------------------------------------------------------------
TypeOK ==
    /\ running \in Nat /\ saved \in Nat /\ saved <= running
    /\ worker \in {"idle", "wait"}
    /\ spawned \in Nat
    /\ times \in Seq(Nat)
    /\ fq \in {"sleep", "store", "clear"}
    /\ lost \in 0..running

\* Something remembers that a save is needed: the worker that waits for an
\* answer, a goroutine that is about to record its patch, or a record that
\* frequency is not about to forget.
Remembered ==
    \/ worker = "wait"
    \/ spawned > 0
    \/ times # <<>> /\ fq # "clear"

\* As long as a patch is not saved, something remembers that a save is needed, also
\* while frequency saves and forgets the records; only a lost answer or the end of the
\* process makes the controller forget patches, and it remembers those that follow.
NothingForgotten == (saved < running /\ lost < running) => Remembered

\* Every patch of a source address list is saved in the end, however many patches
\* follow it and although saves fail, unless it was forgotten in one of these ways.
PatchesSaved ==
    \A n \in 1 .. MaxPatches : (running >= n) ~> (saved >= n \/ lost >= n)
=============================================================================
