-------------------------- MODULE SaveConfigProofs --------------------------
(***************************************************************************)
(* Proofs about SaveConfig for every Batch, MaxAge and MaxPatches.          *)
(***************************************************************************)
EXTENDS SaveConfig, SequenceTheorems, TLAPS

\* The variables keep their types and nothing is saved that was never patched
\* (UpdateBigIPSourceAddress, process and frequency), with every fault.
THEOREM TypeCorrect == Spec => []TypeOK
<1>1. Init => TypeOK
  BY DEF Init, TypeOK
<1>2. TypeOK /\ [Next]_vars => TypeOK'
  <2> SUFFICES ASSUME TypeOK, [Next]_vars PROVE TypeOK'
    OBVIOUS
  <2> USE DEF TypeOK
  <2>1. CASE Patch \/ PatchAnswered \/ PatchAnswerLost
    BY <2>1 DEF Patch, PatchAnswered, PatchAnswerLost
  <2>2. CASE Process
    BY <2>2 DEF Process
  <2>3. CASE Frequency \/ StoreDisk \/ StoreDiskFails \/ OtherSave
    BY <2>3 DEF Frequency, StoreDisk, StoreDiskFails, OtherSave
  <2>4. CASE Clear \/ Crash
    <3>1. times' = <<>>
      BY <2>4 DEF Clear, Crash
    <3>2. times' \in Seq(Nat)
      BY <3>1, EmptySeq
    <3> QED
      BY <2>4, <3>2 DEF Clear, Crash
  <2>5. CASE Age
    <3>1. times' \in Seq(Nat)
      BY <2>5 DEF Age
    <3> QED
      BY <2>5, <3>1 DEF Age
  <2>6. CASE UNCHANGED vars
    BY <2>6 DEF vars
  <2> QED
    BY <2>1, <2>2, <2>3, <2>4, <2>5, <2>6 DEF Next
<1> QED
  BY <1>1, <1>2, PTL DEF Spec

\* With every fault, a patch that is not saved is remembered, unless its answer was
\* lost or the process ended since: the lock of syncFq makes the records that frequency
\* forgets exactly the ones it saved for.
THEOREM Durable == Spec => []NothingForgotten
<1>1. Init => NothingForgotten
  BY DEF Init, NothingForgotten
<1>2. TypeOK /\ NothingForgotten /\ [Next]_vars => NothingForgotten'
  <2> SUFFICES ASSUME TypeOK, NothingForgotten, [Next]_vars PROVE NothingForgotten'
    OBVIOUS
  <2> USE DEF NothingForgotten, Remembered, TypeOK
  <2>1. CASE Patch \/ PatchAnswered
    BY <2>1 DEF Patch, PatchAnswered
  <2>8. CASE PatchAnswerLost \/ Crash
    BY <2>8 DEF PatchAnswerLost, Crash
  <2>2. CASE Process
    \* a record takes the place of the goroutine
    BY <2>2 DEF Process
  <2>3. CASE Frequency \/ StoreDisk \/ StoreDiskFails
    BY <2>3 DEF Frequency, Due, StoreDisk, StoreDiskFails
  <2>4. CASE Clear
    \* a patch since StoreDisk is remembered by the worker or its goroutine
    BY <2>4 DEF Clear
  <2>5. CASE OtherSave
    BY <2>5 DEF OtherSave
  <2>6. CASE Age
    BY <2>6 DEF Age
  <2>7. CASE UNCHANGED vars
    BY <2>7 DEF vars
  <2> QED
    BY <2>1, <2>2, <2>3, <2>4, <2>5, <2>6, <2>7, <2>8 DEF Next
<1> QED
  BY <1>1, <1>2, TypeCorrect, PTL DEF Spec
=============================================================================
