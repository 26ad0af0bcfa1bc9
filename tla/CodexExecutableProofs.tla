------------------------ MODULE CodexExecutableProofs ------------------------
(***************************************************************************)
(* Which bytes of Codex the planner runs: proofs for ExecutableSnapshots   *)
(* and CodexRuntime, for any number of builds, starts, callers, updates    *)
(* and planner processes.                                                  *)
(***************************************************************************)
EXTENDS CodexRuntime, ExecutableSnapshots, FiniteSetTheorems, TLAPS

-----------------------------------------------------------------------------
(* The private copies.                                                      *)
(*                                                                          *)
(* That a directory named by a hash holds that content is kept by Rename    *)
(* alone, and Rename relies on what Verify saw some steps before: between   *)
(* the two a preparation may at most be emptied, by a start of the same     *)
(* process that did not know it yet.                                        *)

\* A start under way was promised a build, by a process that lives.
StartsPromised ==
  \A s \in Starts : starts[s].at # "idle" => starts[s].build \in Contents /\ pid \in Pids

\* What is renamed still is what was verified, or was swept meanwhile.
VerifiedStays ==
  \A s \in Starts : starts[s].at = "rename" =>
    \A d \in Own(s) : d.holds \in {starts[s].build, Empty}

CopyInv == SnapshotTypeOK /\ StartsPromised /\ VerifiedStays /\ SnapshotsWhole /\ RunsPromised

USE DEF StartAt, Goes, Fails, NoStart, Held, Steps

LEMMA CopyInitSound == SnapshotInit => CopyInv
<1> SUFFICES ASSUME SnapshotInit PROVE CopyInv
  OBVIOUS
<1> QED
  BY SnapshotAssumption
  DEF SnapshotInit, CopyInv, SnapshotTypeOK, StartsPromised, VerifiedStays, SnapshotsWhole, RunsPromised

\* The types, and whose process a start is.
CopyTyped == SnapshotTypeOK /\ StartsPromised

\* One start moves, within its type.
StartStates == [at : Steps, build : Contents \cup {Gone}, doomed : SUBSET Contents,
                debris : SUBSET (Pids \X Starts)]

LEMMA StartsTyped ==
  ASSUME NEW s \in Starts, NEW r \in StartStates, starts \in [Starts -> StartStates],
         starts' = [starts EXCEPT ![s] = r]
  PROVE  starts' \in [Starts -> StartStates]
  OBVIOUS

LEMMA CopyTypeSound ==
  ASSUME CopyTyped, SnapshotNext
  PROVE  CopyTyped'
<1> USE SnapshotAssumption DEF CopyTyped, SnapshotTypeOK, StartsPromised
<1>1. ASSUME NEW s \in Starts, NEW b \in Contents, Begin(s, b) PROVE CopyTyped'
  BY <1>1 DEF Begin
<1>2. ASSUME NEW s \in Starts, Clean(s) PROVE CopyTyped'
  <2>1. PICK alive \in SUBSET (Pids \ {pid}) :
          starts' = [starts EXCEPT ![s].at = "sweep",
                                   ![s].debris = {<<d.pid, d.start>> : d \in {e \in prepared :
                                     e.pid \notin alive /\ ~(e.pid = pid /\ e.start \in Preparing)}}]
    BY <1>2 DEF Clean
  <2> DEFINE debris == {<<d.pid, d.start>> : d \in {e \in prepared :
                         e.pid \notin alive /\ ~(e.pid = pid /\ e.start \in Preparing)}}
  <2>2. debris \in SUBSET (Pids \X Starts)
    OBVIOUS
  <2> HIDE DEF debris
  <2> DEFINE moved == [starts EXCEPT ![s].at = "sweep"]
  <2>3. starts' = [moved EXCEPT ![s].debris = debris]
    BY <2>1 DEF debris
  <2>4. moved \in [Starts -> StartStates]
    BY DEF StartStates
  <2> HIDE DEF moved
  <2>5. starts' \in [Starts -> StartStates]
    BY <2>2, <2>3, <2>4 DEF StartStates
  <2>6. starts'[s].build = starts[s].build /\ \A t \in Starts \ {s} : starts'[t] = starts[t]
    BY <2>3, <2>4 DEF moved, StartStates
  <2>7. starts[s].at # "idle" /\ UNCHANGED <<executable, final, prepared, pid, lastRun>>
    BY <1>2 DEF Clean
  <2> QED
    BY <2>5, <2>6, <2>7 DEF StartStates
<1>3. ASSUME NEW s \in Starts, Sweep(s) PROVE CopyTyped'
  BY <1>3 DEF Sweep
<1>4. ASSUME NEW s \in Starts, Swept(s) PROVE CopyTyped'
  <2> DEFINE moved == [starts EXCEPT ![s].at = "look"]
  <2>3. starts' = [moved EXCEPT ![s].debris = {}]
    BY <1>4 DEF Swept
  <2>4. moved \in [Starts -> StartStates]
    BY DEF StartStates
  <2> HIDE DEF moved
  <2>5. starts' \in [Starts -> StartStates]
    BY <2>3, <2>4 DEF StartStates
  <2>6. starts'[s].build = starts[s].build /\ \A t \in Starts \ {s} : starts'[t] = starts[t]
    BY <2>3, <2>4 DEF moved, StartStates
  <2>7. starts[s].at # "idle" /\ UNCHANGED <<executable, final, prepared, pid, lastRun>>
    BY <1>4 DEF Swept
  <2> QED
    BY <2>5, <2>6, <2>7 DEF StartStates
<1>5. ASSUME NEW s \in Starts, Look(s) PROVE CopyTyped'
  BY <1>5 DEF Look
<1>6. ASSUME NEW s \in Starts, Prepare(s) PROVE CopyTyped'
  BY <1>6 DEF Prepare
<1>7. ASSUME NEW s \in Starts, Register(s) PROVE CopyTyped'
  BY <1>7 DEF Register
<1>8. ASSUME NEW s \in Starts, CopyPart(s) PROVE CopyTyped'
  BY <1>8 DEF CopyPart, Becomes, Own
<1>9. ASSUME NEW s \in Starts, Copy(s) PROVE CopyTyped'
  BY <1>9 DEF Copy, Becomes, Own
<1>10. ASSUME NEW s \in Starts, Verify(s) PROVE CopyTyped'
  BY <1>10 DEF Verify, Own
<1>11. ASSUME NEW s \in Starts, Rename(s) PROVE CopyTyped'
  BY <1>11 DEF Rename, Own
<1>12. ASSUME NEW s \in Starts, CheckCopy(s) PROVE CopyTyped'
  BY <1>12 DEF CheckCopy
<1>13. ASSUME NEW s \in Starts, Acquire(s) PROVE CopyTyped'
  BY <1>13 DEF Acquire
<1>14. ASSUME NEW s \in Starts, PruneCopies(s) PROVE CopyTyped'
  <2>1. PICK doomed \in SUBSET Contents :
          starts' = [starts EXCEPT ![s].at = "remove", ![s].doomed = doomed]
    BY <1>14 DEF PruneCopies, Present
  <2> DEFINE moved == [starts EXCEPT ![s].at = "remove"]
  <2>3. starts' = [moved EXCEPT ![s].doomed = doomed]
    BY <2>1
  <2>4. moved \in [Starts -> StartStates]
    BY DEF StartStates
  <2> HIDE DEF moved
  <2>5. starts' \in [Starts -> StartStates]
    BY <2>3, <2>4 DEF StartStates
  <2>6. starts'[s].build = starts[s].build /\ \A t \in Starts \ {s} : starts'[t] = starts[t]
    BY <2>3, <2>4 DEF moved, StartStates
  <2>7. starts[s].at # "idle" /\ UNCHANGED <<executable, final, prepared, pid, lastRun>>
    BY <1>14 DEF PruneCopies
  <2> QED
    BY <2>5, <2>6, <2>7 DEF StartStates
<1>15. ASSUME NEW s \in Starts, Vanished(s) PROVE CopyTyped'
  BY <1>15 DEF Vanished
<1>16. ASSUME NEW s \in Starts, RemoveCopy(s) PROVE CopyTyped'
  BY <1>16 DEF RemoveCopy
<1>17. ASSUME NEW s \in Starts, Bound(s) PROVE CopyTyped'
  BY <1>17 DEF Bound
<1>18. ASSUME NEW s \in Starts, RunCopy(s) PROVE CopyTyped'
  BY <1>18 DEF RunCopy
<1>19. ASSUME NEW s \in Starts, EndStart(s) PROVE CopyTyped'
  BY <1>19 DEF EndStart
<1>20. ASSUME NEW b \in Contents, Install(b) PROVE CopyTyped'
  BY <1>20 DEF Install
<1>21. ASSUME NEW p \in Pids, StartProcess(p) PROVE CopyTyped'
  BY <1>21 DEF StartProcess
<1>22. CASE Kill
  BY <1>22 DEF Kill
<1> QED
  BY <1>1, <1>2, <1>3, <1>4, <1>5, <1>6, <1>7, <1>8, <1>9, <1>10, <1>11, <1>12, <1>13, <1>14,
     <1>15, <1>16, <1>17, <1>18, <1>19, <1>20, <1>21, <1>22 DEF SnapshotNext, StartStep

\* A step of one start is no other start's, and verifies nothing.
Sidelong(s) ==
  /\ \A t \in Starts \ {s} : starts'[t] = starts[t]
  /\ starts'[s].at # "rename"

\* What others prepared and verified stays or is emptied.
LEMMA VerifiedKept ==
  ASSUME CopyTyped, CopyTyped', VerifiedStays, NEW s \in Starts, Sidelong(s), pid' = pid,
         \A d \in prepared' : d \in prepared \/ d.holds = Empty \/ d.start = s
  PROVE  VerifiedStays'
<1> SUFFICES ASSUME NEW t \in Starts, starts'[t].at = "rename", NEW d \in prepared',
                    d.pid = pid', d.start = t
             PROVE  d.holds \in {starts'[t].build, Empty}
  BY DEF VerifiedStays, Own
<1>1. t # s /\ starts'[t] = starts[t]
  BY DEF Sidelong
<1> QED
  BY <1>1 DEF VerifiedStays, Own, CopyTyped, SnapshotTypeOK

LEMMA CopyStepSound ==
  ASSUME CopyInv, SnapshotNext
  PROVE  VerifiedStays' /\ SnapshotsWhole' /\ RunsPromised'
<1> DEFINE Sound == VerifiedStays' /\ SnapshotsWhole' /\ RunsPromised'
<1> USE SnapshotAssumption
<1>0. CopyTyped /\ CopyTyped' /\ VerifiedStays /\ SnapshotsWhole /\ RunsPromised
  BY CopyTypeSound DEF CopyInv, CopyTyped
<1>1. ASSUME NEW s \in Starts, NEW b \in Contents, Begin(s, b) PROVE Sound
  <2>1. Sidelong(s)
    BY <1>1, <1>0 DEF Begin, Sidelong, CopyTyped, SnapshotTypeOK
  <2>2. pid' = pid /\ \A d \in prepared' : d \in prepared \/ d.holds = Empty \/ d.start = s
    BY <1>1, <1>0 DEF Begin, CopyTyped, SnapshotTypeOK
  <2>3. SnapshotsWhole' /\ RunsPromised'
    BY <1>1, <1>0 DEF Begin, SnapshotsWhole, RunsPromised, CopyTyped, SnapshotTypeOK, StartsPromised
  <2> QED
    BY <2>1, <2>2, <2>3, <1>0, VerifiedKept
<1>2. ASSUME NEW s \in Starts, Clean(s) PROVE Sound
  <2>1. Sidelong(s)
    BY <1>2, <1>0 DEF Clean, Sidelong, CopyTyped, SnapshotTypeOK
  <2>2. pid' = pid /\ \A d \in prepared' : d \in prepared \/ d.holds = Empty \/ d.start = s
    BY <1>2, <1>0 DEF Clean, CopyTyped, SnapshotTypeOK
  <2>3. SnapshotsWhole' /\ RunsPromised'
    BY <1>2, <1>0 DEF Clean, SnapshotsWhole, RunsPromised, CopyTyped, SnapshotTypeOK, StartsPromised
  <2> QED
    BY <2>1, <2>2, <2>3, <1>0, VerifiedKept
<1>3. ASSUME NEW s \in Starts, Sweep(s) PROVE Sound
  <2>1. Sidelong(s)
    BY <1>3, <1>0 DEF Sweep, Sidelong, CopyTyped, SnapshotTypeOK
  <2>2. pid' = pid /\ \A d \in prepared' : d \in prepared \/ d.holds = Empty \/ d.start = s
    BY <1>3, <1>0 DEF Sweep, CopyTyped, SnapshotTypeOK
  <2>3. SnapshotsWhole' /\ RunsPromised'
    BY <1>3, <1>0 DEF Sweep, SnapshotsWhole, RunsPromised, CopyTyped, SnapshotTypeOK, StartsPromised
  <2> QED
    BY <2>1, <2>2, <2>3, <1>0, VerifiedKept
<1>4. ASSUME NEW s \in Starts, Swept(s) PROVE Sound
  <2>1. Sidelong(s)
    BY <1>4, <1>0 DEF Swept, Sidelong, CopyTyped, SnapshotTypeOK
  <2>2. pid' = pid /\ \A d \in prepared' : d \in prepared \/ d.holds = Empty \/ d.start = s
    BY <1>4, <1>0 DEF Swept, CopyTyped, SnapshotTypeOK
  <2>3. SnapshotsWhole' /\ RunsPromised'
    BY <1>4, <1>0 DEF Swept, SnapshotsWhole, RunsPromised, CopyTyped, SnapshotTypeOK, StartsPromised
  <2> QED
    BY <2>1, <2>2, <2>3, <1>0, VerifiedKept
<1>5. ASSUME NEW s \in Starts, Look(s) PROVE Sound
  <2>1. Sidelong(s)
    BY <1>5, <1>0 DEF Look, Sidelong, CopyTyped, SnapshotTypeOK
  <2>2. pid' = pid /\ \A d \in prepared' : d \in prepared \/ d.holds = Empty \/ d.start = s
    BY <1>5, <1>0 DEF Look, CopyTyped, SnapshotTypeOK
  <2>3. SnapshotsWhole' /\ RunsPromised'
    BY <1>5, <1>0 DEF Look, SnapshotsWhole, RunsPromised, CopyTyped, SnapshotTypeOK, StartsPromised
  <2> QED
    BY <2>1, <2>2, <2>3, <1>0, VerifiedKept
<1>6. ASSUME NEW s \in Starts, Prepare(s) PROVE Sound
  <2>1. Sidelong(s)
    BY <1>6, <1>0 DEF Prepare, Sidelong, CopyTyped, SnapshotTypeOK
  <2>2. pid' = pid /\ \A d \in prepared' : d \in prepared \/ d.holds = Empty \/ d.start = s
    BY <1>6, <1>0 DEF Prepare, CopyTyped, SnapshotTypeOK
  <2>3. SnapshotsWhole' /\ RunsPromised'
    BY <1>6, <1>0 DEF Prepare, SnapshotsWhole, RunsPromised, CopyTyped, SnapshotTypeOK, StartsPromised
  <2> QED
    BY <2>1, <2>2, <2>3, <1>0, VerifiedKept
<1>7. ASSUME NEW s \in Starts, Register(s) PROVE Sound
  <2>1. Sidelong(s)
    BY <1>7, <1>0 DEF Register, Sidelong, CopyTyped, SnapshotTypeOK
  <2>2. pid' = pid /\ \A d \in prepared' : d \in prepared \/ d.holds = Empty \/ d.start = s
    BY <1>7, <1>0 DEF Register, CopyTyped, SnapshotTypeOK
  <2>3. SnapshotsWhole' /\ RunsPromised'
    BY <1>7, <1>0 DEF Register, SnapshotsWhole, RunsPromised, CopyTyped, SnapshotTypeOK, StartsPromised
  <2> QED
    BY <2>1, <2>2, <2>3, <1>0, VerifiedKept
<1>8. ASSUME NEW s \in Starts, CopyPart(s) PROVE Sound
  <2>1. Sidelong(s)
    BY <1>8, <1>0 DEF CopyPart, Sidelong, CopyTyped, SnapshotTypeOK
  <2>2. pid' = pid /\ \A d \in prepared' : d \in prepared \/ d.holds = Empty \/ d.start = s
    BY <1>8, <1>0 DEF CopyPart, CopyTyped, SnapshotTypeOK, Becomes, Own
  <2>3. SnapshotsWhole' /\ RunsPromised'
    BY <1>8, <1>0 DEF CopyPart, SnapshotsWhole, RunsPromised, CopyTyped, SnapshotTypeOK, StartsPromised
  <2> QED
    BY <2>1, <2>2, <2>3, <1>0, VerifiedKept
<1>9. ASSUME NEW s \in Starts, Copy(s) PROVE Sound
  <2>1. Sidelong(s)
    BY <1>9, <1>0 DEF Copy, Sidelong, CopyTyped, SnapshotTypeOK
  <2>2. pid' = pid /\ \A d \in prepared' : d \in prepared \/ d.holds = Empty \/ d.start = s
    BY <1>9, <1>0 DEF Copy, CopyTyped, SnapshotTypeOK, Becomes, Own
  <2>3. SnapshotsWhole' /\ RunsPromised'
    BY <1>9, <1>0 DEF Copy, SnapshotsWhole, RunsPromised, CopyTyped, SnapshotTypeOK, StartsPromised
  <2> QED
    BY <2>1, <2>2, <2>3, <1>0, VerifiedKept
<1>12. ASSUME NEW s \in Starts, CheckCopy(s) PROVE Sound
  <2>1. Sidelong(s)
    BY <1>12, <1>0 DEF CheckCopy, Sidelong, CopyTyped, SnapshotTypeOK
  <2>2. pid' = pid /\ \A d \in prepared' : d \in prepared \/ d.holds = Empty \/ d.start = s
    BY <1>12, <1>0 DEF CheckCopy, CopyTyped, SnapshotTypeOK
  <2>3. SnapshotsWhole' /\ RunsPromised'
    BY <1>12, <1>0 DEF CheckCopy, SnapshotsWhole, RunsPromised, CopyTyped, SnapshotTypeOK, StartsPromised
  <2> QED
    BY <2>1, <2>2, <2>3, <1>0, VerifiedKept
<1>13. ASSUME NEW s \in Starts, Acquire(s) PROVE Sound
  <2>1. Sidelong(s)
    BY <1>13, <1>0 DEF Acquire, Sidelong, CopyTyped, SnapshotTypeOK
  <2>2. pid' = pid /\ \A d \in prepared' : d \in prepared \/ d.holds = Empty \/ d.start = s
    BY <1>13, <1>0 DEF Acquire, CopyTyped, SnapshotTypeOK
  <2>3. SnapshotsWhole' /\ RunsPromised'
    BY <1>13, <1>0 DEF Acquire, SnapshotsWhole, RunsPromised, CopyTyped, SnapshotTypeOK, StartsPromised
  <2> QED
    BY <2>1, <2>2, <2>3, <1>0, VerifiedKept
<1>14. ASSUME NEW s \in Starts, PruneCopies(s) PROVE Sound
  <2>1. Sidelong(s)
    BY <1>14, <1>0 DEF PruneCopies, Sidelong, CopyTyped, SnapshotTypeOK
  <2>2. pid' = pid /\ \A d \in prepared' : d \in prepared \/ d.holds = Empty \/ d.start = s
    BY <1>14, <1>0 DEF PruneCopies, CopyTyped, SnapshotTypeOK
  <2>3. SnapshotsWhole' /\ RunsPromised'
    BY <1>14, <1>0 DEF PruneCopies, SnapshotsWhole, RunsPromised, CopyTyped, SnapshotTypeOK, StartsPromised
  <2> QED
    BY <2>1, <2>2, <2>3, <1>0, VerifiedKept
<1>15. ASSUME NEW s \in Starts, Vanished(s) PROVE Sound
  <2>1. Sidelong(s)
    BY <1>15, <1>0 DEF Vanished, Sidelong, CopyTyped, SnapshotTypeOK
  <2>2. pid' = pid /\ \A d \in prepared' : d \in prepared \/ d.holds = Empty \/ d.start = s
    BY <1>15, <1>0 DEF Vanished, CopyTyped, SnapshotTypeOK
  <2>3. SnapshotsWhole' /\ RunsPromised'
    BY <1>15, <1>0 DEF Vanished, SnapshotsWhole, RunsPromised, CopyTyped, SnapshotTypeOK, StartsPromised
  <2> QED
    BY <2>1, <2>2, <2>3, <1>0, VerifiedKept
<1>16. ASSUME NEW s \in Starts, RemoveCopy(s) PROVE Sound
  <2>1. Sidelong(s)
    BY <1>16, <1>0 DEF RemoveCopy, Sidelong, CopyTyped, SnapshotTypeOK
  <2>2. pid' = pid /\ \A d \in prepared' : d \in prepared \/ d.holds = Empty \/ d.start = s
    BY <1>16, <1>0 DEF RemoveCopy, CopyTyped, SnapshotTypeOK
  <2>3. SnapshotsWhole' /\ RunsPromised'
    BY <1>16, <1>0 DEF RemoveCopy, SnapshotsWhole, RunsPromised, CopyTyped, SnapshotTypeOK, StartsPromised
  <2> QED
    BY <2>1, <2>2, <2>3, <1>0, VerifiedKept
<1>17. ASSUME NEW s \in Starts, Bound(s) PROVE Sound
  <2>1. Sidelong(s)
    BY <1>17, <1>0 DEF Bound, Sidelong, CopyTyped, SnapshotTypeOK
  <2>2. pid' = pid /\ \A d \in prepared' : d \in prepared \/ d.holds = Empty \/ d.start = s
    BY <1>17, <1>0 DEF Bound, CopyTyped, SnapshotTypeOK
  <2>3. SnapshotsWhole' /\ RunsPromised'
    BY <1>17, <1>0 DEF Bound, SnapshotsWhole, RunsPromised, CopyTyped, SnapshotTypeOK, StartsPromised
  <2> QED
    BY <2>1, <2>2, <2>3, <1>0, VerifiedKept
<1>18. ASSUME NEW s \in Starts, RunCopy(s) PROVE Sound
  <2>1. Sidelong(s)
    BY <1>18, <1>0 DEF RunCopy, Sidelong, CopyTyped, SnapshotTypeOK
  <2>2. pid' = pid /\ \A d \in prepared' : d \in prepared \/ d.holds = Empty \/ d.start = s
    BY <1>18, <1>0 DEF RunCopy, CopyTyped, SnapshotTypeOK
  <2>3. SnapshotsWhole' /\ RunsPromised'
    BY <1>18, <1>0 DEF RunCopy, SnapshotsWhole, RunsPromised, CopyTyped, SnapshotTypeOK, StartsPromised
  <2> QED
    BY <2>1, <2>2, <2>3, <1>0, VerifiedKept
<1>19. ASSUME NEW s \in Starts, EndStart(s) PROVE Sound
  <2>1. Sidelong(s)
    BY <1>19, <1>0 DEF EndStart, Sidelong, CopyTyped, SnapshotTypeOK
  <2>2. pid' = pid /\ \A d \in prepared' : d \in prepared \/ d.holds = Empty \/ d.start = s
    BY <1>19, <1>0 DEF EndStart, CopyTyped, SnapshotTypeOK, Own
  <2>3. SnapshotsWhole' /\ RunsPromised'
    BY <1>19, <1>0 DEF EndStart, SnapshotsWhole, RunsPromised, CopyTyped, SnapshotTypeOK, StartsPromised
  <2> QED
    BY <2>1, <2>2, <2>3, <1>0, VerifiedKept
<1>10. ASSUME NEW s \in Starts, Verify(s) PROVE Sound
  <2>1. SnapshotsWhole' /\ RunsPromised'
    BY <1>10, <1>0 DEF Verify, SnapshotsWhole, RunsPromised
  <2>2. CASE Holds(s, starts[s].build)
    BY <2>1, <2>2, <1>10, <1>0 DEF Verify, Holds, VerifiedStays, Own, CopyTyped, SnapshotTypeOK
  <2>3. CASE ~Holds(s, starts[s].build)
    <3>1. Sidelong(s)
      BY <2>3, <1>10, <1>0 DEF Verify, Sidelong, CopyTyped, SnapshotTypeOK
    <3>2. pid' = pid /\ prepared' \subseteq prepared
      BY <2>3, <1>10 DEF Verify
    <3> QED
      BY <3>1, <3>2, <2>1, <1>0, VerifiedKept
  <2> QED
    BY <2>2, <2>3
<1>11. ASSUME NEW s \in Starts, Rename(s) PROVE Sound
  <2>1. Sidelong(s) /\ pid' = pid /\ prepared' \subseteq prepared /\ RunsPromised'
    BY <1>11, <1>0 DEF Rename, Sidelong, RunsPromised, CopyTyped, SnapshotTypeOK
  <2>2. PICK d \in Own(s) : final' = IF final[starts[s].build] \in {Gone, Empty}
                                     THEN [final EXCEPT ![starts[s].build] = d.holds] ELSE final
    BY <1>11 DEF Rename
  <2>3. d.holds \in {starts[s].build, Empty}
    BY <1>11, <1>0 DEF Rename, VerifiedStays
  <2>4. SnapshotsWhole'
    BY <2>2, <2>3, <1>0 DEF SnapshotsWhole, CopyTyped, SnapshotTypeOK
  <2> QED
    BY <2>1, <2>4, <1>0, VerifiedKept
<1>20. ASSUME NEW b \in Contents, Install(b) PROVE Sound
  BY <1>20, <1>0 DEF Install, VerifiedStays, SnapshotsWhole, RunsPromised, Own
<1>21. ASSUME NEW p \in Pids, StartProcess(p) PROVE Sound
  BY <1>21, <1>0 DEF StartProcess, VerifiedStays, SnapshotsWhole, RunsPromised, CopyTyped, StartsPromised
<1>22. CASE Kill
  BY <1>22, <1>0 DEF Kill, VerifiedStays, SnapshotsWhole, RunsPromised
<1> QED
  BY <1>1, <1>2, <1>3, <1>4, <1>5, <1>6, <1>7, <1>8, <1>9, <1>10, <1>11, <1>12, <1>13, <1>14,
     <1>15, <1>16, <1>17, <1>18, <1>19, <1>20, <1>21, <1>22 DEF SnapshotNext, StartStep

\* Whatever the updater, kills and other starts do in between, a start runs the bytes it
\* was promised or nothing, and a directory named by a hash holds that content or nothing:
\* acquireExecutableSnapshot in executable-snapshot.ts.
THEOREM AlwaysRunsAcceptedBytes == SnapshotSpec => []RunsAcceptedBytes
<1>1. SnapshotInit => CopyInv
  BY CopyInitSound
<1>2. CopyInv /\ [SnapshotNext]_snapshotVars => CopyInv'
  <2> SUFFICES ASSUME CopyInv, [SnapshotNext]_snapshotVars PROVE CopyInv'
    OBVIOUS
  <2>1. CASE SnapshotNext
    BY <2>1, CopyTypeSound, CopyStepSound DEF CopyInv, CopyTyped
  <2>2. CASE UNCHANGED snapshotVars
    BY <2>2 DEF snapshotVars, CopyInv, SnapshotTypeOK, StartsPromised, VerifiedStays, SnapshotsWhole,
                RunsPromised, Own
  <2> QED
    BY <2>1, <2>2
<1>3. CopyInv => RunsAcceptedBytes
  BY DEF CopyInv, RunsAcceptedBytes
<1> QED
  BY <1>1, <1>2, <1>3, PTL DEF SnapshotSpec

-----------------------------------------------------------------------------
(* The managed runtime.                                                     *)

\* The types; the schema bundles come below.
Stages == {"validate", "capture", "schema", "prune", "publish", "probe", "readback", "accept", "remember",
           "ready", "aborted"}
RuntimeTyped ==
  /\ disk \in Identity /\ config \in 0..MaxChanges /\ spoiled \in 0..MaxChanges
  /\ contract \in Contracts
  /\ published \in Builds \cup {Nothing}
  /\ accepted \in [identity : Identity, contract : Contracts] \cup {Nothing}
  /\ execution \in Execution \cup {Nothing}
  /\ evaluation \in Evaluation \cup {Nothing}
  /\ replacement \in [Ordinals -> Execution \cup {Nothing, Awaited, Failed}]
  /\ spawns \in [Callers -> SpawnCall]
  /\ closed \in BOOLEAN
  /\ started \in (Builds \X Contracts) \cup {Nothing}
  /\ reevaluated \in [Ordinals -> Nat]

\* What has been captured is an identity, and who checks an execution holds one.
Captured == {"schema", "prune", "publish", "probe", "readback", "accept", "remember", "ready"}
Holding == {"check", "open", "bind"}
RuntimeWell ==
  /\ RuntimeTyped
  /\ evaluation # Nothing /\ evaluation.stage \in Captured => evaluation.identity \in Identity
  /\ \A c \in Callers : spawns[c].at \in Holding => spawns[c].execution \in Execution

LEMMA AdvanceTyped ==
  ASSUME NEW e \in Evaluation, NEW stage \in Stages
  PROVE  /\ Advance(e, stage) \in Evaluation
         /\ Advance(e, stage).stage \in {stage, "aborted"}
         /\ Advance(e, stage).identity = e.identity
         /\ Advance(e, stage).config = e.config
         /\ closed \/ Advance(e, stage) = [e EXCEPT !.stage = stage]
  BY DEF Advance, Evaluation, Stages

LEMMA BegunTyped == Begun \in Evaluation /\ Begun.stage = "validate"
  BY RuntimeAssumption DEF Begun, Evaluation

LEMMA OrdinalTyped ==
  ASSUME NEW e \in Execution
  PROVE  Ordinal(e) \in Ordinals
  BY RuntimeAssumption DEF Execution, Identity, Ordinal, Ordinals

LEMMA SettleTyped ==
  ASSUME RuntimeWell, NEW st, NEW e \in Execution \cup {Nothing}, SettleEvaluation(st, e)
  PROVE  /\ execution' \in Execution \cup {Nothing}
         /\ evaluation' = Nothing
         /\ replacement' \in [Ordinals -> Execution \cup {Nothing, Awaited, Failed}]
         /\ spawns' \in [Callers -> SpawnCall]
         /\ \A c \in Callers : spawns'[c].at \in Holding => spawns'[c].execution \in Execution
         /\ UNCHANGED <<outside, closed, observed>>
  BY DEF RuntimeWell, RuntimeTyped, SettleEvaluation, SpawnCall, NoCall, Holding

LEMMA RuntimeTypeSound ==
  ASSUME RuntimeWell, RuntimeNext
  PROVE  RuntimeWell'
<1> USE RuntimeAssumption, MarksAssumption DEF outside, evidence, observed, RuntimeWell, Captured, Holding
<1>1. CASE Fail
  BY <1>1, SettleTyped DEF Fail, Conclude, RuntimeTyped, Evaluation
<1>2. CASE StartOver
  <2>1. CASE evaluation.attempt < MaxRestarts
    <3> DEFINE r == [evaluation EXCEPT !.attempt = @ + 1, !.identity = Nothing, !.bundle = Nothing]
    <3>1. r \in Evaluation
      <4> DEFINE q == [evaluation EXCEPT !.attempt = evaluation.attempt + 1]
      <4>1. q \in Evaluation
        BY <2>1, <1>2 DEF StartOver, RuntimeTyped, Evaluation
      <4>2. r = [[q EXCEPT !.identity = Nothing] EXCEPT !.bundle = Nothing]
        OBVIOUS
      <4> HIDE DEF q
      <4> QED
        BY <4>1, <4>2 DEF Evaluation
    <3> HIDE DEF r
    <3> QED
      BY <3>1, <2>1, <1>2, AdvanceTyped DEF StartOver, RuntimeTyped, r, Stages
  <2>2. CASE ~(evaluation.attempt < MaxRestarts)
    BY <1>2, <2>2, SettleTyped DEF StartOver, Conclude, RuntimeTyped, Evaluation
  <2> QED
    BY <2>1, <2>2
<1>3. CASE Validate
  BY <1>3, AdvanceTyped DEF Validate, ProceedTo, AtStage, RuntimeTyped, Stages
<1>4. CASE Capture
  <2> DEFINE r == [evaluation EXCEPT !.identity = disk]
  <2>1. r \in Evaluation /\ r.identity \in Identity
    BY <1>4 DEF Capture, AtStage, RuntimeTyped, Evaluation
  <2> HIDE DEF r
  <2> QED
    BY <2>1, <1>4, AdvanceTyped DEF Capture, RuntimeTyped, r, Stages
<1>5. CASE Incompatible
  BY <1>5, SettleTyped DEF Incompatible, AtStage, Conclude, RuntimeTyped, Evaluation
<1>6. CASE Generate
  BY <1>6, AdvanceTyped DEF Generate, ProceedTo, AtStage, RuntimeTyped, Stages
<1>24. CASE PruneBundles
  <2> DEFINE r == [evaluation EXCEPT !.bundle = evaluation.identity.build]
  <2>1. r \in Evaluation /\ r.identity \in Identity
    BY <1>24 DEF PruneBundles, AtStage, RuntimeTyped, Evaluation, Identity
  <2> HIDE DEF r
  <2>2. evaluation' = Advance(r, "publish")
        /\ UNCHANGED <<outside, published, accepted, readiness, execution, replacement, spawns, closed, observed>>
    BY <1>24 DEF PruneBundles, r
  <2> QED
    BY <2>1, <2>2, AdvanceTyped DEF RuntimeTyped, Stages
<1>25. CASE PruneInPart
  BY <1>25 DEF PruneInPart, AtStage, RuntimeTyped, Evaluation
<1>7. CASE PublishSchema
  BY <1>7, AdvanceTyped DEF PublishSchema, ProceedTo, AtStage, RuntimeTyped, Stages, Evaluation
<1>8. CASE Probe
  BY <1>8, AdvanceTyped DEF Probe, ProceedTo, AtStage, RuntimeTyped, Stages
<1>9. CASE ReadBack
  <2>1. PICK signedIn \in BOOLEAN :
          evaluation' = Advance([evaluation EXCEPT !.config = config, !.signedIn = signedIn], "accept")
    BY <1>9 DEF ReadBack
  <2> DEFINE r == [evaluation EXCEPT !.config = config, !.signedIn = signedIn]
  <2>2. r \in Evaluation /\ r.identity \in Identity
    BY <1>9 DEF ReadBack, AtStage, RuntimeTyped, Evaluation
  <2>3. evaluation' = Advance(r, "accept")
    BY <2>1
  <2> HIDE DEF r
  <2>4. UNCHANGED <<outside, evidence, readiness, execution, replacement, spawns, closed, observed>>
    BY <1>9 DEF ReadBack
  <2> QED
    BY <2>2, <2>3, <2>4, AdvanceTyped DEF RuntimeTyped, Stages
<1>10. CASE Accept
  BY <1>10 DEF Accept, AtStage, RuntimeTyped, Evaluation
<1>11. CASE RememberAccepted
  BY <1>11, AdvanceTyped DEF RememberAccepted, ProceedTo, AtStage, RuntimeTyped, Stages, Evaluation
<1>12. CASE Ready
  BY <1>12, SettleTyped DEF Ready, AtStage, RuntimeTyped, Evaluation, Execution
<1>13. ASSUME NEW c \in Callers, Spawn(c) PROVE RuntimeWell'
  BY <1>13, BegunTyped DEF Spawn, Sees, Waits, Join, RuntimeTyped, SpawnCall
<1>14. ASSUME NEW c \in Callers, Stale(c) \/ CopyFails(c) PROVE RuntimeWell'
  <2> DEFINE e == spawns[c].execution
  <2>1. e \in Execution /\ Replaced(e) /\ spawns' = IF spawns[c].retried THEN Ends(c) ELSE Followed(c, e)
    BY <1>14 DEF Stale, CopyFails, Reevaluate
  <2> HIDE DEF e
  <2>2. Ordinal(e) \in Ordinals
    BY <2>1, OrdinalTyped
  <2>3. /\ execution' \in Execution \cup {Nothing}
        /\ evaluation' \in {evaluation, Begun}
        /\ replacement' \in [Ordinals -> Execution \cup {Nothing, Awaited, Failed}]
        /\ reevaluated' \in [Ordinals -> Nat]
    BY <2>1, <2>2 DEF Replaced, BeginReplacement, Join, RuntimeTyped
  <2>4. spawns' \in [Callers -> SpawnCall]
    BY <2>1, <2>2, <2>3 DEF Followed, Ends, Waits, Sees, RuntimeTyped, SpawnCall, NoCall
  <2>5. \A d \in Callers : spawns'[d].at \in Holding => spawns'[d].execution \in Execution
    BY <2>1, <2>2, <2>3 DEF Followed, Ends, Waits, Sees, RuntimeTyped, SpawnCall, NoCall
  <2>6. UNCHANGED <<disk, config, contract, evidence, closed, started>> /\ spoiled' \in 0..MaxChanges
    BY <1>14 DEF Stale, CopyFails, Reevaluate, RuntimeTyped, Identity
  <2> QED
    BY <2>3, <2>4, <2>5, <2>6, BegunTyped DEF RuntimeTyped
<1>15. ASSUME NEW c \in Callers, Check(c) PROVE RuntimeWell'
  BY <1>15 DEF Check, RuntimeTyped, SpawnCall
<1>16. ASSUME NEW c \in Callers, Open(c) PROVE RuntimeWell'
  BY <1>16 DEF Open, RuntimeTyped, SpawnCall
<1>17. ASSUME NEW c \in Callers, Run(c) PROVE RuntimeWell'
  BY <1>17 DEF Run, Ends, NoCall, RuntimeTyped, SpawnCall, Execution, Identity
<1>18. ASSUME NEW c \in Callers, AbandonCall(c) PROVE RuntimeWell'
  BY <1>18 DEF AbandonCall, Ends, NoCall, RuntimeTyped, SpawnCall
<1>19. CASE Close
  BY <1>19 DEF Close, RuntimeTyped
<1>20. ASSUME NEW required \in Contracts, RestartPlanner(required) PROVE RuntimeWell'
  BY <1>20, BegunTyped DEF RestartPlanner, NoReplacement, NeverReevaluated, NoCall, RuntimeTyped, SpawnCall
<1>21. ASSUME NEW build \in Builds, Update(build) PROVE RuntimeWell'
  BY <1>21 DEF Update, inside, RuntimeTyped, Identity
<1>22. CASE Edit
  BY <1>22 DEF Edit, inside, RuntimeTyped, Identity
<1>23. CASE StaysClosed
  BY <1>23 DEF StaysClosed, runtimeVars, RuntimeTyped
<1> QED
  BY <1>1, <1>2, <1>3, <1>4, <1>5, <1>6, <1>7, <1>8, <1>9, <1>10, <1>11, <1>12, <1>13, <1>14,
     <1>15, <1>16, <1>17, <1>18, <1>19, <1>20, <1>21, <1>22, <1>23, <1>24, <1>25
  DEF RuntimeNext, Evaluate, Caller

-----------------------------------------------------------------------------
(* Only accepted builds run.                                                *)
(*                                                                          *)
(* What the probe accepted is passed on: from the evaluation to the         *)
(* execution, to the replacements and to the callers that hold it, and by   *)
(* way of the disk to the evaluations of later planners.  None of them may  *)
(* outlive the contract it was accepted for.                                *)

Fitting(identity) == <<identity.build, contract>> \in Compatible
Proven == {"readback", "accept", "remember", "ready"}

RememberedFits == accepted # Nothing => <<accepted.identity.build, accepted.contract>> \in Compatible
EvaluatedFits == evaluation # Nothing /\ evaluation.stage \in Proven => Fitting(evaluation.identity)
ExecutionFits == execution # Nothing => Fitting(execution.identity)
ReplacementsFit == \A o \in Ordinals : replacement[o] \in Execution => Fitting(replacement[o].identity)
HeldFits == \A c \in Callers : spawns[c].at \in Holding => Fitting(spawns[c].execution.identity)

AcceptInv ==
  /\ RuntimeWell
  /\ RememberedFits /\ EvaluatedFits /\ ExecutionFits /\ ReplacementsFit /\ HeldFits /\ RunsOnlyAccepted

LEMMA SettleFits ==
  ASSUME AcceptInv, RuntimeWell', NEW st, NEW e \in Execution \cup {Nothing}, e # Nothing => Fitting(e.identity),
         SettleEvaluation(st, e), UNCHANGED accepted
  PROVE  AcceptInv'
<1> USE DEF AcceptInv, RuntimeWell
<1>1. evaluation' = Nothing /\ UNCHANGED <<contract, started>>
  BY DEF SettleEvaluation, outside, observed
<1>2. ExecutionFits'
  BY <1>1 DEF SettleEvaluation, ExecutionFits, Fitting
<1>3. ReplacementsFit'
  BY <1>1, MarksAssumption DEF SettleEvaluation, ReplacementsFit, Fitting, RuntimeTyped
<1>4. HeldFits'
  <2> SUFFICES ASSUME NEW c \in Callers, spawns'[c].at \in Holding PROVE Fitting(spawns'[c].execution.identity)
    BY <1>1 DEF HeldFits, Fitting
  <2> DEFINE got == IF closed THEN Nothing ELSE e
  <2>1. spawns'[c] = IF spawns[c].at # "wait" THEN spawns[c]
                     ELSE IF got = Nothing THEN NoCall ELSE [spawns[c] EXCEPT !.at = "check", !.execution = got]
    BY DEF SettleEvaluation
  <2>2. CASE spawns[c].at # "wait"
    BY <2>1, <2>2 DEF HeldFits
  <2>3. CASE spawns[c].at = "wait"
    <3>1. got # Nothing /\ spawns'[c] = [spawns[c] EXCEPT !.at = "check", !.execution = got]
      BY <2>1, <2>3 DEF NoCall, Holding
    <3>2. spawns[c] \in SpawnCall
      BY DEF RuntimeTyped
    <3>3. spawns'[c].execution = e /\ e # Nothing
      BY <3>1, <3>2 DEF SpawnCall
    <3> QED
      BY <3>3
  <2> QED
    BY <2>2, <2>3
<1>5. RememberedFits' /\ EvaluatedFits' /\ RunsOnlyAccepted'
  BY <1>1 DEF RememberedFits, EvaluatedFits, RunsOnlyAccepted
<1> QED
  BY <1>2, <1>3, <1>4, <1>5

\* A step of the evaluation that does not end it.
LEMMA EvaluationFits ==
  ASSUME AcceptInv, RuntimeWell', UNCHANGED <<outside, accepted, execution, replacement, spawns, started>>,
         EvaluatedFits'
  PROVE  AcceptInv'
  BY DEF AcceptInv, outside, RememberedFits, ExecutionFits, ReplacementsFit, HeldFits, RunsOnlyAccepted, Fitting

LEMMA AcceptStep ==
  ASSUME AcceptInv, RuntimeWell', RuntimeNext
  PROVE  AcceptInv'
<1> USE RuntimeAssumption, MarksAssumption DEF outside, evidence, observed, RuntimeWell
<1>0. RuntimeWell /\ RememberedFits /\ EvaluatedFits /\ ExecutionFits /\ ReplacementsFit /\ HeldFits /\ RunsOnlyAccepted
  BY DEF AcceptInv
<1>1. CASE Fail
  BY <1>1, SettleFits DEF Fail, Conclude
<1>2. CASE StartOver
  <2>1. CASE evaluation.attempt < MaxRestarts
    <3> DEFINE r == [evaluation EXCEPT !.attempt = @ + 1, !.identity = Nothing, !.bundle = Nothing]
    <3>1. evaluation' = Advance(r, "capture")
      BY <2>1, <1>2 DEF StartOver
    <3>2. EvaluatedFits'
      BY <3>1 DEF Advance, EvaluatedFits, Proven
    <3> QED
      BY <3>2, <2>1, <1>2, EvaluationFits DEF StartOver
  <2>2. CASE ~(evaluation.attempt < MaxRestarts)
    BY <1>2, <2>2, SettleFits DEF StartOver, Conclude
  <2> QED
    BY <2>1, <2>2
<1>3. CASE Validate
  <2>1. evaluation' = Advance(evaluation, "capture")
    BY <1>3 DEF Validate, ProceedTo
  <2>2. EvaluatedFits'
    BY <2>1, <1>3, <1>0, AdvanceTyped DEF Validate, AtStage, EvaluatedFits, Proven, RuntimeTyped, Stages
  <2> QED
    BY <2>2, <1>3, EvaluationFits DEF Validate, ProceedTo
<1>4. CASE Capture
  <2> DEFINE r == [evaluation EXCEPT !.identity = disk]
  <2>1. r \in Evaluation /\ evaluation' = Advance(r, "schema")
    BY <1>4, <1>0 DEF Capture, AtStage, RuntimeTyped, Evaluation
  <2> HIDE DEF r
  <2>2. EvaluatedFits'
    BY <2>1, AdvanceTyped DEF EvaluatedFits, Proven, Stages
  <2> QED
    BY <2>2, <1>4, EvaluationFits DEF Capture
<1>5. CASE Incompatible
  BY <1>5, SettleFits DEF Incompatible, Conclude
<1>6. CASE Generate
  <2>1. EvaluatedFits'
    BY <1>6, <1>0, AdvanceTyped DEF Generate, ProceedTo, AtStage, EvaluatedFits, Proven, RuntimeTyped, Stages
  <2> QED
    BY <2>1, <1>6, EvaluationFits DEF Generate, ProceedTo
<1>24. CASE PruneBundles
  <2> DEFINE r == [evaluation EXCEPT !.bundle = evaluation.identity.build]
  <2>1. r \in Evaluation
    BY <1>0, <1>24 DEF PruneBundles, AtStage, RuntimeTyped, Evaluation, Identity, Captured
  <2>2. evaluation' = Advance(r, "publish")
    BY <1>24 DEF PruneBundles
  <2> HIDE DEF r
  <2>3. EvaluatedFits'
    BY <2>1, <2>2, AdvanceTyped DEF EvaluatedFits, Proven, Stages
  <2> QED
    BY <2>3, <1>24, EvaluationFits DEF PruneBundles
<1>25. CASE PruneInPart
  <2>1. EvaluatedFits'
    BY <1>25, <1>0 DEF PruneInPart, AtStage, EvaluatedFits, Proven, RuntimeTyped, Evaluation
  <2> QED
    BY <2>1, <1>25, EvaluationFits DEF PruneInPart
<1>7. CASE PublishSchema
  <2>1. evaluation' = Advance(evaluation, IF Reusable THEN "readback" ELSE "probe") /\ contract' = contract
    BY <1>7 DEF PublishSchema, ProceedTo
  <2>2. Reusable => Fitting(evaluation.identity)
    BY <1>0 DEF Reusable, Fitting, RememberedFits
  <2>3. EvaluatedFits'
    BY <2>1, <2>2, <1>0, <1>7, AdvanceTyped
    DEF PublishSchema, AtStage, EvaluatedFits, Proven, RuntimeTyped, Stages, Fitting
  <2> QED
    BY <2>3, <1>7, EvaluationFits DEF PublishSchema, ProceedTo
<1>8. CASE Probe
  <2>1. EvaluatedFits'
    BY <1>0, <1>8, AdvanceTyped
    DEF Probe, ProceedTo, Fits, AtStage, EvaluatedFits, Proven, RuntimeTyped, Stages, Fitting
  <2> QED
    BY <2>1, <1>8, EvaluationFits DEF Probe, ProceedTo
<1>9. CASE ReadBack
  <2>1. PICK signedIn \in BOOLEAN :
          evaluation' = Advance([evaluation EXCEPT !.config = config, !.signedIn = signedIn], "accept")
    BY <1>9 DEF ReadBack
  <2> DEFINE r == [evaluation EXCEPT !.config = config, !.signedIn = signedIn]
  <2>2. r \in Evaluation /\ r.identity = evaluation.identity
    BY <1>0, <1>9 DEF ReadBack, AtStage, RuntimeTyped, Evaluation
  <2>3. evaluation' = Advance(r, "accept")
    BY <2>1
  <2> HIDE DEF r
  <2>4. EvaluatedFits'
    BY <2>2, <2>3, <1>0, <1>9, AdvanceTyped DEF ReadBack, AtStage, EvaluatedFits, Proven, Stages, Fitting
  <2> QED
    BY <2>4, <1>9, EvaluationFits DEF ReadBack
<1>10. CASE Accept
  <2>1. EvaluatedFits'
    BY <1>0, <1>10 DEF Accept, AtStage, EvaluatedFits, Proven, Fitting, RuntimeTyped, Evaluation
  <2> QED
    BY <2>1, <1>10, EvaluationFits DEF Accept
<1>11. CASE RememberAccepted
  <2>1. EvaluatedFits'
    BY <1>0, <1>11, AdvanceTyped
    DEF RememberAccepted, ProceedTo, AtStage, EvaluatedFits, Proven, Fitting, RuntimeTyped, Stages
  <2>2. RememberedFits'
    BY <1>0, <1>11 DEF RememberAccepted, AtStage, EvaluatedFits, Proven, Fitting, RememberedFits
  <2> QED
    BY <2>1, <2>2, <1>0, <1>11
    DEF RememberAccepted, ProceedTo, AcceptInv, ExecutionFits, ReplacementsFit, HeldFits, RunsOnlyAccepted, Fitting
<1>12. CASE Ready
  <2>1. evaluation # Nothing /\ evaluation.stage = "ready" /\ accepted' = accepted
    BY <1>12 DEF Ready, AtStage
  <2>2. CASE evaluation.signedIn
    <3> DEFINE e == [identity |-> evaluation.identity, config |-> evaluation.config, spoiled |-> spoiled]
    <3>1. e \in Execution /\ Fitting(e.identity)
      BY <2>1, <1>0 DEF RuntimeTyped, Execution, Evaluation, Captured, EvaluatedFits, Proven, Fitting
    <3>2. SettleEvaluation("compatible", e)
      BY <2>2, <1>12 DEF Ready
    <3> HIDE DEF e
    <3> QED
      BY <3>1, <3>2, <2>1, SettleFits
  <2>3. CASE ~evaluation.signedIn
    BY <2>1, <2>3, <1>12, SettleFits DEF Ready
  <2> QED
    BY <2>2, <2>3
<1>13. ASSUME NEW c \in Callers, Spawn(c) PROVE AcceptInv'
  <2>1. evaluation' \in {evaluation, Begun} /\ UNCHANGED <<contract, accepted, execution, replacement, started>>
    BY <1>13 DEF Spawn, Join
  <2>2. EvaluatedFits'
    BY <2>1, <1>0, BegunTyped DEF EvaluatedFits, Fitting, Proven
  <2>3. HeldFits'
    BY <2>1, <1>0, <1>13 DEF Spawn, Sees, Waits, HeldFits, ExecutionFits, Fitting, RuntimeTyped, SpawnCall, Holding
  <2> QED
    BY <2>1, <2>2, <2>3, <1>0
    DEF AcceptInv, RememberedFits, ExecutionFits, ReplacementsFit, RunsOnlyAccepted, Fitting
<1>14. ASSUME NEW c \in Callers, Stale(c) \/ CopyFails(c) PROVE AcceptInv'
  <2> DEFINE e == spawns[c].execution
  <2>1. e \in Execution /\ Ordinal(e) \in Ordinals
    BY <1>14, OrdinalTyped DEF AcceptInv, Stale, CopyFails, Holding
  <2>2. Replaced(e) /\ spawns' = IF spawns[c].retried THEN Ends(c) ELSE Followed(c, e)
    BY <1>14 DEF Stale, CopyFails, Reevaluate
  <2> HIDE DEF e
  <2>3. UNCHANGED <<contract, accepted, started>>
    BY <1>14 DEF Stale, CopyFails, Reevaluate
  <2>4. ExecutionFits' /\ ReplacementsFit' /\ evaluation' \in {evaluation, Begun}
    BY <2>1, <2>2, <2>3, <1>0
    DEF Replaced, BeginReplacement, Join, ExecutionFits, ReplacementsFit, Fitting, RuntimeTyped
  <2>5. replacement' \in [Ordinals -> Execution \cup {Nothing, Awaited, Failed}]
    BY DEF RuntimeTyped
  <2>6. HeldFits'
    BY <2>1, <2>2, <2>3, <2>4, <2>5, <1>0
    DEF Followed, Ends, Sees, Waits, NoCall, HeldFits, ReplacementsFit, Fitting, RuntimeTyped, SpawnCall, Holding
  <2> QED
    BY <2>3, <2>4, <2>6, <1>0, BegunTyped
    DEF AcceptInv, EvaluatedFits, Proven, RememberedFits, RunsOnlyAccepted, Fitting
<1>15. ASSUME NEW c \in Callers, Check(c) \/ Open(c) PROVE AcceptInv'
  <2>1. HeldFits'
    BY <1>15, <1>0 DEF Check, Open, HeldFits, Fitting, RuntimeTyped, SpawnCall, Holding
  <2> QED
    BY <2>1, <1>15, <1>0
    DEF Check, Open, AcceptInv, RememberedFits, EvaluatedFits, ExecutionFits, ReplacementsFit, RunsOnlyAccepted, Fitting
<1>17. ASSUME NEW c \in Callers, Run(c) \/ AbandonCall(c) PROVE AcceptInv'
  <2>1. HeldFits' /\ RunsOnlyAccepted'
    BY <1>17, <1>0
    DEF Run, AbandonCall, Ends, NoCall, HeldFits, RunsOnlyAccepted, Fitting, RuntimeTyped, SpawnCall, Holding
  <2> QED
    BY <2>1, <1>17, <1>0
    DEF Run, AbandonCall, AcceptInv, RememberedFits, EvaluatedFits, ExecutionFits, ReplacementsFit, Fitting
<1>19. CASE Close
  BY <1>19, <1>0
  DEF Close, AcceptInv, RememberedFits, EvaluatedFits, ExecutionFits, ReplacementsFit, HeldFits, RunsOnlyAccepted, Fitting
<1>20. ASSUME NEW required \in Contracts, RestartPlanner(required) PROVE AcceptInv'
  BY <1>20, <1>0, BegunTyped
  DEF RestartPlanner, NoReplacement, NoCall, AcceptInv, RememberedFits, EvaluatedFits, ExecutionFits,
      ReplacementsFit, HeldFits, RunsOnlyAccepted, Fitting, Proven, Holding
<1>21. ASSUME NEW build \in Builds, Update(build) PROVE AcceptInv'
  BY <1>21, <1>0
  DEF Update, inside, AcceptInv, RememberedFits, EvaluatedFits, ExecutionFits, ReplacementsFit, HeldFits,
      RunsOnlyAccepted, Fitting
<1>22. CASE Edit
  BY <1>22, <1>0
  DEF Edit, inside, AcceptInv, RememberedFits, EvaluatedFits, ExecutionFits, ReplacementsFit, HeldFits,
      RunsOnlyAccepted, Fitting
<1>23. CASE StaysClosed
  BY <1>23, <1>0
  DEF StaysClosed, runtimeVars, AcceptInv, RememberedFits, EvaluatedFits, ExecutionFits, ReplacementsFit, HeldFits,
      RunsOnlyAccepted, Fitting
<1> QED
  BY <1>1, <1>2, <1>3, <1>4, <1>5, <1>6, <1>7, <1>8, <1>9, <1>10, <1>11, <1>12, <1>13, <1>14,
     <1>15, <1>17, <1>19, <1>20, <1>21, <1>22, <1>23, <1>24, <1>25 DEF RuntimeNext, Evaluate, Caller

LEMMA RuntimeInitSound == RuntimeInit => AcceptInv
<1> SUFFICES ASSUME RuntimeInit PROVE AcceptInv
  OBVIOUS
<1>1. RuntimeTyped
  <2>1. disk \in Identity /\ config \in 0..MaxChanges /\ spoiled \in 0..MaxChanges
    BY RuntimeAssumption DEF RuntimeInit, Identity
  <2>2. evaluation \in Evaluation
    BY BegunTyped DEF RuntimeInit
  <2>3. replacement \in [Ordinals -> {Nothing}] /\ reevaluated \in [Ordinals -> Nat] /\ spawns \in [Callers -> SpawnCall]
    BY DEF RuntimeInit, NoReplacement, NeverReevaluated, NoCall, SpawnCall
  <2> QED
    BY <2>1, <2>2, <2>3 DEF RuntimeInit, RuntimeTyped
<1>2. RuntimeWell /\ EvaluatedFits
  BY <1>1, BegunTyped
  DEF RuntimeInit, RuntimeWell, EvaluatedFits, Captured, Proven, Holding, NoCall
<1>3. ReplacementsFit /\ HeldFits
  BY MarksAssumption DEF RuntimeInit, ReplacementsFit, HeldFits, NoReplacement, Holding, NoCall
<1> QED
  BY <1>2, <1>3 DEF RuntimeInit, AcceptInv, RememberedFits, ExecutionFits, RunsOnlyAccepted

LEMMA RuntimeStutters ==
  ASSUME AcceptInv, UNCHANGED runtimeVars
  PROVE  AcceptInv'
  BY DEF runtimeVars, outside, evidence, observed, AcceptInv, RuntimeWell, RuntimeTyped, RememberedFits,
     EvaluatedFits, ExecutionFits, ReplacementsFit, HeldFits, RunsOnlyAccepted, Fitting

LEMMA AcceptAlways == RuntimeSpec => []AcceptInv
<1>1. AcceptInv /\ [RuntimeNext]_runtimeVars => AcceptInv'
  BY RuntimeTypeSound, AcceptStep, RuntimeStutters DEF AcceptInv
<1> QED
  BY RuntimeInitSound, <1>1, PTL DEF RuntimeSpec

\* Every app-server runs a build that the probe accepted for the contract of the release
\* that starts it, whatever the updater, other callers and earlier releases do between
\* probe and start: spawnAppServer in readiness.ts.
THEOREM OnlyAcceptedRuns == RuntimeSpec => []RunsOnlyAccepted
<1>1. AcceptInv => RunsOnlyAccepted
  BY DEF AcceptInv
<1> QED
  BY <1>1, AcceptAlways, PTL

-----------------------------------------------------------------------------
(* One reevaluation of a change.                                            *)
(*                                                                          *)
(* The replacements are remembered under the version of the execution they  *)
(* replace.  That this tells executions apart rests on the order of things: *)
(* only a change ends an execution, the evaluation that follows begins      *)
(* after it, and so its outcome is later than all that was ever replaced.   *)

\* An identity that the disk has or had, and an execution made from the past.
Past(identity) ==
  identity.stamp <= disk.stamp /\ (identity.stamp = disk.stamp => identity = disk)
Known(e) == Past(e.identity) /\ e.config <= config /\ e.spoiled <= spoiled

Underway == {"schema", "prune", "publish", "probe", "readback"}
Read == {"accept", "remember", "ready"}
Ended == {o \in Ordinals : replacement[o] # Nothing}

\* Nobody holds an execution that is neither the present one nor replaced.
Current(e) == closed \/ execution = e \/ replacement[Ordinal(e)] # Nothing

ExecutionKnown == execution # Nothing => Known(execution)
ReplacementsKnown == \A o \in Ordinals : replacement[o] \in Execution => Known(replacement[o]) /\ Current(replacement[o])
HeldKnown == \A c \in Callers : spawns[c].at \in Holding => Known(spawns[c].execution) /\ Current(spawns[c].execution)
EvaluationKnown ==
  /\ evaluation # Nothing /\ evaluation.stage \in Captured => Past(evaluation.identity)
  /\ evaluation # Nothing /\ evaluation.stage \in Read => evaluation.config <= config
NotBoth == evaluation # Nothing => execution = Nothing
LaterThanEnded ==
  \A o \in Ended :
    /\ o < disk.stamp + config + spoiled
    /\ execution # Nothing => o < Ordinal(execution)
    /\ evaluation # Nothing /\ evaluation.stage \in Underway => o < evaluation.identity.stamp + config + spoiled
    /\ evaluation # Nothing /\ evaluation.stage \in Read => o < evaluation.identity.stamp + evaluation.config + spoiled
CountedOnce == \A o \in Ordinals : reevaluated[o] <= 1 /\ (reevaluated[o] # 0 => o \in Ended)

OnceInv ==
  /\ RuntimeWell
  /\ ExecutionKnown /\ ReplacementsKnown /\ HeldKnown /\ EvaluationKnown
  /\ NotBoth /\ LaterThanEnded /\ CountedOnce

\* The evaluation ends, with an execution later than all that were replaced or with none.
LEMMA SettleOnce ==
  ASSUME OnceInv, RuntimeWell', evaluation # Nothing, NEW st, NEW e \in Execution \cup {Nothing},
         e # Nothing => Known(e) /\ \A o \in Ended : o < Ordinal(e),
         SettleEvaluation(st, e)
  PROVE  OnceInv'
<1> USE MarksAssumption DEF OnceInv, RuntimeWell
<1> DEFINE got == IF closed THEN Nothing ELSE e
<1>1. evaluation' = Nothing /\ execution' = got /\ UNCHANGED <<disk, config, spoiled, closed, reevaluated>>
  BY DEF SettleEvaluation, outside, observed
<1>2. execution = Nothing
  BY DEF NotBoth
<1>3. \A o \in Ordinals : replacement'[o] = IF replacement[o] # Awaited THEN replacement[o]
                                            ELSE IF got = Nothing THEN Failed ELSE got
  BY DEF SettleEvaluation
<1>4. got # Nothing => Known(got)' /\ Current(got)' /\ \A o \in Ended : o < Ordinal(got)
  BY <1>1 DEF Known, Past, Current, Ordinal
<1>5. Ended' = Ended
  BY <1>1, <1>3 DEF Ended
<1>6. ASSUME NEW x \in Execution, Known(x), Current(x) PROVE Known(x)' /\ Current(x)'
  BY <1>6, <1>1, <1>2, <1>5, OrdinalTyped DEF Known, Past, Current, Ended
<1>7. ReplacementsKnown'
  BY <1>1, <1>3, <1>4, <1>6 DEF ReplacementsKnown, Known, Past, Current
<1>8. HeldKnown'
  <2> SUFFICES ASSUME NEW c \in Callers, spawns'[c].at \in Holding
               PROVE  (Known(spawns[c].execution) /\ Current(spawns[c].execution))'
    BY DEF HeldKnown
  <2>1. spawns'[c] = IF spawns[c].at # "wait" THEN spawns[c]
                     ELSE IF got = Nothing THEN NoCall ELSE [spawns[c] EXCEPT !.at = "check", !.execution = got]
    BY DEF SettleEvaluation
  <2>2. CASE spawns[c].at # "wait"
    BY <2>1, <2>2, <1>1, <1>6 DEF HeldKnown, Known, Past, Current
  <2>3. CASE spawns[c].at = "wait"
    <3>1. got # Nothing /\ spawns'[c] = [spawns[c] EXCEPT !.at = "check", !.execution = got]
      BY <2>1, <2>3 DEF NoCall, Holding
    <3>2. spawns[c] \in SpawnCall
      BY DEF RuntimeTyped
    <3>3. spawns'[c].execution = got
      BY <3>1, <3>2 DEF SpawnCall
    <3> QED
      BY <3>1, <3>3, <1>1, <1>4 DEF Known, Past, Current
  <2> QED
    BY <2>2, <2>3
<1>9. LaterThanEnded'
  BY <1>1, <1>4, <1>5 DEF LaterThanEnded, Ordinal
<1>10. ExecutionKnown' /\ EvaluationKnown' /\ NotBoth' /\ CountedOnce'
  BY <1>1, <1>4, <1>5 DEF ExecutionKnown, EvaluationKnown, NotBoth, CountedOnce
<1> QED
  BY <1>7, <1>8, <1>9, <1>10

\* A step of the evaluation that does not end it moves nothing that is held or ended.
LEMMA EvaluationOnce ==
  ASSUME OnceInv, RuntimeWell', evaluation # Nothing,
         UNCHANGED <<outside, execution, replacement, spawns, closed, observed>>,
         EvaluationKnown', LaterThanEnded'
  PROVE  OnceInv'
<1>1. NotBoth'
  BY DEF OnceInv, NotBoth
<1>2. ExecutionKnown' /\ ReplacementsKnown' /\ HeldKnown' /\ CountedOnce'
  BY DEF OnceInv, outside, observed, ExecutionKnown, ReplacementsKnown, HeldKnown, CountedOnce, Known, Past,
         Current, Ended, Ordinal
<1> QED
  BY <1>1, <1>2 DEF OnceInv

LEMMA OnceStep ==
  ASSUME OnceInv, RuntimeWell', RuntimeNext
  PROVE  OnceInv'
<1> USE RuntimeAssumption, MarksAssumption DEF outside, evidence, observed, RuntimeWell
<1>0. /\ RuntimeWell /\ ExecutionKnown /\ ReplacementsKnown /\ HeldKnown /\ EvaluationKnown
      /\ NotBoth /\ LaterThanEnded /\ CountedOnce
  BY DEF OnceInv
<1>1. CASE Fail
  BY <1>1, SettleOnce DEF Fail, Conclude
<1>2. CASE StartOver
  <2>1. CASE evaluation.attempt < MaxRestarts
    <3> DEFINE r == [evaluation EXCEPT !.attempt = @ + 1, !.identity = Nothing, !.bundle = Nothing]
    <3>1. evaluation' = Advance(r, "capture") /\ evaluation # Nothing
          /\ UNCHANGED <<outside, execution, replacement, spawns, closed, observed>>
      BY <2>1, <1>2 DEF StartOver
    <3>2. evaluation'.stage \in {"capture", "aborted"} \/ evaluation' = Nothing
      BY <3>1 DEF Advance, RuntimeTyped, Evaluation
    <3>3. EvaluationKnown' /\ LaterThanEnded'
      BY <3>1, <3>2, <1>0 DEF EvaluationKnown, LaterThanEnded, Captured, Read, Underway, Ended, Ordinal
    <3> QED
      BY <3>1, <3>3, EvaluationOnce
  <2>2. CASE ~(evaluation.attempt < MaxRestarts)
    BY <1>2, <2>2, SettleOnce DEF StartOver, Conclude
  <2> QED
    BY <2>1, <2>2
<1>3. CASE Validate
  <2>1. evaluation' = Advance(evaluation, "capture") /\ evaluation # Nothing
        /\ UNCHANGED <<outside, execution, replacement, spawns, closed, observed>>
    BY <1>3 DEF Validate, AtStage, ProceedTo
  <2>2. evaluation'.stage \in {"capture", "aborted"}
    BY <2>1, <1>0, AdvanceTyped DEF RuntimeTyped, Stages
  <2>3. EvaluationKnown' /\ LaterThanEnded'
    BY <2>1, <2>2, <1>0 DEF EvaluationKnown, LaterThanEnded, Captured, Read, Underway, Ended, Ordinal
  <2> QED
    BY <2>1, <2>3, EvaluationOnce
<1>4. CASE Capture
  <2> DEFINE r == [evaluation EXCEPT !.identity = disk]
  <2>1. r \in Evaluation /\ r.identity = disk /\ evaluation' = Advance(r, "schema") /\ evaluation # Nothing
        /\ UNCHANGED <<outside, execution, replacement, spawns, closed, observed>>
    BY <1>4, <1>0 DEF Capture, AtStage, RuntimeTyped, Evaluation
  <2> HIDE DEF r
  <2>2. evaluation'.stage \in {"schema", "aborted"} /\ evaluation'.identity = disk
    BY <2>1, AdvanceTyped DEF Stages
  <2>3. EvaluationKnown'
    BY <2>1, <2>2, <1>0 DEF EvaluationKnown, Captured, Read, Past, RuntimeTyped, Identity
  <2>4. LaterThanEnded'
    BY <2>1, <2>2, <1>0 DEF LaterThanEnded, Read, Underway, Ended, Ordinal
  <2> QED
    BY <2>1, <2>3, <2>4, EvaluationOnce
<1>5. CASE Incompatible
  BY <1>5, SettleOnce DEF Incompatible, Conclude, AtStage
<1>6. CASE Generate \/ PruneBundles \/ PublishSchema \/ Probe
  <2>1. evaluation # Nothing /\ evaluation.stage \in Underway
        /\ UNCHANGED <<outside, execution, replacement, spawns, closed, observed>>
    BY <1>6 DEF Generate, PruneBundles, PublishSchema, Probe, AtStage, ProceedTo, Underway
  <2>2. evaluation'.stage \in Underway \cup {"aborted"} /\ evaluation'.identity = evaluation.identity
    <3>4. CASE Generate
      BY <2>1, <3>4, <1>0, AdvanceTyped DEF Generate, ProceedTo, Stages, Underway, RuntimeTyped
    <3>1. CASE PruneBundles
      <4> DEFINE r == [evaluation EXCEPT !.bundle = evaluation.identity.build]
      <4>1. r \in Evaluation /\ r.identity = evaluation.identity /\ evaluation' = Advance(r, "publish")
        BY <3>1, <1>0 DEF PruneBundles, AtStage, RuntimeTyped, Evaluation, Identity, Captured
      <4> HIDE DEF r
      <4> QED
        BY <4>1, AdvanceTyped DEF Stages, Underway
    <3>2. CASE PublishSchema
      BY <2>1, <3>2, <1>0, AdvanceTyped DEF PublishSchema, ProceedTo, Stages, Underway, RuntimeTyped
    <3>3. CASE Probe
      BY <2>1, <3>3, <1>0, AdvanceTyped DEF Probe, ProceedTo, Stages, Underway, RuntimeTyped
    <3> QED
      BY <1>6, <3>1, <3>2, <3>3, <3>4
  <2>3. EvaluationKnown' /\ LaterThanEnded'
    BY <2>1, <2>2, <1>0 DEF EvaluationKnown, LaterThanEnded, Captured, Read, Underway, Past, Ended, Ordinal
  <2> QED
    BY <2>1, <2>3, EvaluationOnce
<1>8. CASE PruneInPart
  <2>1. evaluation # Nothing /\ evaluation'.stage = "aborted"
        /\ UNCHANGED <<outside, execution, replacement, spawns, closed, observed>>
    BY <1>8, <1>0 DEF PruneInPart, AtStage, RuntimeTyped, Evaluation
  <2>2. EvaluationKnown' /\ LaterThanEnded'
    BY <2>1, <1>0 DEF EvaluationKnown, LaterThanEnded, Captured, Read, Underway, Ended, Ordinal
  <2> QED
    BY <2>1, <2>2, EvaluationOnce
<1>9. CASE ReadBack
  <2>1. PICK signedIn \in BOOLEAN :
          evaluation' = Advance([evaluation EXCEPT !.config = config, !.signedIn = signedIn], "accept")
    BY <1>9 DEF ReadBack
  <2> DEFINE r == [evaluation EXCEPT !.config = config, !.signedIn = signedIn]
  <2>2. r \in Evaluation /\ r.identity = evaluation.identity /\ r.config = config
    BY <1>0, <1>9 DEF ReadBack, AtStage, RuntimeTyped, Evaluation
  <2>3. evaluation' = Advance(r, "accept")
    BY <2>1
  <2> HIDE DEF r
  <2>4. evaluation'.stage \in {"accept", "aborted"} /\ evaluation'.identity = evaluation.identity
        /\ evaluation'.config = config
    BY <2>2, <2>3, AdvanceTyped DEF Stages
  <2>5. evaluation # Nothing /\ evaluation.stage = "readback"
        /\ UNCHANGED <<outside, execution, replacement, spawns, closed, observed>>
    BY <1>9 DEF ReadBack, AtStage
  <2>6. EvaluationKnown' /\ LaterThanEnded'
    BY <2>4, <2>5, <1>0
    DEF EvaluationKnown, LaterThanEnded, Captured, Read, Underway, Past, Ended, Ordinal, RuntimeTyped
  <2> QED
    BY <2>5, <2>6, EvaluationOnce
<1>10. CASE Accept \/ RememberAccepted
  <2>1. evaluation # Nothing /\ evaluation.stage \in {"accept", "remember"}
        /\ UNCHANGED <<outside, execution, replacement, spawns, closed, observed>>
    BY <1>10 DEF Accept, RememberAccepted, AtStage, ProceedTo
  <2>2. evaluation'.stage \in Read \cup {"aborted"} /\ evaluation'.identity = evaluation.identity
        /\ evaluation'.config = evaluation.config
    BY <2>1, <1>10, <1>0, AdvanceTyped DEF Accept, RememberAccepted, ProceedTo, Stages, Read, RuntimeTyped, Evaluation
  <2>3. EvaluationKnown' /\ LaterThanEnded'
    BY <2>1, <2>2, <1>0 DEF EvaluationKnown, LaterThanEnded, Captured, Read, Underway, Past, Ended, Ordinal
  <2> QED
    BY <2>1, <2>3, EvaluationOnce
<1>12. CASE Ready
  <2>1. evaluation # Nothing /\ evaluation.stage = "ready"
    BY <1>12 DEF Ready, AtStage
  <2>2. CASE evaluation.signedIn
    <3> DEFINE e == [identity |-> evaluation.identity, config |-> evaluation.config, spoiled |-> spoiled]
    <3>1. e \in Execution
      BY <2>1, <1>0 DEF RuntimeTyped, Execution, Evaluation, Captured
    <3>2. Known(e) /\ \A o \in Ended : o < Ordinal(e)
      BY <2>1, <1>0 DEF Known, EvaluationKnown, LaterThanEnded, Captured, Read, Ordinal, Past, RuntimeTyped
    <3>3. SettleEvaluation("compatible", e)
      BY <2>2, <1>12 DEF Ready
    <3> HIDE DEF e
    <3> QED
      BY <3>1, <3>2, <3>3, <2>1, SettleOnce
  <2>3. CASE ~evaluation.signedIn
    BY <2>1, <2>3, <1>12, SettleOnce DEF Ready
  <2> QED
    BY <2>2, <2>3
<1>13. ASSUME NEW c \in Callers, Spawn(c) PROVE OnceInv'
  <2>1. /\ evaluation' \in {evaluation, Begun} /\ UNCHANGED <<disk, config, spoiled, execution, replacement, closed, reevaluated>>
        /\ execution # Nothing => evaluation' = evaluation
    BY <1>13 DEF Spawn, Join
  <2>2. EvaluationKnown' /\ NotBoth' /\ LaterThanEnded'
    BY <2>1, <1>0, BegunTyped
    DEF EvaluationKnown, NotBoth, LaterThanEnded, Ended, Ordinal, Captured, Read, Underway, Past
  <2>3. HeldKnown'
    <3> SUFFICES ASSUME NEW d \in Callers, spawns'[d].at \in Holding
                 PROVE  (Known(spawns[d].execution) /\ Current(spawns[d].execution))'
      BY DEF HeldKnown
    <3>1. CASE d = c
      <4>1. execution # Nothing /\ spawns'[d].execution = execution
        BY <3>1, <1>13, <1>0 DEF Spawn, Sees, Waits, RuntimeTyped, SpawnCall, Holding
      <4> QED
        BY <4>1, <2>1, <1>0 DEF ExecutionKnown, Known, Past, Current
    <3>2. CASE d # c
      <4>1. spawns'[d] = spawns[d]
        BY <3>2, <1>13, <1>0 DEF Spawn, Sees, Waits, RuntimeTyped
      <4> QED
        BY <4>1, <2>1, <1>0 DEF HeldKnown, Known, Past, Current, Ordinal
    <3> QED
      BY <3>1, <3>2
  <2>4. ExecutionKnown' /\ ReplacementsKnown' /\ CountedOnce'
    BY <2>1, <1>0 DEF ExecutionKnown, ReplacementsKnown, CountedOnce, Ended, Known, Past, Current, Ordinal
  <2> QED
    BY <2>2, <2>3, <2>4 DEF OnceInv
<1>14. ASSUME NEW c \in Callers, Stale(c) \/ CopyFails(c) PROVE OnceInv'
  <2> DEFINE e == spawns[c].execution
  <2>1. spawns[c].at \in Holding /\ e \in Execution /\ Ordinal(e) \in Ordinals /\ e # Nothing
    BY <1>14, <1>0, OrdinalTyped DEF Stale, CopyFails, Holding
  <2>2. Known(e) /\ Current(e)
    BY <2>1, <1>0 DEF HeldKnown
  <2>3. \/ (config # e.config \/ disk # e.identity) /\ spoiled' = spoiled
        \/ spoiled' = spoiled + 1
    BY <1>14 DEF Stale, CopyFails
  <2>4. Ordinal(e) < disk.stamp + config + spoiled' /\ spoiled <= spoiled'
    <3> HIDE DEF e
    <3>1. /\ disk.stamp \in Int /\ config \in Int /\ spoiled \in Int
          /\ e.identity.stamp \in Int /\ e.config \in Int /\ e.spoiled \in Int
      BY <2>1, <1>0 DEF RuntimeTyped, Execution, Identity
    <3>2. e.identity.stamp <= disk.stamp /\ e.config <= config /\ e.spoiled <= spoiled
      BY <2>2 DEF Known, Past
    <3>3. e.identity.stamp # disk.stamp \/ e.config # config \/ spoiled' = spoiled + 1
      BY <2>2, <2>3 DEF Known, Past
    <3>4. spoiled' \in {spoiled, spoiled + 1}
      BY <2>3
    <3> QED
      <4>1. \A a, b, p, x, y, q, r \in Int :
              /\ a <= x /\ b <= y /\ p <= q /\ r \in {q, q + 1}
              /\ a # x \/ b # y \/ r = q + 1
              => a + b + p < x + y + r /\ q <= r
        OBVIOUS
      <4>2. e.identity.stamp + e.config + e.spoiled < disk.stamp + config + spoiled' /\ spoiled <= spoiled'
        BY <3>1, <3>2, <3>3, <3>4, <4>1
      <4> QED
        BY <4>2 DEF Ordinal
  <2>5. /\ Replaced(e) /\ spawns' = IF spawns[c].retried THEN Ends(c) ELSE Followed(c, e)
        /\ UNCHANGED <<disk, config, closed>>
    BY <1>14 DEF Stale, CopyFails, Reevaluate
  <2>8. spoiled \in Int /\ spoiled' \in Int /\ disk.stamp \in Int /\ config \in Int
    BY <1>0 DEF RuntimeTyped, Identity
  <2>9. ASSUME NEW x \in Execution, Known(x) PROVE Known(x)'
    BY <2>4, <2>5, <2>8, <2>9 DEF Known, Past, Execution
  <2>10. ASSUME NEW o \in Ended PROVE o < disk.stamp + config + spoiled'
    <3>1. o \in Int /\ o < disk.stamp + config + spoiled
      BY <1>0, <2>10 DEF LaterThanEnded, Ended, Ordinals
    <3> QED
      BY <3>1, <2>4, <2>8
  <2> HIDE DEF e
  <2>6. CASE replacement[Ordinal(e)] = Nothing /\ ~closed
    <3>1. execution = e /\ evaluation = Nothing
      BY <2>1, <2>2, <2>6, <1>0 DEF Current, NotBoth
    <3>2. /\ execution' = Nothing /\ evaluation' = Begun
          /\ replacement' = [replacement EXCEPT ![Ordinal(e)] = Awaited]
          /\ reevaluated' = [reevaluated EXCEPT ![Ordinal(e)] = @ + 1]
      BY <2>5, <2>6, <3>1 DEF Replaced, BeginReplacement, Join
    <3>3. Ended' = Ended \cup {Ordinal(e)}
      BY <3>2, <2>1, <1>0 DEF Ended, RuntimeTyped
    <3>4. LaterThanEnded' /\ NotBoth' /\ EvaluationKnown' /\ ExecutionKnown'
      BY <3>2, <3>3, <2>4, <2>5, <2>10, BegunTyped
      DEF LaterThanEnded, NotBoth, EvaluationKnown, ExecutionKnown, Captured, Underway, Read
    <3>5. CountedOnce'
      <4>1. reevaluated[Ordinal(e)] = 0
        BY <2>1, <2>6, <1>0 DEF CountedOnce, Ended
      <4> QED
        BY <4>1, <3>2, <3>3, <2>1, <1>0 DEF CountedOnce, RuntimeTyped
    <3>6. ASSUME NEW x \in Execution, Known(x), Current(x) PROVE Known(x)' /\ Current(x)'
      BY <3>6, <3>1, <3>2, <3>3, <2>5, <2>9, OrdinalTyped DEF Current, Ended
    <3>7. ReplacementsKnown'
      <4> SUFFICES ASSUME NEW o \in Ordinals, replacement'[o] \in Execution
                   PROVE  (Known(replacement[o]) /\ Current(replacement[o]))'
        BY DEF ReplacementsKnown
      <4>1. replacement'[o] = replacement[o]
        BY <3>2, <1>0 DEF RuntimeTyped
      <4>2. Known(replacement[o]) /\ Current(replacement[o])
        BY <4>1, <1>0 DEF ReplacementsKnown
      <4> QED
        BY <4>1, <4>2, <3>6 DEF Known, Past, Current
    <3>8. HeldKnown'
      <4> SUFFICES ASSUME NEW d \in Callers, spawns'[d].at \in Holding
                   PROVE  (Known(spawns[d].execution) /\ Current(spawns[d].execution))'
        BY DEF HeldKnown
      <4>1. spawns'[d] = spawns[d]
        BY <3>2, <2>1, <2>5, <1>0 DEF Followed, Ends, Waits, Sees, NoCall, RuntimeTyped, SpawnCall, Holding
      <4>2. Known(spawns[d].execution) /\ Current(spawns[d].execution) /\ spawns[d].execution \in Execution
        BY <4>1, <1>0 DEF HeldKnown
      <4> QED
        BY <4>1, <4>2, <3>6 DEF Known, Past, Current
    <3> QED
      BY <3>4, <3>5, <3>7, <3>8 DEF OnceInv
  <2>7. CASE ~(replacement[Ordinal(e)] = Nothing /\ ~closed)
    <3>1. UNCHANGED <<execution, evaluation, replacement, reevaluated>>
      BY <2>5, <2>7 DEF Replaced, BeginReplacement
    <3>2. HeldKnown'
      <4> SUFFICES ASSUME NEW d \in Callers, spawns'[d].at \in Holding
                   PROVE  (Known(spawns[d].execution) /\ Current(spawns[d].execution))'
        BY DEF HeldKnown
      <4>1. CASE d = c
        <5>1. spawns'[d].execution = replacement[Ordinal(e)] /\ replacement[Ordinal(e)] \in Execution
          BY <4>1, <3>1, <2>1, <2>5, <1>0
          DEF Followed, Ends, Waits, Sees, NoCall, RuntimeTyped, SpawnCall, Holding
        <5>2. Known(replacement[Ordinal(e)]) /\ Current(replacement[Ordinal(e)])
          BY <5>1, <2>1, <1>0 DEF ReplacementsKnown
        <5> QED
          BY <5>1, <5>2, <3>1, <2>5, <2>9 DEF Known, Past, Current, Ordinal
      <4>2. CASE d # c
        <5>1. spawns'[d] = spawns[d]
          BY <4>2, <2>5, <1>0 DEF Followed, Ends, Waits, Sees, RuntimeTyped
        <5> QED
          BY <5>1, <3>1, <2>5, <2>9, <1>0 DEF HeldKnown, Known, Past, Current, Ordinal
      <4> QED
        BY <4>1, <4>2
    <3>3. ExecutionKnown' /\ ReplacementsKnown'
      BY <3>1, <2>5, <2>9, <1>0
      DEF ExecutionKnown, ReplacementsKnown, Known, Past, Current, Ordinal, RuntimeTyped
    <3>4. EvaluationKnown' /\ NotBoth' /\ CountedOnce'
      BY <3>1, <2>5, <1>0 DEF EvaluationKnown, NotBoth, CountedOnce, Ended, Past
    <3>5. LaterThanEnded'
      <4>1. Ended' = Ended /\ Ended \subseteq Int
        BY <3>1 DEF Ended, Ordinals
      <4> QED
        BY <4>1, <3>1, <2>4, <2>5, <2>8, <2>10, <1>0
        DEF LaterThanEnded, Ordinal, RuntimeTyped, Evaluation, Identity, Captured, Underway, Read
    <3> QED
      BY <3>2, <3>3, <3>4, <3>5 DEF OnceInv
  <2> QED
    BY <2>6, <2>7
<1>15. ASSUME NEW c \in Callers, Check(c) \/ Open(c) \/ Run(c) \/ AbandonCall(c) PROVE OnceInv'
  <2>1. UNCHANGED <<disk, config, spoiled, execution, evaluation, replacement, closed, reevaluated>>
    BY <1>15 DEF Check, Open, Run, AbandonCall
  <2>2. \A d \in Callers : spawns'[d].at \in Holding =>
          spawns[d].at \in Holding /\ spawns'[d].execution = spawns[d].execution
    BY <1>15, <1>0 DEF Check, Open, Run, AbandonCall, Ends, NoCall, RuntimeTyped, SpawnCall, Holding
  <2>3. HeldKnown'
    BY <2>1, <2>2, <1>0 DEF HeldKnown, Known, Past, Current, Ordinal
  <2> QED
    BY <2>1, <2>3, <1>0
    DEF OnceInv, ExecutionKnown, ReplacementsKnown, EvaluationKnown, NotBoth, LaterThanEnded, CountedOnce, Ended,
        Known, Past, Current, Ordinal
<1>19. CASE Close
  <2>1. execution' = Nothing /\ closed' /\ UNCHANGED <<disk, config, spoiled, evaluation, replacement, spawns, reevaluated>>
    BY <1>19 DEF Close
  <2> QED
    BY <2>1, <1>0
    DEF OnceInv, ExecutionKnown, ReplacementsKnown, HeldKnown, EvaluationKnown, NotBoth, LaterThanEnded, CountedOnce,
        Ended, Known, Past, Current, Ordinal
<1>20. ASSUME NEW required \in Contracts, RestartPlanner(required) PROVE OnceInv'
  <2>1. Ended' = {}
    BY <1>20 DEF RestartPlanner, NoReplacement, Ended
  <2> QED
    BY <2>1, <1>20, <1>0, BegunTyped
    DEF RestartPlanner, NoReplacement, NeverReevaluated, NoCall, OnceInv, ExecutionKnown, ReplacementsKnown,
        HeldKnown, EvaluationKnown, NotBoth, LaterThanEnded, CountedOnce, Captured, Read, Holding
<1>21. ASSUME (\E build \in Builds : Update(build)) \/ Edit PROVE OnceInv'
  <2>1. /\ UNCHANGED <<execution, evaluation, replacement, spawns, closed, reevaluated>>
        /\ disk'.stamp + config' > disk.stamp + config /\ config' >= config /\ spoiled' = spoiled
        /\ disk' = disk \/ disk'.stamp > disk.stamp
    <3>1. disk.stamp \in Int /\ config \in Int /\ spoiled \in Int
      BY <1>0 DEF RuntimeTyped, Identity
    <3>2. CASE Edit
      BY <3>1, <3>2 DEF Edit, inside
    <3>3. ASSUME NEW build \in Builds, Update(build)
          PROVE  /\ UNCHANGED <<execution, evaluation, replacement, spawns, closed, reevaluated, config, spoiled>>
                 /\ disk'.stamp = disk.stamp + 1
      BY <3>3 DEF Update, inside
    <3> QED
      BY <1>21, <3>1, <3>2, <3>3
  <2>2. ASSUME NEW x \in Identity, Past(x) PROVE Past(x)'
    BY <2>1, <2>2, <1>0 DEF Past, RuntimeTyped, Identity
  <2>3. ASSUME NEW x \in Execution, Known(x) PROVE Known(x)'
    BY <2>1, <2>2, <2>3, <1>0 DEF Known, RuntimeTyped, Execution
  <2>4. ASSUME NEW x PROVE Current(x)' = Current(x)
    BY <2>1 DEF Current, Ordinal
  <2>5. Ended' = Ended /\ Ended \subseteq Nat
    BY <2>1 DEF Ended, Ordinals
  <2>6. ExecutionKnown'
    BY <2>1, <2>3, <1>0 DEF ExecutionKnown, Known, Past, RuntimeTyped
  <2>7. ReplacementsKnown'
    BY <2>1, <2>3, <2>4, <1>0 DEF ReplacementsKnown, Known, Past, Current, Ordinal
  <2>8. HeldKnown'
    BY <2>1, <2>3, <2>4, <1>0 DEF HeldKnown, Known, Past, Current, Ordinal
  <2>9. EvaluationKnown'
    BY <2>1, <2>2, <1>0 DEF EvaluationKnown, Past, RuntimeTyped, Evaluation, Read, Captured
  <2>10. LaterThanEnded'
    BY <2>1, <2>5, <1>0
    DEF LaterThanEnded, Ordinal, RuntimeTyped, Evaluation, Identity, Captured, Underway
  <2>11. NotBoth' /\ CountedOnce'
    BY <2>1, <2>5, <1>0 DEF NotBoth, CountedOnce
  <2> QED
    BY <2>6, <2>7, <2>8, <2>9, <2>10, <2>11 DEF OnceInv
<1>23. CASE StaysClosed
  BY <1>23, <1>0
  DEF StaysClosed, runtimeVars, OnceInv, ExecutionKnown, ReplacementsKnown, HeldKnown, EvaluationKnown, NotBoth,
      LaterThanEnded, CountedOnce, Ended, Known, Past, Current, Ordinal
<1> QED
  BY <1>1, <1>2, <1>3, <1>4, <1>5, <1>6, <1>8, <1>9, <1>10, <1>12, <1>13, <1>14,
     <1>15, <1>19, <1>20, <1>21, <1>23 DEF RuntimeNext, Evaluate, Caller

LEMMA OnceInit == RuntimeInit => OnceInv
<1> SUFFICES ASSUME RuntimeInit PROVE OnceInv
  OBVIOUS
<1>1. RuntimeWell
  BY RuntimeInitSound DEF AcceptInv
<1>2. Ended = {}
  BY DEF RuntimeInit, NoReplacement, Ended
<1>3. ReplacementsKnown /\ HeldKnown
  BY MarksAssumption DEF RuntimeInit, NoReplacement, NoCall, ReplacementsKnown, HeldKnown, Holding
<1> QED
  BY <1>1, <1>2, <1>3, BegunTyped
  DEF RuntimeInit, NeverReevaluated, OnceInv, ExecutionKnown, EvaluationKnown, NotBoth, LaterThanEnded, CountedOnce,
      Captured, Read

LEMMA OnceKept ==
  ASSUME OnceInv, [RuntimeNext]_runtimeVars
  PROVE  OnceInv'
<1>1. CASE RuntimeNext
  BY <1>1, RuntimeTypeSound, OnceStep DEF OnceInv
<1>2. CASE UNCHANGED runtimeVars
  BY <1>2
  DEF runtimeVars, outside, evidence, observed, OnceInv, RuntimeWell, RuntimeTyped, ExecutionKnown,
      ReplacementsKnown, HeldKnown, EvaluationKnown, NotBoth, LaterThanEnded, CountedOnce, Ended, Known, Past,
      Current, Ordinal
<1> QED
  BY <1>1, <1>2

\* All who held an execution when it changed share one reevaluation, however the updates
\* and edits, the callers and the evaluations interleave: beginReplacement in
\* readiness.ts.
THEOREM AlwaysOneReevaluation == RuntimeSpec => []OneReevaluation
<1>1. OnceInv => OneReevaluation
  BY DEF OnceInv, CountedOnce, OneReevaluation, RuntimeWell, RuntimeTyped
<1> QED
  BY OnceInit, OnceKept, <1>1, PTL DEF RuntimeSpec

-----------------------------------------------------------------------------
(* The bundles on disk.                                                     *)
(*                                                                          *)
(* An evaluation prunes once, before it publishes what it generated, and    *)
(* what it names from then on is that bundle: so every name that is written *)
(* later was protected when the others went, and none of the removals that  *)
(* failed or were cut short was of a bundle that is named.                  *)

\* What an evaluation names is what it captured, once the others are pruned.
Early == {"validate", "capture", "schema", "prune"}
Generated == {"publish", "probe", "readback", "accept", "remember", "ready"}

OnDisk == (bundles \ torn) \cup {Nothing}

CacheFinite == IsFiniteSet(bundles)
NamesOnDisk == published \in OnDisk /\ (accepted # Nothing => accepted.identity.build \in OnDisk)
EvaluatedOnDisk ==
  evaluation # Nothing =>
    /\ evaluation.bundle \in OnDisk
    /\ evaluation.stage \in Early => evaluation.bundle = Nothing
    /\ evaluation.stage = "prune" => evaluation.identity.build \in OnDisk
    /\ evaluation.stage \in Generated => evaluation.bundle = evaluation.identity.build
WithinPolicy ==
  /\ evaluation # Nothing /\ evaluation.stage \in Generated => Cardinality(bundles) <= MaxBundles
  /\ execution # Nothing => Cardinality(bundles) <= MaxBundles

BundlesFit == CacheFinite /\ NamesOnDisk /\ EvaluatedOnDisk /\ WithinPolicy
BundlesInv == OnceInv /\ BundlesFit

LEMMA AdvanceBundle ==
  ASSUME NEW e \in Evaluation, NEW stage \in Stages
  PROVE  Advance(e, stage).bundle = e.bundle
BY DEF Advance, Evaluation, Stages

\* What the evidence on disk names and what is generated now are three at most.
LEMMA ThreeProtected ==
  ASSUME NEW bundle
  PROVE  IsFiniteSet(Protected(bundle) \ {Nothing}) /\ Cardinality(Protected(bundle) \ {Nothing}) <= MaxBundles
<1>1. PICK b : Protected(bundle) \subseteq {bundle, published, b}
  BY DEF Protected
<1> DEFINE two == {bundle} \cup {published}
           three == two \cup {b}
<1>2. IsFiniteSet({bundle}) /\ Cardinality({bundle}) = 1
  BY FS_Singleton
<1>3. IsFiniteSet(two) /\ Cardinality(two) \in Nat /\ Cardinality(two) <= 2
  <2> DEFINE one == {bundle}
  <2> HIDE DEF one
  <2>1. IsFiniteSet(one) /\ Cardinality(one) = 1
    BY <1>2 DEF one
  <2>2. IsFiniteSet(one \cup {published})
        /\ Cardinality(one \cup {published}) = IF published \in one THEN Cardinality(one) ELSE Cardinality(one) + 1
    BY <2>1, FS_AddElement
  <2> QED
    BY <2>1, <2>2 DEF one
<1>4. IsFiniteSet(three) /\ Cardinality(three) \in Nat /\ Cardinality(three) <= 3
  <2> HIDE DEF two
  <2> QED
    <3>1. IsFiniteSet(two \cup {b})
          /\ Cardinality(two \cup {b}) = IF b \in two THEN Cardinality(two) ELSE Cardinality(two) + 1
      BY <1>3, FS_AddElement
    <3> QED
      BY <1>3, <3>1
<1>5. Protected(bundle) \ {Nothing} \in SUBSET three
  BY <1>1
<1> HIDE DEF three
<1>6. /\ IsFiniteSet(Protected(bundle) \ {Nothing})
      /\ Cardinality(Protected(bundle) \ {Nothing}) <= Cardinality(three)
  BY <1>4, <1>5, FS_Subset
<1>7. Cardinality(Protected(bundle) \ {Nothing}) \in Nat
  BY <1>6, FS_CardinalityType
<1> QED
  BY <1>4, <1>6, <1>7, RuntimeAssumption

\* What a prune keeps: all that is named, within the number.
LEMMA KeptFits ==
  ASSUME CacheFinite, NEW bundle, NEW keep \in Kept(bundle)
  PROVE  /\ keep \subseteq bundles /\ IsFiniteSet(keep) /\ Cardinality(keep) <= MaxBundles
         /\ (Protected(bundle) \cap bundles) \ {Nothing} \subseteq keep
<1> DEFINE names == Protected(bundle) \ {Nothing}
<1>1. keep \subseteq bundles /\ names \cap bundles \subseteq keep /\ Cardinality(keep \cup names) <= MaxBundles
  BY DEF Kept
<1>2. IsFiniteSet(keep) /\ IsFiniteSet(names)
  BY <1>1, ThreeProtected, FS_Subset DEF CacheFinite
<1> HIDE DEF names
<1>3. IsFiniteSet(keep \cup names)
  BY <1>2, FS_Union
<1>4. Cardinality(keep) <= Cardinality(keep \cup names)
  BY <1>3, FS_Subset
<1>5. Cardinality(keep) \in Nat /\ Cardinality(keep \cup names) \in Nat
  BY <1>2, <1>3, FS_CardinalityType
<1> QED
  BY <1>1, <1>2, <1>4, <1>5, RuntimeAssumption DEF names

LEMMA GenerateKeeps ==
  ASSUME BundlesInv, Generate
  PROVE  BundlesFit'
<1> DEFINE b == evaluation.identity.build
<1>1. /\ evaluation \in Evaluation /\ evaluation # Nothing /\ evaluation.stage = "schema"
      /\ bundles' = bundles \cup {b} /\ torn' = torn \ {b} /\ evaluation' = Advance(evaluation, "prune")
      /\ UNCHANGED <<published, accepted, execution>>
  BY DEF Generate, AtStage, ProceedTo, BundlesInv, OnceInv, RuntimeWell, RuntimeTyped
<1>2. evaluation'.stage \in {"prune", "aborted"} /\ evaluation'.identity = evaluation.identity
      /\ evaluation'.bundle = evaluation.bundle
  BY <1>1, AdvanceTyped, AdvanceBundle DEF Stages
<1>3. evaluation.bundle = Nothing /\ execution = Nothing
  BY <1>1 DEF BundlesInv, BundlesFit, EvaluatedOnDisk, Early, OnceInv, NotBoth
<1>4. OnDisk' = OnDisk \cup {b}
  BY <1>1 DEF OnDisk
<1>5. CacheFinite'
  BY <1>1, FS_AddElement DEF BundlesInv, BundlesFit, CacheFinite
<1> HIDE DEF b
<1>6. NamesOnDisk'
  BY <1>1, <1>4 DEF BundlesInv, BundlesFit, NamesOnDisk
<1>7. EvaluatedOnDisk'
  BY <1>1, <1>2, <1>3, <1>4 DEF EvaluatedOnDisk, Early, Generated, OnDisk, b
<1>8. WithinPolicy'
  BY <1>1, <1>2, <1>3 DEF WithinPolicy, Generated
<1> QED
  BY <1>5, <1>6, <1>7, <1>8 DEF BundlesFit

\* What is on disk and named stays so when all that a prune keeps stays whole.
LEMMA NamedStay ==
  ASSUME BundlesInv, AtStage("prune"), NEW keep \in Kept(evaluation.identity.build),
         keep \subseteq bundles', torn' \cap keep = torn \cap keep,
         UNCHANGED <<published, accepted>>
  PROVE  NamesOnDisk' /\ evaluation.identity.build \in OnDisk'
<1> DEFINE b == evaluation.identity.build
<1>1. (Protected(b) \cap bundles) \ {Nothing} \subseteq keep
  BY KeptFits DEF BundlesInv, BundlesFit
<1>2. b \in OnDisk
  BY DEF BundlesInv, BundlesFit, EvaluatedOnDisk, AtStage
<1> HIDE DEF b
<1>3. b \in Protected(b) /\ published \in Protected(b)
      /\ (accepted # Nothing => accepted.identity.build \in Protected(b))
  BY DEF Protected
<1>4. ASSUME NEW x \in Protected(b), x \in OnDisk PROVE x \in OnDisk'
  BY <1>1, <1>4 DEF OnDisk
<1> QED
  BY <1>2, <1>3, <1>4 DEF BundlesInv, BundlesFit, NamesOnDisk, b

LEMMA PruneKeeps ==
  ASSUME BundlesInv, PruneBundles
  PROVE  BundlesFit'
<1> DEFINE b == evaluation.identity.build
           e == [evaluation EXCEPT !.bundle = b]
<1>1. /\ AtStage("prune") /\ evaluation \in Evaluation /\ b \in Builds
      /\ bundles' \in Kept(b) /\ torn' = torn \cap bundles' /\ evaluation' = Advance(e, "publish")
      /\ UNCHANGED <<published, accepted>> /\ execution' = Nothing
  BY DEF PruneBundles, AtStage, BundlesInv, OnceInv, NotBoth, RuntimeWell, RuntimeTyped, Captured, Identity
<1>2. e \in Evaluation /\ e.bundle = b /\ e.identity.build = b
  BY <1>1 DEF Evaluation
<1> HIDE DEF e
<1>3. evaluation'.bundle = b /\ evaluation'.identity.build = b /\ evaluation'.stage \in {"publish", "aborted"}
  BY <1>1, <1>2, AdvanceTyped, AdvanceBundle DEF Stages
<1>4. IsFiniteSet(bundles') /\ Cardinality(bundles') <= MaxBundles
  BY <1>1, KeptFits DEF BundlesInv, BundlesFit
<1>5. NamesOnDisk' /\ b \in OnDisk'
  BY <1>1, NamedStay
<1> HIDE DEF b
<1>6. EvaluatedOnDisk'
  BY <1>3, <1>5 DEF EvaluatedOnDisk, Early
<1> QED
  BY <1>1, <1>4, <1>5, <1>6 DEF BundlesFit, CacheFinite, WithinPolicy

LEMMA PruneInPartKeeps ==
  ASSUME BundlesInv, PruneInPart
  PROVE  BundlesFit'
<1> DEFINE b == evaluation.identity.build
<1>1. /\ AtStage("prune") /\ evaluation \in Evaluation /\ evaluation' = [evaluation EXCEPT !.stage = "aborted"]
      /\ UNCHANGED <<published, accepted>> /\ execution' = Nothing
  BY DEF PruneInPart, AtStage, BundlesInv, OnceInv, NotBoth, RuntimeWell, RuntimeTyped
<1>2. PICK keep \in Kept(b) :
        \E left \in SUBSET (bundles \ keep) \ {{}} : \E broken \in SUBSET left :
          bundles' = keep \cup left /\ torn' = (torn \cap bundles') \cup broken
  BY DEF PruneInPart
<1>3. PICK left \in SUBSET (bundles \ keep) :
        \E broken \in SUBSET left : bundles' = keep \cup left /\ torn' = (torn \cap bundles') \cup broken
  BY <1>2
<1>4. keep \subseteq bundles
  BY KeptFits DEF BundlesInv, BundlesFit
<1>5. bundles' \subseteq bundles /\ keep \subseteq bundles' /\ torn' \cap keep = torn \cap keep
  BY <1>3, <1>4
<1>6. NamesOnDisk'
  BY <1>1, <1>5, NamedStay
<1>7. CacheFinite'
  BY <1>5, FS_Subset DEF BundlesInv, BundlesFit, CacheFinite
<1>8. evaluation'.stage = "aborted" /\ evaluation'.bundle = Nothing
  BY <1>1 DEF BundlesInv, BundlesFit, EvaluatedOnDisk, Early, AtStage, Evaluation
<1>9. EvaluatedOnDisk' /\ WithinPolicy'
  BY <1>1, <1>8 DEF EvaluatedOnDisk, WithinPolicy, OnDisk, Early, Generated
<1> QED
  BY <1>6, <1>7, <1>9 DEF BundlesFit

\* A final word names what was published before, or what the evaluation generated.
LEMMA ConcludeKeeps ==
  ASSUME BundlesInv, evaluation # Nothing, NEW s, NEW named \in {published, evaluation.bundle}, Conclude(s, named)
  PROVE  BundlesFit'
BY DEF Conclude, SettleEvaluation, cache, BundlesInv, BundlesFit, CacheFinite, NamesOnDisk, EvaluatedOnDisk,
   WithinPolicy, OnDisk, OnceInv, RuntimeWell, RuntimeTyped

LEMMA BundlesStep ==
  ASSUME BundlesInv, RuntimeNext
  PROVE  BundlesFit'
<1>0. /\ RuntimeTyped /\ BundlesFit
      /\ evaluation # Nothing => evaluation \in Evaluation /\ execution = Nothing
  BY DEF BundlesInv, OnceInv, NotBoth, RuntimeWell, RuntimeTyped
<1> USE DEF BundlesFit, CacheFinite, NamesOnDisk, EvaluatedOnDisk, WithinPolicy, OnDisk, cache
<1>1. CASE Fail
  <2>1. PICK named \in {published, evaluation.bundle} : Conclude("unavailable", named)
    BY <1>1 DEF Fail
  <2> QED
    BY <2>1, <1>1, ConcludeKeeps DEF Fail
<1>2. CASE StartOver
  <2>1. CASE evaluation.attempt < MaxRestarts
    <3> DEFINE e == [evaluation EXCEPT !.attempt = @ + 1, !.identity = Nothing, !.bundle = Nothing]
    <3>1. evaluation' = Advance(e, "capture") /\ UNCHANGED <<evidence, execution>>
      BY <1>2, <2>1 DEF StartOver
    <3>2. evaluation'.stage \notin Generated \cup {"prune"} /\ evaluation'.bundle = Nothing
      <4>1. DOMAIN evaluation = {"stage", "attempt", "identity", "bundle", "config", "signedIn"}
        BY <1>0, <1>2 DEF StartOver, Evaluation
      <4> QED
        BY <3>1, <4>1 DEF Advance, Generated
    <3> QED
      BY <3>1, <3>2, <1>0 DEF evidence
  <2>2. CASE ~(evaluation.attempt < MaxRestarts)
    <3>1. evaluation # Nothing /\ Conclude("unavailable", evaluation.bundle)
      BY <1>2, <2>2 DEF StartOver
    <3> QED
      BY <3>1, ConcludeKeeps
  <2> QED
    BY <2>1, <2>2
<1>3. CASE Incompatible
  <2>1. evaluation # Nothing /\ Conclude("incompatible", evaluation.bundle)
    BY <1>3 DEF Incompatible, AtStage
  <2> QED
    BY <2>1, ConcludeKeeps
<1>4. CASE Generate \/ PruneBundles \/ PruneInPart
  BY <1>4, GenerateKeeps, PruneKeeps, PruneInPartKeeps
<1>5. CASE Validate
  <2>1. evaluation # Nothing /\ evaluation' = Advance(evaluation, "capture") /\ published' = Nothing
        /\ UNCHANGED <<accepted, cache, execution>> /\ evaluation.stage \in Early
    BY <1>5 DEF Validate, AtStage, ProceedTo, Early
  <2>2. evaluation'.bundle = evaluation.bundle /\ evaluation'.stage \notin Generated \cup {"prune"}
    BY <2>1, <1>0, AdvanceTyped, AdvanceBundle DEF Stages, Generated
  <2> QED
    BY <2>1, <2>2, <1>0
<1>6. CASE Capture
  <2> DEFINE e == [evaluation EXCEPT !.identity = disk]
  <2>1. evaluation # Nothing /\ evaluation' = Advance(e, "schema") /\ UNCHANGED <<evidence, execution>>
        /\ evaluation.stage \in Early
    BY <1>6 DEF Capture, AtStage, Early
  <2>2. e \in Evaluation /\ e.bundle = evaluation.bundle
    BY <2>1, <1>0 DEF RuntimeTyped, Evaluation
  <2> HIDE DEF e
  <2>3. evaluation'.bundle = evaluation.bundle /\ evaluation'.stage \notin Generated \cup {"prune"}
    BY <2>1, <2>2, AdvanceTyped, AdvanceBundle DEF Stages, Generated
  <2> QED
    BY <2>1, <2>3, <1>0 DEF evidence
<1>7. CASE PublishSchema \/ Probe
  <2>1. /\ evaluation # Nothing /\ evaluation.stage \in Generated
        /\ \E stage \in {"readback", "probe"} : evaluation' = Advance(evaluation, stage)
        /\ published' \in {published, evaluation.bundle} /\ UNCHANGED <<accepted, cache, execution>>
    BY <1>7 DEF PublishSchema, Probe, AtStage, ProceedTo, Generated, evidence
  <2>2. PICK stage \in {"readback", "probe"} : evaluation' = Advance(evaluation, stage)
    BY <2>1
  <2>3. evaluation \in Evaluation /\ stage \in Stages
    BY <2>1, <1>0 DEF Stages
  <2>4. evaluation'.bundle = evaluation.bundle /\ evaluation'.identity = evaluation.identity
        /\ evaluation'.stage \in {stage, "aborted"}
    BY <2>2, <2>3, AdvanceTyped, AdvanceBundle
  <2> QED
    BY <2>1, <2>4, <1>0 DEF Early, Generated
<1>8. CASE ReadBack
  <2>1. PICK signedIn \in BOOLEAN :
          evaluation' = Advance([evaluation EXCEPT !.config = config, !.signedIn = signedIn], "accept")
    BY <1>8 DEF ReadBack
  <2> DEFINE e == [evaluation EXCEPT !.config = config, !.signedIn = signedIn]
  <2>2. evaluation # Nothing /\ evaluation.stage \in Generated /\ UNCHANGED <<evidence, execution>>
    BY <1>8 DEF ReadBack, AtStage, Generated
  <2>3. e \in Evaluation /\ e.bundle = evaluation.bundle /\ e.identity = evaluation.identity
    BY <2>2, <1>0 DEF RuntimeTyped, Evaluation
  <2>4. evaluation' = Advance(e, "accept")
    BY <2>1
  <2> HIDE DEF e
  <2>5. evaluation'.bundle = evaluation.bundle /\ evaluation'.identity = evaluation.identity
        /\ evaluation'.stage \in {"accept", "aborted"}
    BY <2>3, <2>4, AdvanceTyped, AdvanceBundle DEF Stages
  <2> QED
    BY <2>2, <2>5, <1>0 DEF evidence, Early, Generated
<1>9. CASE Accept
  <2>1. /\ evaluation # Nothing /\ evaluation.stage \in Generated
        /\ evaluation'.bundle = evaluation.bundle /\ evaluation'.identity = evaluation.identity
        /\ evaluation'.stage = "remember"
        /\ published' = evaluation.bundle /\ UNCHANGED <<accepted, cache, execution>>
    BY <1>9, <1>0 DEF Accept, AtStage, Generated, Evaluation
  <2> QED
    BY <2>1, <1>0 DEF Early, Generated
<1>10. CASE RememberAccepted
  <2>1. /\ evaluation # Nothing /\ evaluation.stage \in Generated
        /\ evaluation' = Advance(evaluation, "ready")
        /\ accepted' = [identity |-> evaluation.identity, contract |-> contract]
        /\ UNCHANGED <<published, cache, execution>>
    BY <1>10 DEF RememberAccepted, AtStage, ProceedTo, Generated
  <2>2. evaluation'.bundle = evaluation.bundle /\ evaluation'.identity = evaluation.identity
        /\ evaluation'.stage \in {"ready", "aborted"}
    BY <2>1, <1>0, AdvanceTyped, AdvanceBundle DEF Stages
  <2>3. accepted'.identity.build = evaluation.bundle
    BY <2>1, <1>0
  <2> QED
    BY <2>1, <2>2, <2>3, <1>0 DEF Early, Generated
<1>11. CASE Ready
  <2>1. evaluation' = Nothing /\ evaluation # Nothing /\ evaluation.stage \in Generated /\ UNCHANGED evidence
    BY <1>11 DEF Ready, SettleEvaluation, AtStage, Generated
  <2> QED
    BY <2>1, <1>0 DEF evidence
<1>12. ASSUME UNCHANGED evidence, evaluation' \in {evaluation, Begun}, execution' \in {execution, Nothing}
       PROVE  BundlesFit'
  <2>1. Begun.bundle = Nothing /\ Begun.stage \notin Generated \cup {"prune"}
    BY DEF Begun, Generated
  <2> QED
    BY <1>12, <2>1, <1>0 DEF evidence
<1>13. ASSUME NEW c \in Callers, Spawn(c) \/ Caller(c) \/ CopyFails(c) \/ AbandonCall(c) PROVE BundlesFit'
  <2>1. UNCHANGED evidence /\ evaluation' \in {evaluation, Begun} /\ execution' \in {execution, Nothing}
    BY <1>13
    DEF Spawn, Caller, AbandonCall, Stale, CopyFails, Reevaluate, Check, Open, Run, Replaced, BeginReplacement, Join
  <2> QED
    BY <2>1, <1>12
<1>14. CASE Close \/ (\E required \in Contracts : RestartPlanner(required))
  BY <1>14, <1>12 DEF Close, RestartPlanner
<1>15. CASE (\E build \in Builds : Update(build)) \/ Edit
  BY <1>15, <1>12 DEF Update, Edit, inside
<1>16. CASE StaysClosed
  BY <1>16, <1>12 DEF StaysClosed, runtimeVars
<1> QED
  BY <1>1, <1>2, <1>3, <1>4, <1>5, <1>6, <1>7, <1>8, <1>9, <1>10, <1>11, <1>13, <1>14, <1>15, <1>16
  DEF RuntimeNext, Evaluate

\* The schema bundles that the evidence on disk names are on disk and whole, wherever a
\* prune fails, an evaluation fails or the planner ends, and whichever release starts
\* next; an execution is only handed out when a prune has been completed:
\* pruneSchemaBundles and publishFinal in compatibility.ts.
THEOREM BundlesAlwaysKept == RuntimeSpec => []BundlesKept
<1>1. RuntimeInit => BundlesInv
  <2> SUFFICES ASSUME RuntimeInit PROVE BundlesInv
    OBVIOUS
  <2>1. OnceInv
    BY OnceInit
  <2>2. Begun.bundle = Nothing /\ Begun.stage \notin Generated \cup {"prune"}
    BY DEF Begun, Generated
  <2>3. CacheFinite
    BY FS_EmptySet DEF RuntimeInit, CacheFinite
  <2> QED
    BY <2>1, <2>2, <2>3
    DEF RuntimeInit, BundlesInv, BundlesFit, NamesOnDisk, EvaluatedOnDisk, WithinPolicy, OnDisk
<1>2. BundlesInv /\ [RuntimeNext]_runtimeVars => BundlesInv'
  <2> SUFFICES ASSUME BundlesInv, [RuntimeNext]_runtimeVars PROVE BundlesInv'
    OBVIOUS
  <2>1. OnceInv'
    BY OnceKept DEF BundlesInv
  <2>2. CASE RuntimeNext
    BY <2>1, <2>2, BundlesStep DEF BundlesInv
  <2>3. CASE UNCHANGED runtimeVars
    BY <2>1, <2>3
    DEF runtimeVars, evidence, cache, BundlesInv, BundlesFit, CacheFinite, NamesOnDisk, EvaluatedOnDisk,
        WithinPolicy, OnDisk
  <2> QED
    BY <2>2, <2>3
<1>3. BundlesInv => BundlesKept
  BY DEF BundlesInv, BundlesFit, NamesOnDisk, WithinPolicy, OnDisk, BundlesKept
<1> QED
  BY <1>1, <1>2, <1>3, PTL DEF RuntimeSpec
=============================================================================
