------------------------- MODULE ExecutableSnapshots -------------------------
(***************************************************************************)
(* The private copies of the Codex executable that processes are started   *)
(* from.                                                                   *)
(*                                                                         *)
(* The updater may replace the executable at any time, also between its    *)
(* verification and a spawn.  The planner therefore runs a copy in a       *)
(* directory named by the hash of the accepted bytes: it is prepared under *)
(* the process ID, verified, renamed, used, and pruned when newer builds   *)
(* have taken its place.  Several starts are under way in one process, and *)
(* the process may be killed at any point.                                 *)
(***************************************************************************)
EXTENDS Integers, FiniteSets

CONSTANTS
  Contents,      \* contents of the executable; a hash stands for its content
  Starts,        \* starts that are under way together
  Pids,          \* process IDs, which the system uses again
  MaxSnapshots,  \* resource policy: snapshots kept
  Torn, Empty, Gone, Nobody

ASSUME SnapshotAssumption ==
  /\ MaxSnapshots \in Nat
  /\ {Torn, Empty, Gone} \cap Contents = {}
  /\ Torn # Empty /\ Torn # Gone /\ Empty # Gone /\ Nobody \notin Pids

VARIABLES
  executable, \* what the updater has installed
  final,     \* the directories named by hashes: what each holds
  prepared,  \* the .prepare- directories
  pid,       \* the planner process, of which there is one at most
  starts,    \* where each start is, and the build it was promised
  lastRun    \* what the last start was promised, and what it ran

snapshotVars == <<executable, final, prepared, pid, starts, lastRun>>

Held == Contents \cup {Torn, Empty}
Steps == {"idle", "clean", "sweep", "look", "prepare", "made", "copy", "verify", "rename", "check", "acquire",
          "prune", "remove", "bound", "run"}
NoStart == [at |-> "idle", build |-> Gone, doomed |-> {}, debris |-> {}]

SnapshotTypeOK ==
  /\ executable \in Contents
  /\ final \in [Contents -> Held \cup {Gone}]
  /\ prepared \subseteq [pid : Pids, start : Starts, holds : Held]
  /\ pid \in Pids \cup {Nobody}
  /\ starts \in [Starts -> [at : Steps, build : Contents \cup {Gone}, doomed : SUBSET Contents,
                         debris : SUBSET (Pids \X Starts)]]
  /\ lastRun \in [build : Contents, held : Held \cup {Gone}] \cup {Nobody}

SnapshotInit ==
  /\ executable \in Contents
  /\ final = [b \in Contents |-> Gone]
  /\ prepared = {} /\ pid = Nobody
  /\ starts = [s \in Starts |-> NoStart]
  /\ lastRun = Nobody

-----------------------------------------------------------------------------
StartAt(s, step) == starts[s].at = step
Goes(s, step) == starts' = [starts EXCEPT ![s].at = step]
Fails(s) == starts' = [starts EXCEPT ![s] = NoStart]

\* ACTIVE_SNAPSHOT_PREPARATIONS and ACTIVE_EXECUTABLE_SNAPSHOTS
Own(s) == {d \in prepared : d.pid = pid /\ d.start = s}
Preparing == {s \in Starts : starts[s].at \in {"copy", "verify", "rename"}}
Active == {starts[s].build : s \in {t \in Starts : starts[t].at \in {"prune", "remove", "bound", "run"}}}
Present == {b \in Contents : final[b] # Gone}

\* An accepted identity is to be run; it need not be the file's any more.
Begin(s, b) ==
  /\ pid # Nobody /\ StartAt(s, "idle")
  /\ starts' = [starts EXCEPT ![s] = [NoStart EXCEPT !.at = "clean", !.build = b]]
  /\ UNCHANGED <<executable, final, prepared, pid, lastRun>>

\* cleanupAbandonedExecutableSnapshots: what other processes left goes, unless their
\* ID belongs to somebody now; so does what this process does not prepare, or does
\* not know yet to prepare.
Clean(s) ==
  /\ StartAt(s, "clean")
  /\ \E alive \in SUBSET (Pids \ {pid}) :
       starts' = [starts EXCEPT ![s].at = "sweep",
                                ![s].debris = {<<d.pid, d.start>> : d \in {e \in prepared :
                                  e.pid \notin alive /\ ~(e.pid = pid /\ e.start \in Preparing)}}]
  /\ UNCHANGED <<executable, final, prepared, pid, lastRun>>

\* rm -r: first the file, then the directory.
Sweep(s) ==
  /\ StartAt(s, "sweep")
  /\ \E d \in prepared :
       /\ <<d.pid, d.start>> \in starts[s].debris
       /\ prepared' = (prepared \ {d}) \cup (IF d.holds = Empty THEN {} ELSE {[d EXCEPT !.holds = Empty]})
  /\ UNCHANGED <<executable, final, pid, starts, lastRun>>

Swept(s) ==
  /\ StartAt(s, "sweep")
  /\ \A d \in prepared : <<d.pid, d.start>> \notin starts[s].debris
  /\ starts' = [starts EXCEPT ![s].at = "look", ![s].debris = {}]
  /\ UNCHANGED <<executable, final, prepared, pid, lastRun>>

\* A directory that is missing, or that a killed removal emptied, is prepared anew;
\* one that holds anything else fails the start.
Look(s) ==
  /\ StartAt(s, "look")
  /\ CASE final[starts[s].build] \in {Gone, Empty} -> Goes(s, "prepare")
       [] final[starts[s].build] = starts[s].build -> Goes(s, "acquire")
       [] OTHER -> Fails(s)
  /\ UNCHANGED <<executable, final, prepared, pid, lastRun>>

Prepare(s) ==
  /\ StartAt(s, "prepare")
  /\ prepared' = prepared \cup {[pid |-> pid, start |-> s, holds |-> Empty]}
  /\ Goes(s, "made")
  /\ UNCHANGED <<executable, final, pid, lastRun>>

\* The directory exists before its process knows of it.
Register(s) ==
  /\ StartAt(s, "made")
  /\ Goes(s, "copy")
  /\ UNCHANGED <<executable, final, prepared, pid, lastRun>>

Becomes(s, content) ==
  prepared' = (prepared \ Own(s)) \cup {[pid |-> pid, start |-> s, holds |-> content]}

\* copyFile takes its time: a kill leaves part of it, an update mixes two builds.
CopyPart(s) ==
  /\ StartAt(s, "copy") /\ Own(s) # {}
  /\ Becomes(s, Torn)
  /\ UNCHANGED <<executable, final, pid, starts, lastRun>>
Copy(s) ==
  /\ StartAt(s, "copy") /\ Own(s) # {}
  /\ \E content \in {executable, Torn} : Becomes(s, content)
  /\ Goes(s, "verify")
  /\ UNCHANGED <<executable, final, pid, lastRun>>

\* validateExecutableSnapshot of the copy: it must have the accepted hash.
Holds(s, b) == Own(s) # {} /\ \A d \in Own(s) : d.holds = b
FaultVerify(s) ==
  /\ StartAt(s, "verify")
  /\ Goes(s, "rename") /\ UNCHANGED prepared
  /\ UNCHANGED <<executable, final, pid, lastRun>>
Verify(s) ==
  /\ StartAt(s, "verify")
  /\ IF Holds(s, starts[s].build)
     THEN Goes(s, "rename") /\ UNCHANGED prepared
     ELSE Fails(s) /\ prepared' = prepared \ Own(s)
  /\ UNCHANGED <<executable, final, pid, lastRun>>

\* An empty directory is replaced; another start may have been first.
Rename(s) ==
  LET b == starts[s].build IN
  /\ StartAt(s, "rename")
  /\ \E d \in Own(s) :
       final' = IF final[b] \in {Gone, Empty} THEN [final EXCEPT ![b] = d.holds] ELSE final
  /\ prepared' = prepared \ Own(s)
  /\ Goes(s, "check")
  /\ UNCHANGED <<executable, pid, lastRun>>

CheckCopy(s) ==
  /\ StartAt(s, "check")
  /\ IF final[starts[s].build] = starts[s].build THEN Goes(s, "acquire") ELSE Fails(s)
  /\ UNCHANGED <<executable, final, prepared, pid, lastRun>>

Acquire(s) ==
  /\ StartAt(s, "acquire")
  /\ Goes(s, "prune")
  /\ UNCHANGED <<executable, final, prepared, pid, lastRun>>

\* pruneExecutableSnapshots: what is in use stays, and of the rest as many as the
\* policy has room for; which ones is not told apart.  A start may take up what is
\* already doomed: it then fails, or finds nothing to run.
PruneCopies(s) ==
  LET inactive == Present \ Active
      room == IF Cardinality(Active) < MaxSnapshots THEN MaxSnapshots - Cardinality(Active) ELSE 0
  IN
  /\ StartAt(s, "prune")
  /\ \E doomed \in SUBSET inactive :
       /\ Cardinality(inactive \ doomed) = IF Cardinality(inactive) < room
                                           THEN Cardinality(inactive) ELSE room
       /\ starts' = [starts EXCEPT ![s].at = "remove", ![s].doomed = doomed]
  /\ UNCHANGED <<executable, final, prepared, pid, lastRun>>

\* A directory vanished while it was listed: a start that had found its own prepares it.
Vanished(s) ==
  /\ StartAt(s, "prune")
  /\ Goes(s, "prepare")
  /\ UNCHANGED <<executable, final, prepared, pid, lastRun>>

\* rm -r: first the file, then the directory.
RemoveCopy(s) ==
  /\ StartAt(s, "remove")
  /\ \E b \in starts[s].doomed :
       /\ final' = [final EXCEPT ![b] = IF @ \in {Empty, Gone} THEN Gone ELSE Empty]
       /\ starts' = [starts EXCEPT ![s].doomed = IF final'[b] = Gone THEN @ \ {b} ELSE @]
  /\ UNCHANGED <<executable, prepared, pid, lastRun>>

Bound(s) ==
  /\ StartAt(s, "remove") /\ starts[s].doomed = {}
  /\ Goes(s, "bound")
  /\ UNCHANGED <<executable, final, prepared, pid, lastRun>>

\* spawn; the snapshot is released when the child has closed.
RunCopy(s) ==
  /\ StartAt(s, "bound")
  /\ lastRun' = [build |-> starts[s].build, held |-> final[starts[s].build]]
  /\ Goes(s, "run")
  /\ UNCHANGED <<executable, final, prepared, pid>>

\* Any step may fail, and the child ends; a preparation is removed if that succeeds.
EndStart(s) ==
  /\ ~StartAt(s, "idle")
  /\ prepared' = prepared \ Own(s) \/ UNCHANGED prepared
  /\ Fails(s)
  /\ UNCHANGED <<executable, final, pid, lastRun>>

Install(b) ==
  /\ b # executable
  /\ executable' = b
  /\ UNCHANGED <<final, prepared, pid, starts, lastRun>>

StartProcess(p) ==
  /\ pid = Nobody
  /\ pid' = p
  /\ UNCHANGED <<executable, final, prepared, starts, lastRun>>

Kill ==
  /\ pid # Nobody
  /\ pid' = Nobody
  /\ starts' = [s \in Starts |-> NoStart]
  /\ UNCHANGED <<executable, final, prepared, lastRun>>

StartStep(s) ==
  \/ Clean(s) \/ Sweep(s) \/ Swept(s) \/ Look(s) \/ Prepare(s) \/ Register(s)
  \/ CopyPart(s) \/ Copy(s) \/ Verify(s) \/ Rename(s)
  \/ CheckCopy(s) \/ Acquire(s) \/ PruneCopies(s) \/ Vanished(s) \/ RemoveCopy(s) \/ Bound(s) \/ RunCopy(s)

SnapshotNext ==
  \/ \E s \in Starts : StartStep(s) \/ EndStart(s) \/ \E b \in Contents : Begin(s, b)
  \/ \E b \in Contents : Install(b)
  \/ \E p \in Pids : StartProcess(p)
  \/ Kill

SnapshotSpec == SnapshotInit /\ [][SnapshotNext]_snapshotVars

-----------------------------------------------------------------------------
\* A directory named by a hash never holds part of a build or another build, so that
\* a start runs the bytes it was promised or nothing.
SnapshotsWhole == \A b \in Contents : final[b] \in {Gone, Empty, b}
RunsPromised == lastRun # Nobody => lastRun.held \in {Gone, Empty, lastRun.build}
RunsAcceptedBytes == SnapshotsWhole /\ RunsPromised
=============================================================================
