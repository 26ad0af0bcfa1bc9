-------------------------- MODULE RuntimeOwnership --------------------------
(***************************************************************************)
(* The writer lease of the household's data directory                      *)
(* (scripts/support/runtime-ownership.mjs).  A process holds it while it   *)
(* listens on a Unix socket at one path.  The path stays behind when the   *)
(* process is killed; whoever comes next proves under an advisory lock     *)
(* that nobody listens, removes the path and binds its own.                *)
(*                                                                         *)
(* Each action is one call to the operating system.  A socket is known by  *)
(* the inode of its path, which the file system does not use again while   *)
(* somebody remembers it.  The directory, its owner and its mode are fixed. *)
(***************************************************************************)
EXTENDS Naturals, FiniteSets

CONSTANTS
    Procs,        \* processes that want the lease: authority, promotion, recovery
    Sockets,      \* identities of sockets
    None,
    MaxCrashes    \* bound: how often a process is killed

ASSUME NoneAssumption == None \notin Procs \cup Sockets
ASSUME MaxCrashesAssumption == MaxCrashes \in Nat

VARIABLES
    at,        \* per process, the call it makes next
    path,      \* the socket the path names, and whether its mode is 0600
    bound,     \* per process, the socket it has bound
    seen,      \* per process, the socket identity it has read from the path
    guard,     \* who holds the lock on <path>.recovery.lock
    crashes

vars == <<at, path, bound, seen, guard, crashes>>

Recovering == {"look", "identify", "probe", "compare", "unlink"}
Binding == {"listen", "chmod", "confirm"}
Ending == {"unbind", "shut", "check"}
Calls == {"idle", "lock"} \cup Recovering \cup {"bind"} \cup Binding \cup {"held"} \cup Ending

Holds(p) == at[p] = "held"

\* The server listens until its descriptor is closed.
Listens(p) == at[p] \in {"chmod", "confirm", "held", "unbind", "shut"}

Free == [socket |-> None, private |-> FALSE]
Known == {path.socket} \cup {bound[p] : p \in Procs} \cup {seen[p] : p \in Procs}

TypeOK ==
    /\ at \in [Procs -> Calls]
    /\ path \in {Free} \cup [socket : Sockets, private : BOOLEAN]
    /\ bound \in [Procs -> Sockets \cup {None}]
    /\ seen \in [Procs -> Sockets \cup {None}]
    /\ guard \in Procs \cup {None}
    /\ guard # None => at[guard] \notin {"idle", "lock", "held"}
    /\ crashes \in 0..MaxCrashes

Init ==
    /\ at = [p \in Procs |-> "idle"]
    /\ path = Free
    /\ bound = [p \in Procs |-> None]
    /\ seen = [p \in Procs |-> None]
    /\ guard = None
    /\ crashes = 0

-----------------------------------------------------------------------------
(* acquireRuntimeOwnershipLease *)

Goto(p, call) == at' = [at EXCEPT ![p] = call]
ReleaseGuard(p) == guard' = IF guard = p THEN None ELSE guard

FaultKeepGuard(p) ==
    /\ Goto(p, "idle")
    /\ seen' = [seen EXCEPT ![p] = None]
    /\ UNCHANGED <<path, bound, guard, crashes>>

Refuse(p) ==
    /\ Goto(p, "idle")
    /\ seen' = [seen EXCEPT ![p] = None]
    /\ ReleaseGuard(p)
    /\ UNCHANGED <<path, bound, crashes>>

Start(p) ==
    /\ at[p] = "idle"
    /\ Goto(p, IF path = Free THEN "bind" ELSE "lock")
    /\ UNCHANGED <<path, bound, seen, guard, crashes>>

\* lockf -t 0 does not wait.
Lock(p) ==
    /\ at[p] = "lock" /\ guard = None
    /\ guard' = p
    /\ Goto(p, "look")
    /\ UNCHANGED <<path, bound, seen, crashes>>

RefuseLock(p) ==
    /\ at[p] = "lock" /\ guard # None
    /\ Refuse(p)

LookAgain(p) ==
    /\ at[p] = "look"
    /\ Goto(p, IF path = Free THEN "bind" ELSE "identify")
    /\ UNCHANGED <<path, bound, seen, guard, crashes>>

FaultIdentifyAnyMode(p) ==
    /\ at[p] = "identify" /\ path # Free
    /\ seen' = [seen EXCEPT ![p] = path.socket]
    /\ Goto(p, "probe")
    /\ UNCHANGED <<path, bound, guard, crashes>>

Identify(p) ==
    /\ at[p] = "identify" /\ path.private
    /\ seen' = [seen EXCEPT ![p] = path.socket]
    /\ Goto(p, "probe")
    /\ UNCHANGED <<path, bound, guard, crashes>>

\* The path is gone, or its mode is not 0600 yet.
RefuseIdentity(p) ==
    /\ at[p] = "identify" /\ ~path.private
    /\ Refuse(p)

\* Nobody listens on a socket that was bound and not listened on, or whose
\* process is gone: the connection is refused.
Refused == path # Free /\ \A q \in Procs : Listens(q) => bound[q] # path.socket

Probe(p) ==
    /\ at[p] = "probe" /\ Refused
    /\ Goto(p, "compare")
    /\ UNCHANGED <<path, bound, seen, guard, crashes>>

\* Somebody listens, or the path is gone, or the probe takes too long.
RefuseProbe(p) ==
    /\ at[p] = "probe"
    /\ Refuse(p)

Compare(p) ==
    /\ at[p] = "compare"
    /\ path.private /\ path.socket = seen[p]
    /\ Goto(p, "unlink")
    /\ UNCHANGED <<path, bound, seen, guard, crashes>>

\* The path is gone or not 0600, or it is another socket by now.
RefuseCompare(p) ==
    /\ at[p] = "compare" /\ (path.private => path.socket # seen[p])
    /\ Refuse(p)

Unlink(p) ==
    /\ at[p] = "unlink"
    /\ path' = Free
    /\ seen' = [seen EXCEPT ![p] = None]
    /\ Goto(p, "bind")
    /\ UNCHANGED <<bound, guard, crashes>>

Bind(p) ==
    /\ at[p] = "bind" /\ path = Free
    /\ \E s \in Sockets \ Known :
         /\ path' = [socket |-> s, private |-> FALSE]
         /\ bound' = [bound EXCEPT ![p] = s]
    /\ Goto(p, "listen")
    /\ UNCHANGED <<seen, guard, crashes>>

\* EADDRINUSE
RefuseBind(p) ==
    /\ at[p] = "bind" /\ path # Free
    /\ Refuse(p)

Listen(p) ==
    /\ at[p] = "listen"
    /\ Goto(p, "chmod")
    /\ UNCHANGED <<path, bound, seen, guard, crashes>>

\* By name, as everything that is done to the path.
Chmod(p) ==
    /\ at[p] = "chmod"
    /\ path' = [path EXCEPT !.private = TRUE]
    /\ Goto(p, "confirm")
    /\ UNCHANGED <<bound, seen, guard, crashes>>

\* The lease is returned when the identity is read and the lock released.
Confirm(p) ==
    /\ at[p] = "confirm"
    /\ seen' = [seen EXCEPT ![p] = path.socket]
    /\ ReleaseGuard(p)
    /\ Goto(p, "held")
    /\ UNCHANGED <<path, bound, crashes>>

\* A call on the new socket fails: the server is closed again.
Fail(p) ==
    /\ at[p] \in {"chmod", "confirm"}
    /\ Goto(p, "unbind")
    /\ UNCHANGED <<path, bound, seen, guard, crashes>>

-----------------------------------------------------------------------------
(* lease.close, and the close of a server that failed *)

Close(p) ==
    /\ Holds(p)
    /\ Goto(p, "unbind")
    /\ UNCHANGED <<path, bound, seen, guard, crashes>>

\* The runtime unlinks the name of a server that it closes, then closes it.
Unbind(p) ==
    /\ at[p] = "unbind"
    /\ path' = Free
    /\ Goto(p, "shut")
    /\ UNCHANGED <<bound, seen, guard, crashes>>

Shut(p) ==
    /\ at[p] = "shut"
    /\ bound' = [bound EXCEPT ![p] = None]
    /\ Goto(p, "check")
    /\ UNCHANGED <<path, seen, guard, crashes>>

FaultRemoveAny(p) ==
    /\ at[p] = "check"
    /\ path' = Free
    /\ seen' = [seen EXCEPT ![p] = None]
    /\ ReleaseGuard(p)
    /\ Goto(p, "idle")
    /\ UNCHANGED <<bound, crashes>>

\* A path that still has the identity of the lease is removed.
Finish(p) ==
    /\ at[p] = "check"
    /\ path' = IF path.private /\ path.socket = seen[p] THEN Free ELSE path
    /\ seen' = [seen EXCEPT ![p] = None]
    /\ ReleaseGuard(p)
    /\ Goto(p, "idle")
    /\ UNCHANGED <<bound, crashes>>

FaultLockOutlives(p) ==
    /\ at[p] # "idle" /\ crashes < MaxCrashes
    /\ Goto(p, "idle")
    /\ bound' = [bound EXCEPT ![p] = None]
    /\ seen' = [seen EXCEPT ![p] = None]
    /\ guard' = IF guard = p THEN "orphan" ELSE guard
    /\ crashes' = crashes + 1
    /\ UNCHANGED path

\* The process is killed.  Its descriptors are closed, and with them the lock
\* and the server; the path stays.
Crash(p) ==
    /\ at[p] # "idle" /\ crashes < MaxCrashes
    /\ Goto(p, "idle")
    /\ bound' = [bound EXCEPT ![p] = None]
    /\ seen' = [seen EXCEPT ![p] = None]
    /\ ReleaseGuard(p)
    /\ crashes' = crashes + 1
    /\ UNCHANGED path

Acquire(p) ==
    \/ Start(p) \/ Lock(p) \/ RefuseLock(p) \/ LookAgain(p)
    \/ Identify(p) \/ RefuseIdentity(p) \/ Probe(p) \/ RefuseProbe(p)
    \/ Compare(p) \/ RefuseCompare(p) \/ Unlink(p)
    \/ Bind(p) \/ RefuseBind(p) \/ Listen(p) \/ Chmod(p) \/ Confirm(p)

End(p) == Unbind(p) \/ Shut(p) \/ Finish(p)

Next == \E p \in Procs : Acquire(p) \/ Fail(p) \/ Close(p) \/ End(p) \/ Crash(p)

Spec == Init /\ [][Next]_vars

\* Processes run, the service manager starts the authority again and again
\* (KeepAlive), and not every probe of a dead socket takes too long.
FairSpec ==
    /\ Spec
    /\ \A p \in Procs : WF_vars(Acquire(p) \/ End(p))
    /\ SF_vars(\E p \in Procs : Probe(p))

-----------------------------------------------------------------------------
(* Properties. *)

\* Never two writers: not while one recovers the path of a process that was
\* killed, not while another closes, starts or is killed (only the holder
\* opens the database, server/index.ts).
OneHolder == \A p, q \in Procs : Holds(p) /\ Holds(q) => p = q

\* As long as a process holds the lease, the path is its own socket, so that
\* everybody else is refused and the lease can be inherited (assertRecordHeld).
HolderKeepsPath ==
    \A p \in Procs : Holds(p) => path = [socket |-> bound[p], private |-> TRUE] /\ seen[p] = bound[p]

\* The lease is exclusive, and stays provable by the path.
LeaseExclusive == OneHolder /\ HolderKeepsPath

Stale == path.private /\ \A p \in Procs : bound[p] # path.socket

\* What a killed holder left at the path does not stay there for ever
\* (removeStableStaleSocket).
StaleRecovered == []<>~Stale
=============================================================================
