------------------------------- MODULE SliceLock -------------------------------
(***************************************************************************)
(* One writer per workspace, between processes (workspace/lock.py): the     *)
(* server for its life and every mutating command for its length hold an    *)
(* flock on serve.lock.  The lock is on the file's inode, the file is in    *)
(* the workspace, and `slice --fresh` (cli/slice.py) removes the workspace  *)
(* and what is in it.  Files are the processes that wrote them.             *)
(***************************************************************************)
EXTENDS Integers, FiniteSets

CONSTANTS
    Commands,       \* processes that end by themselves: slice, intake run, kb purge
    Servers,        \* processes that run until they are stopped
    Fresh,          \* the slice commands given --fresh
    MaxInodes,      \* lock files ever created
    None

Processes == Commands \cup Servers
Inodes == 1..MaxInodes

\* Assumed of the constants wherever this module is instantiated.
LockConstants ==
    /\ Commands \cap Servers = {} /\ Fresh \subseteq Commands /\ MaxInodes \in Nat \ {0}
    /\ None \notin Processes \cup Inodes

VARIABLES
    directory,      \* whether the workspace exists
    path,           \* the inode named serve.lock, None when the name is gone
    inodes,         \* lock files created
    owner, holder,  \* by inode: who holds its flock, what its text says
    tree,           \* files in the workspace
    pc, handle,     \* by process: its step, the inode it has open
    wiped,          \* whether this --fresh has wiped
    told            \* who a refused process was told holds the lock

lockfile == <<path, inodes, owner, holder>>
process == <<pc, handle, wiped, told>>
vars == <<directory, lockfile, tree, process>>

Steps == {"start", "open", "flock", "name", "release", "wipe",
          "wipe_files", "wipe_lock", "rmdir", "work", "worked", "refused", "failed", "done"}
TypeOK ==
    /\ directory \in BOOLEAN /\ inodes \in 0..MaxInodes /\ path \in 1..inodes \cup {None}
    /\ owner \in [Inodes -> Processes \cup {None}] /\ holder \in [Inodes -> Processes \cup {None}]
    /\ tree \subseteq Processes /\ pc \in [Processes -> Steps]
    /\ handle \in [Processes -> Inodes \cup {None}] /\ wiped \subseteq Fresh
    /\ told \in [Processes -> Processes \cup {None}]
    /\ \A i \in Inodes : owner[i] # None => handle[owner[i]] = i

Init ==
    /\ directory \in BOOLEAN /\ path = None /\ inodes = 0
    /\ owner = [i \in Inodes |-> None] /\ holder = [i \in Inodes |-> None]
    /\ tree = {} /\ pc = [p \in Processes |-> "start"]
    /\ handle = [p \in Processes |-> None] /\ wiped = {}
    /\ told = [p \in Processes |-> None]

At(p, step) == pc[p] = step
Goto(p, step) == pc' = [pc EXCEPT ![p] = step]

------------------------------------------------------------------------------
\* --fresh refuses a directory that carries no marker, before it takes the lock.
Marked == path # None \/ tree # {}
Start(p) ==
    /\ At(p, "start")
    /\ Goto(p, IF p \in Fresh /\ directory /\ ~Marked THEN "refused" ELSE "open")
    /\ UNCHANGED <<directory, lockfile, tree, handle, wiped, told>>

Open(p) ==
    /\ At(p, "open") /\ (path = None => inodes < MaxInodes)
    /\ directory' = TRUE
    /\ inodes' = IF path = None THEN inodes + 1 ELSE inodes
    /\ path' = IF path = None THEN inodes' ELSE path
    /\ handle' = [handle EXCEPT ![p] = path'] /\ Goto(p, "flock")
    /\ UNCHANGED <<owner, holder, tree, wiped, told>>

\* A held lock refuses at once, with what the holder wrote into the file; the second
\* acquisition of --fresh is not caught.
Busy(i) == owner[i] # None
Lock(p) ==
    /\ At(p, "flock") /\ ~Busy(handle[p])
    /\ owner' = [owner EXCEPT ![handle[p]] = p] /\ Goto(p, "name")
    /\ UNCHANGED <<directory, path, inodes, holder, tree, handle, wiped, told>>
Refusing(p) == At(p, "flock") /\ Busy(handle[p])
Refuse(p) ==
    /\ Refusing(p)
    /\ told' = [told EXCEPT ![p] = holder[handle[p]]]
    /\ handle' = [handle EXCEPT ![p] = None]
    /\ Goto(p, IF p \in wiped THEN "failed" ELSE "refused")
    /\ UNCHANGED <<directory, lockfile, tree, wiped>>

Name(p) ==
    /\ At(p, "name")
    /\ holder' = [holder EXCEPT ![handle[p]] = p]
    /\ Goto(p, IF p \in Fresh \ wiped THEN "release" ELSE "work")
    /\ UNCHANGED <<directory, path, inodes, owner, tree, handle, wiped, told>>

Work(p) ==
    /\ At(p, "work") /\ directory
    /\ tree' = tree \cup {p} /\ Goto(p, "worked")
    /\ UNCHANGED <<directory, lockfile, handle, wiped, told>>

Unlocked(p) ==
    /\ owner' = [i \in Inodes |-> IF owner[i] = p THEN None ELSE owner[i]]
    /\ handle' = [handle EXCEPT ![p] = None]

\* Mutant: a process that ends keeps its lock.
Leaked(p) == UNCHANGED <<owner, handle>>
Ended(p) == Unlocked(p)

\* The wipe removes the lock file with the tree, so --fresh lets the lock go first.
Release(p) ==
    /\ At(p, "release")
    /\ Unlocked(p) /\ Goto(p, "wipe")
    /\ UNCHANGED <<directory, path, inodes, holder, tree, wiped, told>>

WipeFiles(p) ==
    /\ pc[p] \in {"wipe", "wipe_files"}
    /\ tree' = {} /\ Goto(p, IF At(p, "wipe") THEN "wipe_lock" ELSE "rmdir")
    /\ UNCHANGED <<directory, lockfile, handle, wiped, told>>
WipeLock(p) ==
    /\ pc[p] \in {"wipe", "wipe_lock"}
    /\ path' = None /\ Goto(p, IF At(p, "wipe") THEN "wipe_files" ELSE "rmdir")
    /\ UNCHANGED <<directory, inodes, owner, holder, tree, handle, wiped, told>>
\* What another process put there meanwhile makes the wipe fail.
RemoveDirectory(p) ==
    /\ At(p, "rmdir")
    /\ IF tree = {} /\ path = None
       THEN directory' = FALSE /\ wiped' = wiped \cup {p} /\ Goto(p, "open")
       ELSE Goto(p, "failed") /\ UNCHANGED <<directory, wiped>>
    /\ UNCHANGED <<lockfile, tree, handle, told>>

\* A command that has run, a process that is killed or stopped.
Finish(p) ==
    /\ At(p, "worked") \/ (At(p, "work") /\ ~directory)
    /\ Ended(p) /\ Goto(p, "done")
    /\ UNCHANGED <<directory, path, inodes, holder, tree, wiped, told>>
Killed(p) ==
    /\ pc[p] \in Steps \ {"start", "refused", "failed", "done"}
    /\ Unlocked(p) /\ Goto(p, "done")
    /\ UNCHANGED <<directory, path, inodes, holder, tree, wiped, told>>

Next ==
    \E p \in Processes :
        \/ Start(p) \/ Open(p) \/ Lock(p) \/ Refuse(p) \/ Name(p) \/ Work(p)
        \/ Release(p) \/ WipeFiles(p) \/ WipeLock(p) \/ RemoveDirectory(p)
        \/ Finish(p) \/ Killed(p)

\* A command runs to its end; nobody has to stop a server.
Steady(p) ==
    \/ Start(p) \/ Open(p) \/ Lock(p) \/ Refuse(p) \/ Name(p) \/ Work(p)
    \/ Release(p) \/ WipeFiles(p) \/ WipeLock(p) \/ RemoveDirectory(p) \/ Finish(p)
Fairness == \A p \in Commands : WF_vars(Steady(p))
Spec == Init /\ [][Next]_vars /\ Fairness

------------------------------------------------------------------------------
Wiping == {"wipe", "wipe_files", "wipe_lock", "rmdir"}
Writes(p) == pc[p] \in {"name", "release", "work", "worked"}

\* Two processes hold the workspace only where a --fresh took the lock file away under
\* one of them (lock.py:30-48, slice.py:299-302).
OneWriterUntilWiped ==
    \A p, q \in Processes : p # q /\ Writes(p) /\ Writes(q) =>
        handle[p] # handle[q] /\ \E f \in Fresh : pc[f] \in Wiping \cup {"failed", "done"} \/ f \in wiped

\* A process that is gone holds nothing: a dead holder releases (lock.py:8).
TheDeadHoldNothing ==
    \A i \in Inodes : owner[i] # None => pc[owner[i]] \notin {"refused", "failed", "done"} \cup Wiping

\* A held lock is never waited for: every command runs or is refused, whatever the
\* server does (lock.py:6-8).
NeverWaits == \A p \in Commands : <>(pc[p] \in {"done", "refused", "failed"})

------------------------------------------------------------------------------
(* What the docs say and the code does not keep.                              *)

\* lock.py:42: one writer per workspace.
OneWriter == \A p, q \in Processes : p # q => ~(Writes(p) /\ Writes(q))

\* lock.py:6-8: a held lock refuses naming the holder.
NamesTheHolder ==
    [][\A p \in Processes : told'[p] # told[p] => told'[p] = owner[handle[p]]]_vars

\* slice.py:290-292: a slice beside another writer refuses instead of racing it.
NobodysWorkIsWiped ==
    [][\A q \in Processes : pc[q] = "worked" /\ q \in tree => q \in tree']_vars
==============================================================================
