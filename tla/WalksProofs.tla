----------------------------- MODULE WalksProofs -----------------------------
(***************************************************************************)
(* Proofs about the parts that MCWalks runs: the workspace's lock, for any *)
(* commands and servers, the operator's exchange, for any threads, agents  *)
(* and bounds, the learners of accepts, for any pursuits, events, gaps and *)
(* cards, and the budget of a walk, for any prices, limits and ladders.    *)
(***************************************************************************)
EXTENDS MCWalks, Sequences, FiniteSetTheorems, SequenceTheorems, WellFoundedInduction, TLAPS

-----------------------------------------------------------------------------
(* The lock                                                                *)

Holding == {"name", "release", "work", "worked"}
Gone == \E f \in Fresh : step[f] \in Lock!Wiping \cup {"failed", "done"} \/ f \in wiped

\* A process past its flock owns the file it has open, a file is owned by a process
\* past its flock, and only a --fresh lets go of its lock to wipe.
Owned ==
    /\ \A p \in Lock!Processes :
          /\ step[p] \in Holding => handle[p] \in Lock!Inodes /\ owner[handle[p]] = p
          /\ step[p] = "flock" => handle[p] \in Lock!Inodes
          /\ step[p] \in {"release"} \cup Lock!Wiping => p \in Fresh
    /\ \A i \in Lock!Inodes : owner[i] # None => step[owner[i]] \in Holding

\* Until a --fresh has come as far as its wipe there is one lock file.
OneFile == ~Gone => \A p \in Lock!Processes : handle[p] \in {None, path}

LockInv == Lock!TypeOK /\ Owned /\ OneFile

\* What is assumed of the lock's constants.
LEMMA LockConstantsHold ==
    /\ Fresh \subseteq Commands /\ MaxInodes \in Nat \ {0} /\ Fresh \subseteq Lock!Processes
    /\ None \notin Lock!Processes /\ None \notin Lock!Inodes
    /\ Lock!Inodes = 1..MaxInodes /\ Lock!Processes = Commands \cup Servers
BY WalkConstants DEF Lock!LockConstants, Lock!Processes, Lock!Inodes

\* Nobody has started, and no lock file is there.
LEMMA LockInit == Init => LockInv
BY LockConstantsHold
   DEF Init, Lock!Init, LockInv, Lock!TypeOK, Owned, OneFile, Holding, Gone, Lock!Wiping, Lock!Steps

\* The lock's types hold across every step of a process.
LEMMA LockTypes == LockInv /\ Lock!Next => Lock!TypeOK'
<1> SUFFICES ASSUME LockInv, NEW p \in Lock!Processes,
                    \/ Lock!Start(p) \/ Lock!Open(p) \/ Lock!Lock(p) \/ Lock!Refuse(p)
                    \/ Lock!Name(p) \/ Lock!Work(p) \/ Lock!Release(p) \/ Lock!WipeFiles(p)
                    \/ Lock!WipeLock(p) \/ Lock!RemoveDirectory(p) \/ Lock!Finish(p)
                    \/ Lock!Killed(p)
             PROVE  Lock!TypeOK'
  BY DEF Lock!Next
<1> USE LockConstantsHold DEF LockInv, Lock!TypeOK, Lock!Goto, Lock!At, Lock!Steps, Lock!lockfile
<1>1. CASE Lock!Start(p)
  BY <1>1 DEF Lock!Start
<1>2. CASE Lock!Open(p)
  <2>1. path' \in Lock!Inodes /\ path' \in 1..inodes' /\ inodes' \in 0..MaxInodes
    BY <1>2 DEF Lock!Open
  <2>2. \A i \in Lock!Inodes : owner[i] # None => owner[i] # p
    BY <1>2 DEF Lock!Open, Owned, Holding
  <2> QED
    BY <1>2, <2>1, <2>2 DEF Lock!Open
<1>3. CASE Lock!Lock(p)
  <2>1. handle[p] \in Lock!Inodes
    BY <1>3 DEF Lock!Lock, Owned
  <2> QED
    BY <1>3, <2>1 DEF Lock!Lock, Lock!Busy
<1>4. CASE Lock!Refuse(p)
  <2>1. handle[p] \in Lock!Inodes
    BY <1>4 DEF Lock!Refuse, Lock!Refusing, Owned
  <2>2. \A i \in Lock!Inodes : owner[i] # None => owner[i] # p
    BY <1>4 DEF Lock!Refuse, Lock!Refusing, Owned, Holding
  <2> QED
    BY <1>4, <2>1, <2>2 DEF Lock!Refuse
<1>5. CASE Lock!Name(p)
  BY <1>5 DEF Lock!Name
<1>6. CASE Lock!Work(p)
  BY <1>6 DEF Lock!Work
<1>7. CASE Lock!Release(p)
  BY <1>7 DEF Lock!Release, Lock!Unlocked
<1>8. CASE Lock!WipeFiles(p)
  BY <1>8 DEF Lock!WipeFiles
<1>9. CASE Lock!WipeLock(p)
  BY <1>9 DEF Lock!WipeLock
<1>10. CASE Lock!RemoveDirectory(p)
  <2>1. p \in Fresh
    BY <1>10 DEF Lock!RemoveDirectory, Owned, Lock!Wiping
  <2>2. CASE tree = {} /\ path = None
    <3>1. /\ directory' = FALSE /\ wiped' = wiped \cup {p}
          /\ step' = [step EXCEPT ![p] = "open"]
          /\ UNCHANGED <<path, inodes, owner, holder, tree, handle, told>>
      BY <1>10, <2>2 DEF Lock!RemoveDirectory
    <3>2. directory' \in BOOLEAN /\ wiped' \subseteq Fresh /\ step' \in [Lock!Processes -> Lock!Steps]
      BY <2>1, <3>1
    <3> QED
      BY <3>1, <3>2
  <2>3. CASE ~(tree = {} /\ path = None)
    BY <1>10, <2>3 DEF Lock!RemoveDirectory
  <2> QED
    BY <2>2, <2>3
<1>11. CASE Lock!Finish(p)
  BY <1>11 DEF Lock!Finish, Lock!Ended, Lock!Unlocked
<1>12. CASE Lock!Killed(p)
  BY <1>12 DEF Lock!Killed, Lock!Unlocked
<1> QED
  BY <1>1, <1>2, <1>3, <1>4, <1>5, <1>6, <1>7, <1>8, <1>9, <1>10, <1>11, <1>12

\* The owners are the processes past their flock across every step.
LEMMA LockOwners == LockInv /\ Lock!Next => Owned'
<1> SUFFICES ASSUME LockInv, NEW p \in Lock!Processes,
                    \/ Lock!Start(p) \/ Lock!Open(p) \/ Lock!Lock(p) \/ Lock!Refuse(p)
                    \/ Lock!Name(p) \/ Lock!Work(p) \/ Lock!Release(p) \/ Lock!WipeFiles(p)
                    \/ Lock!WipeLock(p) \/ Lock!RemoveDirectory(p) \/ Lock!Finish(p)
                    \/ Lock!Killed(p)
             PROVE  Owned'
  BY DEF Lock!Next
<1> USE LockConstantsHold
    DEF LockInv, Lock!TypeOK, Lock!Goto, Lock!At, Lock!lockfile, Owned, Holding, Lock!Wiping
<1>1. CASE Lock!Start(p)
  BY <1>1 DEF Lock!Start
<1>2. CASE Lock!Open(p)
  <2>1. path' \in Lock!Inodes
    BY <1>2 DEF Lock!Open
  <2> QED
    BY <1>2, <2>1 DEF Lock!Open
<1>3. CASE Lock!Lock(p)
  BY <1>3 DEF Lock!Lock, Lock!Busy
<1>4. CASE Lock!Refuse(p)
  BY <1>4 DEF Lock!Refuse, Lock!Refusing
<1>5. CASE Lock!Name(p)
  BY <1>5 DEF Lock!Name
<1>6. CASE Lock!Work(p)
  BY <1>6 DEF Lock!Work
<1>7. CASE Lock!Release(p)
  BY <1>7 DEF Lock!Release, Lock!Unlocked
<1>8. CASE Lock!WipeFiles(p)
  BY <1>8 DEF Lock!WipeFiles
<1>9. CASE Lock!WipeLock(p)
  BY <1>9 DEF Lock!WipeLock
<1>10. CASE Lock!RemoveDirectory(p)
  <2>1. /\ UNCHANGED <<inodes, path, owner, handle>> /\ step[p] = "rmdir"
        /\ \/ step' = [step EXCEPT ![p] = "open"] /\ p \in Fresh
           \/ step' = [step EXCEPT ![p] = "failed"]
    BY <1>10 DEF Lock!RemoveDirectory
  <2>2. \A i \in Lock!Inodes : owner[i] # None => owner[i] # p
    BY <2>1
  <2> QED
    BY <2>1, <2>2
<1>11. CASE Lock!Finish(p)
  <2>1. Lock!Unlocked(p) /\ step' = [step EXCEPT ![p] = "done"] /\ UNCHANGED <<wiped, inodes, path>>
    BY <1>11 DEF Lock!Finish, Lock!Ended
  <2> QED
    BY <2>1 DEF Lock!Unlocked
<1>12. CASE Lock!Killed(p)
  <2>1. Lock!Unlocked(p) /\ step' = [step EXCEPT ![p] = "done"] /\ UNCHANGED <<wiped, inodes, path>>
    BY <1>12 DEF Lock!Killed
  <2> QED
    BY <2>1 DEF Lock!Unlocked
<1> QED
  BY <1>1, <1>2, <1>3, <1>4, <1>5, <1>6, <1>7, <1>8, <1>9, <1>10, <1>11, <1>12

\* What a --fresh has begun is never undone: once it is as far as its wipe, it wipes,
\* has wiped, or is over.
LEMMA GoneStays == LockInv /\ Lock!Next /\ Gone => Gone'
<1> SUFFICES ASSUME LockInv, Gone, NEW p \in Lock!Processes,
                    \/ Lock!Start(p) \/ Lock!Open(p) \/ Lock!Lock(p) \/ Lock!Refuse(p)
                    \/ Lock!Name(p) \/ Lock!Work(p) \/ Lock!Release(p) \/ Lock!WipeFiles(p)
                    \/ Lock!WipeLock(p) \/ Lock!RemoveDirectory(p) \/ Lock!Finish(p)
                    \/ Lock!Killed(p)
             PROVE  Gone'
  BY DEF Lock!Next
<1> PICK f \in Fresh : step[f] \in Lock!Wiping \cup {"failed", "done"} \/ f \in wiped
  BY DEF Gone
<1> SUFFICES step'[f] \in Lock!Wiping \cup {"failed", "done"} \/ f \in wiped'
  BY DEF Gone, Lock!Wiping
<1> USE LockConstantsHold
    DEF LockInv, Lock!TypeOK, Lock!Goto, Lock!At, Lock!Wiping
<1>1. CASE Lock!Start(p) \/ Lock!Open(p) \/ Lock!Lock(p) \/ Lock!Name(p) \/ Lock!Work(p)
  BY <1>1 DEF Lock!Start, Lock!Open, Lock!Lock, Lock!Name, Lock!Work
<1>2. CASE Lock!Refuse(p)
  BY <1>2 DEF Lock!Refuse, Lock!Refusing
<1>3. CASE Lock!Release(p) \/ Lock!WipeFiles(p) \/ Lock!WipeLock(p)
  BY <1>3 DEF Lock!Release, Lock!WipeFiles, Lock!WipeLock
<1>4. CASE Lock!RemoveDirectory(p)
  BY <1>4 DEF Lock!RemoveDirectory
<1>5. CASE Lock!Finish(p) \/ Lock!Killed(p)
  BY <1>5 DEF Lock!Finish, Lock!Killed
<1> QED
  BY <1>1, <1>2, <1>3, <1>4, <1>5

\* A second lock file needs a first one that a --fresh removed.
LEMMA LockFiles == LockInv /\ Lock!Next => OneFile'
<1> SUFFICES ASSUME LockInv, ~Gone', NEW p \in Lock!Processes,
                    \/ Lock!Start(p) \/ Lock!Open(p) \/ Lock!Lock(p) \/ Lock!Refuse(p)
                    \/ Lock!Name(p) \/ Lock!Work(p) \/ Lock!Release(p) \/ Lock!WipeFiles(p)
                    \/ Lock!WipeLock(p) \/ Lock!RemoveDirectory(p) \/ Lock!Finish(p)
                    \/ Lock!Killed(p)
             PROVE  \A q \in Lock!Processes : handle'[q] \in {None, path'}
  BY DEF Lock!Next, OneFile
<1>1. ~Gone
  BY GoneStays DEF Lock!Next
<1>2. \A q \in Lock!Processes : handle[q] \in {None, path}
  BY <1>1 DEF LockInv, OneFile
<1>3. /\ handle \in [Lock!Processes -> Lock!Inodes \cup {None}]
      /\ step \in [Lock!Processes -> Lock!Steps]
  BY DEF LockInv, Lock!TypeOK
<1>4. CASE Lock!WipeLock(p)
  <2>1. p \in Fresh /\ step[p] \in Lock!Wiping
    BY <1>4 DEF Lock!WipeLock, LockInv, Owned, Lock!Wiping
  <2> QED
    BY <1>1, <2>1 DEF Gone
<1>5. CASE Lock!Open(p)
  BY <1>2, <1>3, <1>5 DEF Lock!Open
<1>6. CASE \/ Lock!Start(p) \/ Lock!Lock(p) \/ Lock!Name(p) \/ Lock!Work(p)
           \/ Lock!WipeFiles(p) \/ Lock!RemoveDirectory(p)
  BY <1>2, <1>6
     DEF Lock!Start, Lock!Lock, Lock!Name, Lock!Work, Lock!WipeFiles, Lock!RemoveDirectory,
         Lock!lockfile
<1>7. CASE Lock!Refuse(p) \/ Lock!Release(p) \/ Lock!Finish(p) \/ Lock!Killed(p)
  BY <1>2, <1>3, <1>7
     DEF Lock!Refuse, Lock!Release, Lock!Finish, Lock!Killed, Lock!Ended, Lock!Unlocked,
         Lock!lockfile
<1> QED
  BY <1>4, <1>5, <1>6, <1>7

\* Whatever else moves leaves the lock's invariant alone.
LEMMA LockRests == LockInv /\ UNCHANGED lockVars => LockInv'
BY DEF LockInv, Lock!TypeOK, Owned, OneFile, Gone, lockVars

\* The lock's invariant holds across every step of the composition.
LEMMA LockStep == LockInv /\ [Next]_vars => LockInv'
<1> SUFFICES ASSUME LockInv, [Next]_vars PROVE LockInv'
  OBVIOUS
<1>1. CASE Claim
  BY <1>1, LockTypes, LockOwners, LockFiles DEF Claim, LockInv
<1>2. CASE UNCHANGED lockVars
  BY <1>2, LockRests
<1> QED
  BY <1>1, <1>2 DEF Next, Call, Absorb, Answer, vars

\* The invariant gives what the run checks: two writers hold two files, of which one is
\* no longer the workspace's, and who is gone owns none.
LEMMA LockIsOneWriter == LockInv => OneWriterUntilWiped
<1> SUFFICES ASSUME LockInv PROVE Lock!OneWriterUntilWiped /\ Lock!TheDeadHoldNothing
  BY DEF OneWriterUntilWiped, LockInv
<1>1. Lock!OneWriterUntilWiped
  <2> SUFFICES ASSUME NEW p \in Lock!Processes, NEW q \in Lock!Processes, p # q,
                      step[p] \in Holding, step[q] \in Holding
               PROVE  handle[p] # handle[q] /\ Gone
    BY DEF Lock!OneWriterUntilWiped, Lock!Writes, Holding, Gone, Lock!Wiping
  <2>1. handle[p] # handle[q] /\ handle[p] # None /\ handle[q] # None
    BY LockConstantsHold DEF LockInv, Owned
  <2> QED
    BY <2>1 DEF LockInv, OneFile
<1>2. Lock!TheDeadHoldNothing
  BY DEF LockInv, Owned, Holding, Lock!TheDeadHoldNothing, Lock!Wiping
<1> QED
  BY <1>1, <1>2

\* Two processes write one workspace only where a --fresh took the lock file away under
\* one of them, and the dead hold nothing, for any number of commands, servers and lock
\* files (lock.py:8, 30-48, slice.py:299-302).
THEOREM LockIsExclusive == Spec => []OneWriterUntilWiped
<1>1. Init => LockInv
  BY LockInit
<1>2. LockInv /\ [Next]_vars => LockInv'
  BY LockStep
<1> QED
  BY <1>1, <1>2, LockIsOneWriter, PTL DEF Spec

-----------------------------------------------------------------------------
(* The operator's exchange                                                 *)

\* Past the number the server counts to, nothing is on disk.
Beyond == up => \A n \in Exchange!Numbers : n > counter => request[n] = None /\ response[n] = None

\* A request is under its own number, and what the operator has read and what a thread
\* waits for are requests as they are on disk.
Filed ==
    /\ \A n \in Exchange!Numbers : request[n] # None => request[n].seq = n
    /\ desk # None => request[desk.seq] = desk
    /\ \A t \in Threads : wait[t] # None => request[wait[t].seq] = wait[t]

\* An answer that names the number it is saved under was given for the request there,
\* and so was every answer a thread has taken.
Matched ==
    /\ \A n \in Exchange!Numbers : response[n] \in Exchange!Answers /\ response[n].seq = n =>
          request[n] # None /\ response[n].for = request[n].id
    /\ \A r \in results : r.answered = r.asked

\* As many calls have been made as the count says, and the files remember it.
Counted ==
    /\ up => calls <= counter
    /\ calls > 0 => \E n \in Exchange!Numbers : n >= calls /\ request[n] # None

ExchangeInv == Exchange!TypeOK /\ Beyond /\ Filed /\ Matched /\ Counted

\* What is assumed of the exchange's constants.
LEMMA ExchangeConstants ==
    /\ Named \in Nat /\ MaxSeq \in Nat /\ MaxBad \in Nat /\ MaxStops \in Nat
    /\ MaxStops * MaxSeq \in Nat
    /\ None \notin Exchange!Requests /\ None \notin Exchange!Answers /\ Half \notin Exchange!Answers
    /\ Exchange!Numbers = 1..MaxSeq
<1>1. /\ Named \in Nat /\ MaxSeq \in Nat /\ MaxBad \in Nat /\ MaxStops \in Nat
      /\ None \notin Exchange!Requests /\ None \notin Exchange!Answers /\ Half \notin Exchange!Answers
      /\ Exchange!Numbers = 1..MaxSeq
  BY WalkConstants DEF Exchange!HandoffAssumption, Exchange!Numbers
<1>2. \A i, j \in Nat : i * j \in Nat
  OBVIOUS
<1> QED
  BY <1>1, <1>2

\* A set of numbers with a bound that is not empty has a greatest one.
LEMMA MaxFacts ==
    ASSUME NEW N \in Nat, NEW S \in SUBSET (0..N), S # {}
    PROVE  Exchange!Max(S) \in S /\ \A y \in S : y <= Exchange!Max(S)
<1> DEFINE Less == OpToRel(<, Nat)
           T == {N - x : x \in S}
<1>1. T \subseteq Nat /\ T # {}
  <2>1. \A x \in S : x \in 0..N /\ N - x \in Nat
    OBVIOUS
  <2> QED
    BY <2>1
<1>2. IsWellFoundedOn(Less, Nat)
  BY NatLessThanWellFounded
<1>3. PICK z \in T : \A y \in T : ~(<<y, z>> \in Less)
  <2> HIDE DEF Less, T
  <2> QED
    BY <1>1, <1>2, WFMin
<1>4. \A y \in T : z <= y
  <2>1. \A y \in T : ~(y < z)
    BY <1>1, <1>3 DEF OpToRel
  <2> QED
    BY <1>1, <2>1
<1>5. PICK x \in S : z = N - x
  OBVIOUS
<1>6. \A y \in S : x >= y
  <2> SUFFICES ASSUME NEW y \in S PROVE x >= y
    OBVIOUS
  <2>1. N - y \in T
    OBVIOUS
  <2>2. N - x <= N - y
    BY <1>4, <1>5, <2>1
  <2> QED
    BY <2>2
<1>7. Exchange!Max(S) \in S /\ \A y \in S : Exchange!Max(S) >= y
  BY <1>6 DEF Exchange!Max
<1> QED
  BY <1>7

\* While the scan of the directory recognises every number, a server that starts counts
\* from the highest one on disk.
LEMMA HighestFacts ==
    ASSUME MaxSeq <= Named
    PROVE  /\ Exchange!Highest \in 0..MaxSeq
           /\ \A n \in Exchange!Numbers : Exchange!Exists(n) => n <= Exchange!Highest
<1> DEFINE S == {0} \cup {n \in Exchange!Numbers : n <= Named /\ Exchange!Exists(n)}
<1>1. MaxSeq \in Nat /\ S \in SUBSET (0..MaxSeq) /\ S # {}
  BY ExchangeConstants
<1>2. \A n \in Exchange!Numbers : Exchange!Exists(n) => n \in S
  BY ExchangeConstants
<1> HIDE DEF S
<1>3. Exchange!Max(S) \in S /\ \A y \in S : y <= Exchange!Max(S)
  BY <1>1, MaxFacts
<1>4. Exchange!Highest = Exchange!Max(S)
  BY DEF Exchange!Highest, S
<1> QED
  BY <1>1, <1>2, <1>3, <1>4

\* Nothing is on disk, and no server runs.
LEMMA ExchangeInit == Init => ExchangeInv
<1> SUFFICES ASSUME Exchange!Init PROVE ExchangeInv
  BY DEF Init
<1>1. Exchange!TypeOK
  <2>1. 0 \in 0..MaxSeq + MaxStops * MaxSeq /\ 0 \in 0..MaxSeq /\ 0 \in 0..MaxBad /\ 0 \in 0..MaxStops
    BY ExchangeConstants
  <2> QED
    BY <2>1 DEF Exchange!Init, Exchange!TypeOK
<1>2. Beyond /\ Filed /\ Counted
  BY DEF Exchange!Init, Beyond, Filed, Counted
<1>3. Matched
  BY ExchangeConstants DEF Exchange!Init, Matched
<1> QED
  BY <1>1, <1>2, <1>3 DEF ExchangeInv

\* A server that starts finds nothing past the number it starts from.
LEMMA StartStep == MaxSeq <= Named /\ ExchangeInv /\ Exchange!Start => ExchangeInv'
<1> SUFFICES ASSUME MaxSeq <= Named, ExchangeInv, Exchange!Start PROVE ExchangeInv'
  OBVIOUS
<1>1. /\ Exchange!Highest \in 0..MaxSeq
      /\ \A n \in Exchange!Numbers : Exchange!Exists(n) => n <= Exchange!Highest
  BY HighestFacts
<1>2. /\ up' = TRUE /\ counter' = Exchange!Highest
      /\ UNCHANGED <<request, response, wait, desk, results, calls, bad, stops>>
  BY DEF Exchange!Start, Exchange!files
<1> DEFINE h == Exchange!Highest
<1> HIDE DEF h
<1>3. h \in 0..MaxSeq /\ counter' = h
  BY <1>1, <1>2 DEF h
<1>4. \A n \in Exchange!Numbers : request[n] # None \/ response[n] # None => n <= h
  BY <1>1 DEF h, Exchange!Exists
<1>5. Exchange!TypeOK'
  BY <1>2, <1>3 DEF ExchangeInv, Exchange!TypeOK
<1>6. Beyond' /\ Counted'
  BY <1>2, <1>3, <1>4, ExchangeConstants DEF Beyond, Counted, ExchangeInv, Exchange!TypeOK
<1>7. Filed' /\ Matched'
  BY <1>2 DEF ExchangeInv, Filed, Matched
<1> QED
  BY <1>5, <1>6, <1>7 DEF ExchangeInv

\* A new request goes where nothing is.
LEMMA IssueStep ==
    ASSUME ExchangeInv, NEW t \in Threads, NEW agent \in Agents, Exchange!Issue(t, agent)
    PROVE  ExchangeInv'
<1> DEFINE k == counter + 1
           asked == [seq |-> k, agent |-> agent, id |-> calls + 1]
<1>1. /\ up /\ counter < MaxSeq /\ counter' = k /\ calls' = calls + 1
      /\ request' = [request EXCEPT ![k] = asked] /\ wait' = [wait EXCEPT ![t] = asked]
      /\ UNCHANGED <<up, response, desk, results, bad, stops>>
  BY DEF Exchange!Issue
<1>2. /\ k \in Exchange!Numbers /\ calls \in Nat /\ counter \in 0..MaxSeq /\ k > counter
      /\ calls <= counter
  BY <1>1, ExchangeConstants DEF ExchangeInv, Exchange!TypeOK, Counted
<1>3. asked \in Exchange!Requests /\ asked.seq = k /\ asked.id = calls + 1
  BY <1>2 DEF Exchange!Requests
<1> HIDE DEF asked
<1>4. asked # None /\ request[k] = None /\ response[k] = None
  BY <1>1, <1>2, <1>3, ExchangeConstants DEF ExchangeInv, Beyond
<1>5. /\ \A n \in Exchange!Numbers : request'[n] = IF n = k THEN asked ELSE request[n]
      /\ \A u \in Threads : wait'[u] = IF u = t THEN asked ELSE wait[u]
  BY <1>1, <1>2 DEF ExchangeInv, Exchange!TypeOK
<1>6. Exchange!TypeOK'
  <2>1. calls' \in 0..MaxSeq + MaxStops * MaxSeq /\ counter' \in 0..MaxSeq
    BY <1>1, <1>2, ExchangeConstants
  <2>2. request' \in [Exchange!Numbers -> Exchange!Requests \cup {None}]
    BY <1>1, <1>2, <1>3 DEF ExchangeInv, Exchange!TypeOK
  <2>3. wait' \in [Threads -> Exchange!Requests \cup {None}]
    BY <1>1, <1>3 DEF ExchangeInv, Exchange!TypeOK
  <2> QED
    BY <1>1, <2>1, <2>2, <2>3 DEF ExchangeInv, Exchange!TypeOK
<1>7. Beyond'
  BY <1>1, <1>2, <1>5, ExchangeConstants DEF ExchangeInv, Beyond
<1>8. Filed'
  <2>1. \A n \in Exchange!Numbers : request'[n] # None => request'[n].seq = n
    BY <1>3, <1>5 DEF ExchangeInv, Filed
  <2>2. \A r \in Exchange!Requests : request[r.seq] = r => request'[r.seq] = r
    <3> SUFFICES ASSUME NEW r \in Exchange!Requests, request[r.seq] = r
                 PROVE  request'[r.seq] = r
      OBVIOUS
    <3>1. r.seq \in Exchange!Numbers /\ r # None
      BY ExchangeConstants DEF Exchange!Requests
    <3> QED
      BY <1>4, <1>5, <3>1
  <2>3. request'[asked.seq] = asked
    BY <1>2, <1>3, <1>5
  <2> QED
    BY <1>1, <1>5, <2>1, <2>2, <2>3 DEF ExchangeInv, Filed, Exchange!TypeOK
<1>9. Matched'
  BY <1>1, <1>4, <1>5, ExchangeConstants DEF ExchangeInv, Matched
<1>10. Counted'
  BY <1>1, <1>2, <1>4, <1>5 DEF Counted
<1> QED
  BY <1>6, <1>7, <1>8, <1>9, <1>10 DEF ExchangeInv

\* A thread takes an answer only where it names the number of its request.
LEMMA AcceptStep ==
    ASSUME ExchangeInv, NEW t \in Threads, Exchange!Accept(t) \/ Exchange!Expire(t)
    PROVE  ExchangeInv'
<1>1. /\ wait' = [wait EXCEPT ![t] = None] /\ wait[t] # None
      /\ UNCHANGED <<up, counter, request, response, desk, calls, bad, stops>>
  BY DEF Exchange!Accept, Exchange!Expire, Exchange!files
<1>2. \A u \in Threads : wait'[u] = IF u = t THEN None ELSE wait[u]
  BY <1>1 DEF ExchangeInv, Exchange!TypeOK
<1>3. /\ results' \subseteq [seq : Exchange!Numbers, asked : Nat, answered : Nat]
      /\ \A r \in results' : r.answered = r.asked
  <2>1. CASE UNCHANGED results
    BY <2>1 DEF ExchangeInv, Exchange!TypeOK, Matched
  <2>2. CASE ~ UNCHANGED results
    <3>1. Exchange!Accept(t)
      BY <2>2 DEF Exchange!Expire
    <3>2. PICK n \in Exchange!Ready(wait[t]) :
             /\ Exchange!EchoHolds(response[n], wait[t])
             /\ results' = results \cup {[seq |-> n, asked |-> wait[t].id,
                                          answered |-> response[n].for]}
      BY <2>2, <3>1 DEF Exchange!Accept
    <3>3. wait[t] \in Exchange!Requests /\ request[wait[t].seq] = wait[t]
      BY <1>1 DEF ExchangeInv, Exchange!TypeOK, Filed
    <3>4. n \in Exchange!Numbers /\ n = wait[t].seq /\ response[n] \in Exchange!Answers
      BY <3>2 DEF Exchange!Ready
    <3>5. response[n].seq = n
      BY <3>2, <3>4 DEF Exchange!EchoHolds
    <3>6. response[n].for = wait[t].id
      BY <3>3, <3>4, <3>5 DEF ExchangeInv, Matched
    <3>7. wait[t].id \in Nat
      BY <3>3 DEF Exchange!Requests
    <3> QED
      BY <3>2, <3>4, <3>6, <3>7 DEF ExchangeInv, Exchange!TypeOK, Matched
  <2> QED
    BY <2>1, <2>2
<1>4. Exchange!TypeOK'
  BY <1>1, <1>3 DEF ExchangeInv, Exchange!TypeOK
<1>5. Beyond' /\ Counted'
  BY <1>1 DEF ExchangeInv, Beyond, Counted
<1>6. Filed' /\ Matched'
  BY <1>1, <1>2, <1>3 DEF ExchangeInv, Filed, Matched
<1> QED
  BY <1>4, <1>5, <1>6 DEF ExchangeInv

\* The operator reads a request, ...
LEMMA ReadStep ==
    ASSUME ExchangeInv, NEW n \in Exchange!Numbers, Exchange!Read(n) PROVE ExchangeInv'
<1>1. /\ request[n] # None /\ desk' = request[n]
      /\ UNCHANGED <<up, counter, request, response, wait, results, calls, bad, stops>>
  BY DEF Exchange!Read, Exchange!files
<1>2. request[n] \in Exchange!Requests /\ request[n].seq = n
  BY <1>1 DEF ExchangeInv, Exchange!TypeOK, Filed
<1>3. Exchange!TypeOK'
  BY <1>1, <1>2 DEF ExchangeInv, Exchange!TypeOK
<1>4. Filed'
  BY <1>1, <1>2 DEF ExchangeInv, Filed
<1> QED
  BY <1>1, <1>3, <1>4 DEF ExchangeInv, Beyond, Matched, Counted

\* ... and an answer saved under a number carries the number and the call of the request
\* that the operator read: it matches there, or it names another number.
LEMMA SaveStep ==
    ASSUME ExchangeInv, NEW n \in Exchange!Numbers, NEW usable \in BOOLEAN, desk # None,
           request[n] # None,
           response' = [response EXCEPT ![n] =
              [seq |-> desk.seq, agent |-> desk.agent, for |-> desk.id, usable |-> usable]],
           desk' = None, bad' \in 0..MaxBad,
           UNCHANGED <<up, counter, request, wait, results, calls, stops>>
    PROVE  ExchangeInv'
<1> DEFINE saved == [seq |-> desk.seq, agent |-> desk.agent, for |-> desk.id, usable |-> usable]
<1>1. desk \in Exchange!Requests /\ request[desk.seq] = desk
  BY DEF ExchangeInv, Exchange!TypeOK, Filed
<1>2. saved \in Exchange!Answers /\ saved.seq = desk.seq /\ saved.for = desk.id
  BY <1>1 DEF Exchange!Requests, Exchange!Answers
<1>3. response' = [response EXCEPT ![n] = saved]
  OBVIOUS
<1> HIDE DEF saved
<1>4. \A m \in Exchange!Numbers : response'[m] = IF m = n THEN saved ELSE response[m]
  BY <1>3 DEF ExchangeInv, Exchange!TypeOK
<1>5. Exchange!TypeOK'
  BY <1>2, <1>3 DEF ExchangeInv, Exchange!TypeOK
<1>6. Beyond'
  BY <1>4 DEF ExchangeInv, Beyond
<1>7. Matched'
  BY <1>1, <1>2, <1>4 DEF ExchangeInv, Matched
<1> QED
  BY <1>5, <1>6, <1>7 DEF ExchangeInv, Filed, Counted

\* The other steps of the operator and the stop of the server.
LEMMA OperatorStep ==
    ASSUME ExchangeInv, Exchange!WriteHalf \/ Exchange!Write \/ Exchange!Stop
    PROVE  ExchangeInv'
<1>1. CASE Exchange!WriteHalf
  <2>1. desk # None /\ desk \in Exchange!Requests /\ request[desk.seq] = desk
    BY <1>1 DEF Exchange!WriteHalf, ExchangeInv, Exchange!TypeOK, Filed
  <2> DEFINE k == desk.seq
  <2>2. k \in Exchange!Numbers /\ request[k] # None
    BY <2>1 DEF Exchange!Requests
  <2>3. /\ response' = [response EXCEPT ![k] = Half]
        /\ UNCHANGED <<up, counter, request, wait, desk, results, calls, bad, stops>>
    BY <1>1 DEF Exchange!WriteHalf
  <2> HIDE DEF k
  <2>4. \A m \in Exchange!Numbers : response'[m] = IF m = k THEN Half ELSE response[m]
    BY <2>3 DEF ExchangeInv, Exchange!TypeOK
  <2>5. Exchange!TypeOK'
    BY <2>3 DEF ExchangeInv, Exchange!TypeOK
  <2>6. Beyond' /\ Matched'
    BY <2>2, <2>3, <2>4, ExchangeConstants DEF ExchangeInv, Beyond, Matched
  <2> QED
    BY <2>3, <2>5, <2>6 DEF ExchangeInv, Filed, Counted
<1>2. CASE Exchange!Write
  <2>1. desk # None /\ desk \in Exchange!Requests /\ request[desk.seq] = desk
    BY <1>2 DEF Exchange!Write, ExchangeInv, Exchange!TypeOK, Filed
  <2>2. desk.seq \in Exchange!Numbers /\ request[desk.seq] # None
    BY <2>1 DEF Exchange!Requests
  <2>3. bad' \in 0..MaxBad
    BY <1>2 DEF Exchange!Write, ExchangeInv, Exchange!TypeOK
  <2> QED
    BY <1>2, <2>1, <2>2, <2>3, SaveStep DEF Exchange!Write
<1>3. CASE Exchange!Stop
  <2>1. /\ stops < MaxStops /\ stops' = stops + 1 /\ up' = FALSE /\ counter' = 0
        /\ wait' = [u \in Threads |-> None]
        /\ UNCHANGED <<request, response, desk, results, calls, bad>>
    BY <1>3 DEF Exchange!Stop, Exchange!files
  <2>2. Exchange!TypeOK'
    <3>1. stops' \in 0..MaxStops /\ counter' \in 0..MaxSeq
      BY <2>1, ExchangeConstants DEF ExchangeInv, Exchange!TypeOK
    <3> QED
      BY <2>1, <3>1 DEF ExchangeInv, Exchange!TypeOK
  <2> QED
    BY <2>1, <2>2 DEF ExchangeInv, Beyond, Filed, Matched, Counted
<1> QED
  BY <1>1, <1>2, <1>3

\* An answer saved under another request's number.
LEMMA MisplaceStep ==
    ASSUME ExchangeInv, NEW n \in Exchange!Numbers, Exchange!Misplace(n) PROVE ExchangeInv'
<1>1. PICK usable \in BOOLEAN : response' = [response EXCEPT ![n] =
         [seq |-> desk.seq, agent |-> desk.agent, for |-> desk.id, usable |-> usable]]
  BY DEF Exchange!Misplace
<1>2. bad' \in 0..MaxBad
  BY ExchangeConstants DEF Exchange!Misplace, ExchangeInv, Exchange!TypeOK
<1> QED
  BY <1>1, <1>2, SaveStep DEF Exchange!Misplace

\* The exchange's invariant holds across every step of the composition.
LEMMA ExchangeStep == MaxSeq <= Named /\ ExchangeInv /\ [Next]_vars => ExchangeInv'
<1> SUFFICES ASSUME MaxSeq <= Named, ExchangeInv, [Next]_vars PROVE ExchangeInv'
  OBVIOUS
<1>1. CASE Answer
  <2>1. Exchange!Next
    BY <1>1 DEF Answer
  <2> QED
    BY <2>1, StartStep, IssueStep, AcceptStep, ReadStep, OperatorStep, MisplaceStep
       DEF Exchange!Next
<1>2. CASE UNCHANGED exchangeVars
  BY <1>2
     DEF exchangeVars, ExchangeInv, Exchange!TypeOK, Beyond, Filed, Matched, Counted
<1> QED
  BY <1>1, <1>2 DEF Next, Call, Absorb, Claim, vars

\* No step of the composition writes a request over another.
LEMMA PairsStandStep ==
    ExchangeInv /\ [Next]_vars =>
        [\A n \in Exchange!Numbers : request[n] # None => request'[n] = request[n]]_Exchange!vars
<1> SUFFICES ASSUME ExchangeInv, Exchange!Next, NEW n \in Exchange!Numbers, request[n] # None
             PROVE  request'[n] = request[n]
  BY DEF Next, Call, Absorb, Claim, Answer, vars, exchangeVars, Exchange!vars
<1>1. CASE \E t \in Threads : \E agent \in Agents : Exchange!Issue(t, agent)
  <2>1. request'[n] = request[n] \/ n = counter + 1
    BY <1>1 DEF Exchange!Issue, ExchangeInv, Exchange!TypeOK
  <2>2. up /\ counter \in Nat
    BY <1>1 DEF Exchange!Issue, ExchangeInv, Exchange!TypeOK
  <2>3. ~(n > counter)
    BY <2>2 DEF ExchangeInv, Beyond
  <2> QED
    BY <2>1, <2>2, <2>3
<1>2. CASE UNCHANGED request
  BY <1>2
<1> QED
  BY <1>1, <1>2
     DEF Exchange!Next, Exchange!Start, Exchange!Stop, Exchange!WriteHalf, Exchange!Write,
         Exchange!Accept, Exchange!Expire, Exchange!Read, Exchange!Misplace, Exchange!files

\* As long as the numbers stay below what the scan of the directory recognises, every
\* answer a thread accepts was given for its question, across timeouts, retries and
\* restarts, and no request is overwritten (handoff.py:95-175).
THEOREM EveryAnswerIsItsOwn == MaxSeq <= Named /\ Spec => AnswersItsQuestion
<1> SUFFICES ASSUME MaxSeq <= Named PROVE Spec => AnswersItsQuestion
  OBVIOUS
<1>1. Init => ExchangeInv
  BY ExchangeInit
<1>2. ExchangeInv /\ [Next]_vars => ExchangeInv'
  BY ExchangeStep
<1>3. ExchangeInv => Exchange!TypeOK /\ Exchange!AnswersItsQuestion
  BY DEF ExchangeInv, Matched, Exchange!AnswersItsQuestion
<1>4. ExchangeInv /\ [Next]_vars =>
        [\A n \in Exchange!Numbers : request[n] # None => request'[n] = request[n]]_Exchange!vars
  BY PairsStandStep
<1> QED
  BY <1>1, <1>2, <1>3, <1>4, PTL DEF Spec, AnswersItsQuestion, Exchange!PairsStand

-----------------------------------------------------------------------------
(* The learners                                                            *)

Reading == [records : SUBSET (Pursuits \X Cards), alias : BOOLEAN]
Told(x) == x.did \in Learn!Ran /\ x.ids \subseteq Learn!Proposals
Opened(q) == proposal[q] # "absent"
Elems(s) == {s[i] : i \in 1..Len(s)}
GapsOf(p) == {g \in Gaps \cap given : Of[g] = p}
NoNameLeft(g) ==
    \A q \in Learn!Prior(g) : proposal[q] = "proposed" => Learn!Clean(g, q.clean)

LearnTypes ==
    /\ Learn!TypeOK /\ seen \in [Pursuits -> Reading \cup {None}]
    /\ learner \in [Pursuits -> {"idle", "read", "wait", "open", "mark", "gaps", "signals"}]

\* What an event's line says was opened is in the store, a gap with a proposal is
\* answered, and it has one proposal that is not voided.
Lessons ==
    /\ \A e \in Events : routing[e] # None => \A q \in routing[e].ids : Opened(q)
    /\ \A q \in Learn!Proposals : Opened(q) /\ q.source \in Gaps => q.source \in given
    /\ \A g \in Gaps : \A q, r \in Learn!Prior(g) :
          proposal[q] # "voided" /\ proposal[r] # "voided" => q = r

\* What the learner that holds the lock has in hand at each of its stages: proposals
\* that are in the store or still to open, events all of whose proposals are opened,
\* answered gaps of which those that are done carry no name.
InHand(p) ==
    /\ learner[p] \in {"wait", "open", "mark", "gaps", "signals"} => seen[p] \in Reading
    /\ learner[p] \in {"open", "mark"} =>
          DOMAIN routed \subseteq Events \cap given /\ \A e \in DOMAIN routed : Told(routed[e])
    /\ learner[p] = "open" =>
          /\ due \in Seq(Learn!Proposals) /\ \A q \in Elems(due) : q.source \in Events
          /\ \A e \in DOMAIN routed : \A q \in routed[e].ids : Opened(q) \/ q \in Elems(due)
    /\ learner[p] = "mark" =>
          /\ due \in Seq(DOMAIN routed)
          /\ \A e \in DOMAIN routed : \A q \in routed[e].ids : Opened(q)
    /\ learner[p] = "gaps" =>
          /\ due \in Seq(Gaps \cap given)
          /\ seen[p].alias => \A g \in GapsOf(p) : g \in Elems(due) \/ NoNameLeft(g)
    /\ learner[p] = "signals" =>
          /\ due \in Seq(Cards)
          /\ seen[p].alias => \A g \in GapsOf(p) : NoNameLeft(g)

LearnInv == LearnTypes /\ Lessons /\ \A p \in Pursuits : InHand(p)

\* What is assumed of the learners' constants.
LEMMA LearnConstantsHold ==
    /\ Of \in [Events \cup Gaps -> Pursuits] /\ Events \cap Gaps = {} /\ None \notin Pursuits
    /\ IsFiniteSet(Events) /\ IsFiniteSet(Gaps) /\ IsFiniteSet(Cards)
BY WalkConstants DEF Learn!LearnConstants, Learn!IsFiniteSet, IsFiniteSet

\* The same cardinality, under the name it has in the learners' module.
LEMMA SameCardinality == \A S : Learn!Cardinality(S) = Cardinality(S)
BY DEF Learn!Cardinality, Cardinality

\* A finite set written out as a sequence has the elements of the set.
LEMMA SetToSeqFacts ==
    ASSUME NEW S, IsFiniteSet(S)
    PROVE  Learn!SetToSeq(S) \in Seq(S) /\ Elems(Learn!SetToSeq(S)) = S
<1> DEFINE n == Cardinality(S)
           f == Learn!SetToSeq(S)
<1>1. n \in Nat /\ ExistsBijection(1..n, S)
  BY FS_CardinalityType
<1>2. PICK b \in [1..n -> S] : b \in Injection(1..n, S)
  BY <1>1 DEF ExistsBijection, Bijection, Injection
<1>3. Learn!IsInjective(b)
  BY <1>2 DEF Injection, IsInjective, Learn!IsInjective
<1>4. f \in [1..n -> S] /\ Learn!IsInjective(f)
  BY <1>2, <1>3, SameCardinality DEF Learn!SetToSeq
<1>5. f \in Injection(1..n, S)
  BY <1>4 DEF Injection, IsInjective, Learn!IsInjective
<1>6. Cardinality(1..n) = n
  BY <1>1, FS_Interval
<1>7. f \in Surjection(1..n, S)
  BY <1>5, <1>6, FS_Injection
<1>8. \A x \in S : \E i \in 1..n : f[i] = x
  BY <1>7 DEF Surjection
<1> HIDE DEF f
<1>9. f \in Seq(S) /\ Len(f) = n
  BY <1>1, <1>4
<1>10. Elems(f) = S
  BY <1>4, <1>8, <1>9 DEF Elems
<1> QED
  BY <1>9, <1>10 DEF f

\* A sequence holds its head and what its tail holds.
LEMMA ElemsFacts ==
    ASSUME NEW S, NEW s \in Seq(S)
    PROVE  /\ Elems(s) \subseteq S
           /\ s # <<>> => /\ Head(s) \in S /\ Tail(s) \in Seq(S) /\ Head(s) \in Elems(s)
                          /\ Elems(s) = {Head(s)} \cup Elems(Tail(s))
<1>1. Elems(s) \subseteq S
  BY DEF Elems
<1>2. ASSUME s # <<>>
      PROVE  /\ Head(s) \in S /\ Tail(s) \in Seq(S) /\ Head(s) \in Elems(s)
             /\ Elems(s) = {Head(s)} \cup Elems(Tail(s))
  <2>1. /\ Len(s) \in Nat \ {0} /\ Head(s) = s[1] /\ Tail(s) \in Seq(S)
        /\ Len(Tail(s)) = Len(s) - 1 /\ s[1] \in S
    BY <1>2
  <2>2. \A i \in 1..Len(s) - 1 : Tail(s)[i] = s[i + 1]
    BY <1>2
  <2>3. \A i \in 1..Len(s) : i = 1 \/ (i - 1 \in 1..Len(s) - 1 /\ Tail(s)[i - 1] = s[i])
    <3> SUFFICES ASSUME NEW i \in 1..Len(s), i # 1
                 PROVE  i - 1 \in 1..Len(s) - 1 /\ Tail(s)[i - 1] = s[i]
      OBVIOUS
    <3>1. i - 1 \in 1..Len(s) - 1 /\ (i - 1) + 1 = i
      BY <2>1
    <3> QED
      BY <2>2, <3>1
  <2>4. Elems(s) \subseteq {Head(s)} \cup Elems(Tail(s))
    BY <2>1, <2>3 DEF Elems
  <2>5. Elems(Tail(s)) \subseteq Elems(s)
    <3> SUFFICES ASSUME NEW i \in 1..Len(s) - 1 PROVE s[i + 1] \in Elems(s)
      BY <2>1, <2>2 DEF Elems
    <3>1. i + 1 \in 1..Len(s)
      BY <2>1
    <3> QED
      BY <3>1 DEF Elems
  <2>6. s[1] \in Elems(s)
    BY <2>1 DEF Elems
  <2> QED
    BY <2>1, <2>4, <2>5, <2>6
<1> QED
  BY <1>1, <1>2

\* The empty sequence holds nothing.
LEMMA ElemsOfEmpty == Elems(<<>>) = {}
BY DEF Elems

\* There are finitely many proposals.
LEMMA ProposalsFinite == IsFiniteSet(Learn!Proposals)
<1> DEFINE A == Events \cup Gaps
           B == Cards \cup {None}
           S == A \X (B \X BOOLEAN)
           f == [x \in S |-> [source |-> x[1], card |-> x[2][1], clean |-> x[2][2]]]
<1>1. IsFiniteSet(A) /\ IsFiniteSet(B)
  BY LearnConstantsHold, FS_Union, FS_AddElement
<1>2. IsFiniteSet(BOOLEAN)
  <2>1. BOOLEAN = {TRUE} \cup {FALSE}
    OBVIOUS
  <2>2. IsFiniteSet({TRUE}) /\ IsFiniteSet({FALSE})
    BY FS_Singleton
  <2>3. IsFiniteSet({TRUE} \cup {FALSE})
    BY <2>2, FS_Union
  <2> QED
    BY <2>1, <2>3
<1> HIDE DEF A, B
<1>3. IsFiniteSet(B \X BOOLEAN)
  BY <1>1, <1>2, FS_Product
<1>4. IsFiniteSet(S)
  BY <1>1, <1>3, FS_Product
<1>5. f \in [S -> Learn!Proposals]
  BY DEF Learn!Proposals, A, B
<1>6. ASSUME NEW q \in Learn!Proposals PROVE \E x \in S : f[x] = q
  <2>1. /\ q.source \in A /\ q.card \in B /\ q.clean \in BOOLEAN
        /\ q = [source |-> q.source, card |-> q.card, clean |-> q.clean]
    BY DEF Learn!Proposals, A, B
  <2>2. <<q.source, <<q.card, q.clean>>>> \in S
    BY <2>1
  <2> QED
    BY <2>1, <2>2
<1>7. f \in Surjection(S, Learn!Proposals)
  BY <1>5, <1>6 DEF Surjection
<1> QED
  BY <1>4, <1>7, FS_Surjection

\* Nothing has been given, and nobody learns.
LEMMA LearnInit == Init => LearnInv
<1> SUFFICES ASSUME Learn!Init PROVE LearnInv
  BY DEF Init
<1>1. LearnTypes
  BY LearnConstantsHold DEF Learn!Init, LearnTypes, Learn!TypeOK
<1>2. Lessons
  BY DEF Learn!Init, Lessons, Opened, Learn!Prior
<1>3. \A p \in Pursuits : InHand(p)
  BY DEF Learn!Init, InHand
<1> QED
  BY <1>1, <1>2, <1>3 DEF LearnInv

\* A learner that takes the lock has in hand the proposals of the events it has read, and
\* nothing else.
LEMMA TakeFacts ==
    ASSUME LearnInv, NEW p \in Pursuits, Learn!Take(p)
    PROVE  /\ DOMAIN routed' \subseteq Events \cap given
           /\ \A e \in DOMAIN routed' : Told(routed'[e]) /\ routed'[e].ids \subseteq Elems(due')
           /\ due' \in Seq(Learn!Proposals) /\ \A q \in Elems(due') : q.source \in Events
<1> DEFINE U == Learn!Unprocessed(p)
           T == UNION {Learn!RouteEvent(e).ids : e \in U}
<1>1. /\ routed' = [e \in U |-> Learn!RouteEvent(e)] /\ due' = Learn!SetToSeq(T)
      /\ U \subseteq Events \cap given /\ \A e \in U : Of[e] = p
  BY DEF Learn!Take, Learn!Unprocessed
<1>2. seen[p] \in Reading
  <2>1. learner[p] = "wait"
    BY DEF Learn!Take
  <2> QED
    BY <2>1 DEF LearnInv, InHand
<1>3. ASSUME NEW e \in U
      PROVE  /\ Told(Learn!RouteEvent(e))
             /\ \A q \in Learn!RouteEvent(e).ids : q \in Learn!Proposals /\ q.source \in Events
  <2>1. Of[e] = p /\ e \in Events /\ seen[Of[e]].alias \in BOOLEAN
    BY <1>1, <1>2 DEF Reading
  <2>2. \A c \in Learn!Lands(e) : c \in Cards \cup {None}
    BY DEF Learn!Lands, Learn!CitedBy
  <2>3. Learn!Clean(e, seen[Of[e]].alias) \in BOOLEAN
    BY <2>1 DEF Learn!Clean
  <2>4. \A c \in Learn!Lands(e) :
          LET q == Learn!Proposal(e, c, Learn!Clean(e, seen[Of[e]].alias))
          IN  q \in Learn!Proposals /\ q.source = e
    BY <2>1, <2>2, <2>3 DEF Learn!Proposal, Learn!Proposals
  <2> QED
    BY <2>1, <2>4 DEF Learn!RouteEvent, Told, Learn!Ran
<1> HIDE DEF U
<1>4. T \subseteq Learn!Proposals /\ \A q \in T : q.source \in Events
  BY <1>3
<1>5. \A e \in U : Learn!RouteEvent(e).ids \subseteq T
  OBVIOUS
<1> HIDE DEF T
<1>6. due' \in Seq(T) /\ Elems(due') = T
  <2>1. IsFiniteSet(T)
    BY <1>4, ProposalsFinite, FS_Subset
  <2> QED
    BY <1>1, <2>1, SetToSeqFacts
<1>7. due' \in Seq(Learn!Proposals)
  BY <1>4, <1>6
<1> QED
  BY <1>1, <1>3, <1>4, <1>5, <1>6, <1>7

\* The proposals of a gap that carry the name are voided, and a fresh one is opened only
\* where it is absent and none stands.
Reproposed(g, p) ==
    \E fresh \in Learn!Proposals, new \in BOOLEAN :
        /\ fresh.source = g /\ fresh.clean = Learn!Clean(g, seen[p].alias)
        /\ new => proposal[fresh] = "absent" /\ Learn!Standing(g, p) = {}
        /\ \A q \in Learn!Proposals :
             proposal'[q] = IF q \in Learn!Prior(g) /\ Learn!Dirty(q, p) THEN "voided"
                            ELSE IF new /\ q = fresh THEN "proposed" ELSE proposal[q]

\* What the routing of one answered gap does.
LEMMA RouteFacts ==
    ASSUME LearnInv, NEW p \in Pursuits, Learn!RouteGap(p), due # <<>>
    PROVE  \E g \in Gaps \cap given :
             /\ g = Head(due) /\ g \in Elems(due) /\ due' = Tail(due) /\ Tail(due) \in Seq(Gaps \cap given)
             /\ Elems(due) = {g} \cup Elems(Tail(due))
             /\ UNCHANGED <<cites, alias, given, routing, signal, learner, seen, routed, lock,
                            accepts, kills, covered>>
             /\ Reproposed(g, p)
             /\ proposal' \in [Learn!Proposals ->
                   {"absent", "proposed", "accepted", "rejected", "voided"}]
<1> DEFINE g == Head(due)
           fresh == Learn!Proposal(g, None, Learn!Clean(g, seen[p].alias))
           stands == \/ Learn!Standing(g, p) # {} \/ g \in Residual \/ proposal[fresh] # "absent"
           voided == [q \in Learn!Proposals |->
                        IF q \in Learn!Prior(g) /\ Learn!Dirty(q, p) THEN "voided" ELSE proposal[q]]
<1>1. learner[p] = "gaps"
  BY DEF Learn!RouteGap
<1>2. due \in Seq(Gaps \cap given) /\ seen[p] \in Reading
  BY <1>1 DEF LearnInv, InHand
<1>3. /\ g \in Gaps \cap given /\ g \in Elems(due) /\ Tail(due) \in Seq(Gaps \cap given)
      /\ Elems(due) = {g} \cup Elems(Tail(due))
  BY <1>2, ElemsFacts
<1>4. /\ due' = Tail(due) /\ proposal' = (IF stands THEN voided ELSE [voided EXCEPT ![fresh] = "proposed"])
      /\ UNCHANGED <<cites, alias, given, routing, signal, learner, seen, routed, lock,
                     accepts, kills, covered>>
  BY DEF Learn!RouteGap, Learn!Turn
<1>5. fresh \in Learn!Proposals /\ fresh.source = g /\ fresh.clean = Learn!Clean(g, seen[p].alias)
  <2>1. Learn!Clean(g, seen[p].alias) \in BOOLEAN
    BY <1>2 DEF Learn!Clean, Reading
  <2> QED
    BY <1>3, <2>1 DEF Learn!Proposal, Learn!Proposals
<1>6. proposal \in [Learn!Proposals -> {"absent", "proposed", "accepted", "rejected", "voided"}]
  BY DEF LearnInv, LearnTypes, Learn!TypeOK
<1> HIDE DEF fresh
<1>7. ~stands => proposal[fresh] = "absent" /\ Learn!Standing(g, p) = {}
  OBVIOUS
<1>8. (~stands) \in BOOLEAN
  OBVIOUS
<1>9. \A q \in Learn!Proposals :
        proposal'[q] = IF q \in Learn!Prior(g) /\ Learn!Dirty(q, p) THEN "voided"
                       ELSE IF ~stands /\ q = fresh THEN "proposed" ELSE proposal[q]
  <2>1. ~stands => fresh \notin Learn!Prior(g)
    BY <1>7 DEF Learn!Prior
  <2> HIDE DEF stands
  <2> QED
    BY <1>4, <1>5, <2>1
<1>10. proposal' \in [Learn!Proposals -> {"absent", "proposed", "accepted", "rejected", "voided"}]
  <2> HIDE DEF stands
  <2> QED
    BY <1>4, <1>5, <1>6
<1>11. Reproposed(g, p)
  <2> DEFINE new == ~stands
  <2>1. new \in BOOLEAN
    OBVIOUS
  <2>2. /\ new => proposal[fresh] = "absent" /\ Learn!Standing(g, p) = {}
        /\ \A q \in Learn!Proposals :
             proposal'[q] = IF q \in Learn!Prior(g) /\ Learn!Dirty(q, p) THEN "voided"
                            ELSE IF new /\ q = fresh THEN "proposed" ELSE proposal[q]
    BY <1>7, <1>9
  <2> HIDE DEF new, g
  <2> QED
    BY <1>5, <2>1, <2>2 DEF Reproposed
<1> HIDE DEF g
<1> QED
  BY <1>3, <1>4, <1>10, <1>11 DEF g

Stages == {"open", "mark", "gaps", "signals"}

\* A proposal in the store stays there, whatever becomes of it.
LEMMA StatusStep ==
    LearnInv /\ Learn!Next =>
        /\ proposal' \in [Learn!Proposals ->
              {"absent", "proposed", "accepted", "rejected", "voided"}]
        /\ \A q \in Learn!Proposals : Opened(q) => Opened(q)'
<1> SUFFICES ASSUME LearnInv, Learn!Next
             PROVE  /\ proposal' \in [Learn!Proposals ->
                          {"absent", "proposed", "accepted", "rejected", "voided"}]
                    /\ \A q \in Learn!Proposals : proposal[q] # "absent" => proposal'[q] # "absent"
  BY DEF Opened
<1>1. proposal \in [Learn!Proposals -> {"absent", "proposed", "accepted", "rejected", "voided"}]
  BY DEF LearnInv, LearnTypes, Learn!TypeOK
<1>2. CASE UNCHANGED proposal
  BY <1>1, <1>2
<1>3. CASE \E q \in Learn!Proposals : proposal' = Learn!Open(q)
  BY <1>1, <1>3 DEF Learn!Open
<1>4. ASSUME NEW g \in Gaps, NEW propose \in BOOLEAN, Learn!AnswerGap(g, propose)
      PROVE  UNCHANGED proposal \/ \E q \in Learn!Proposals : proposal' = Learn!Open(q)
  <2>1. alias \in BOOLEAN
    BY DEF LearnInv, LearnTypes, Learn!TypeOK
  <2>2. Learn!Proposal(g, None, Learn!Clean(g, alias)) \in Learn!Proposals
    BY <2>1 DEF Learn!Proposal, Learn!Proposals, Learn!Clean
  <2> QED
    BY <1>4, <2>2 DEF Learn!AnswerGap
<1>5. ASSUME NEW q \in Learn!Proposals, NEW decision \in {"accepted", "rejected"},
             Learn!Decide(q, decision)
      PROVE  /\ proposal' \in [Learn!Proposals ->
                   {"absent", "proposed", "accepted", "rejected", "voided"}]
             /\ \A r \in Learn!Proposals : proposal[r] # "absent" => proposal'[r] # "absent"
  BY <1>1, <1>5 DEF Learn!Decide
<1>6. ASSUME NEW p \in Pursuits, Learn!OpenNext(p)
      PROVE  UNCHANGED proposal \/ \E q \in Learn!Proposals : proposal' = Learn!Open(q)
  <2>1. CASE due # <<>> /\ proposal' = Learn!Open(Head(due))
    <3>1. due \in Seq(Learn!Proposals)
      BY <1>6 DEF Learn!OpenNext, LearnInv, InHand
    <3>2. Head(due) \in Learn!Proposals
      BY <2>1, <3>1, ElemsFacts
    <3> QED
      BY <2>1, <3>2
  <2> QED
    BY <1>6, <2>1 DEF Learn!OpenNext, Learn!Turn
<1>7. ASSUME NEW p \in Pursuits, Learn!RouteGap(p)
      PROVE  /\ proposal' \in [Learn!Proposals ->
                   {"absent", "proposed", "accepted", "rejected", "voided"}]
             /\ \A r \in Learn!Proposals : proposal[r] # "absent" => proposal'[r] # "absent"
  <2>1. CASE due = <<>>
    BY <1>1, <1>7, <2>1 DEF Learn!RouteGap, Learn!Turn
  <2>2. CASE due # <<>>
    BY <1>1, <1>7, <2>2, RouteFacts DEF Reproposed
  <2> QED
    BY <2>1, <2>2
<1>8. ASSUME NEW p \in Pursuits,
             \/ Learn!Accept(p) \/ Learn!Read(p) \/ Learn!Take(p) \/ Learn!MarkNext(p)
             \/ Learn!WriteSignal(p) \/ \E c \in Cards : Learn!Draft(p, c)
      PROVE  UNCHANGED proposal
  BY <1>8
     DEF Learn!Accept, Learn!Read, Learn!Take, Learn!MarkNext, Learn!WriteSignal, Learn!Draft,
         Learn!Turn
<1>9. CASE Learn!LearnAlias \/ Learn!Kill \/ \E e \in Events : Learn!GiveFeedback(e)
  BY <1>2, <1>9 DEF Learn!LearnAlias, Learn!Kill, Learn!GiveFeedback
<1> QED
  BY <1>2, <1>3, <1>4, <1>5, <1>6, <1>7, <1>8, <1>9 DEF Learn!Next, Learn!Learn

\* The steps of a learner at one of its stages, and what it leaves alone.
LEMMA StageFacts ==
    ASSUME LearnInv, NEW p \in Pursuits, Learn!Stage(p)
    PROVE  /\ learner[p] \in Stages /\ lock = p
           /\ UNCHANGED <<cites, alias, given, accepts, kills>>
           /\ \A r \in Pursuits \ {p} : learner'[r] = learner[r] /\ seen'[r] = seen[r]
           /\ \A r \in Pursuits \ {p} : learner[r] \notin Stages
<1>1. learner[p] \in Stages
  BY DEF Stages, Learn!Stage, Learn!OpenNext, Learn!MarkNext, Learn!RouteGap, Learn!WriteSignal
<1>2. \A r \in Pursuits : learner[r] \in Stages <=> lock = r
  BY DEF Stages, LearnInv, LearnTypes, Learn!TypeOK
<1>3. UNCHANGED <<cites, alias, given, accepts, kills>>
  BY DEF Learn!Stage, Learn!OpenNext, Learn!MarkNext, Learn!RouteGap, Learn!WriteSignal, Learn!Turn
<1>4. \A r \in Pursuits \ {p} : learner'[r] = learner[r] /\ seen'[r] = seen[r]
  BY DEF LearnInv, LearnTypes, Learn!Stage, Learn!OpenNext, Learn!MarkNext, Learn!RouteGap,
         Learn!WriteSignal, Learn!Turn, Learn!Answered
<1> QED
  BY <1>1, <1>2, <1>3, <1>4

\* The learners' types hold across every step.
LEMMA LearnTypesStep == LearnInv /\ Learn!Next => LearnTypes'
<1> SUFFICES ASSUME LearnInv, Learn!Next PROVE LearnTypes'
  OBVIOUS
<1>1. proposal' \in [Learn!Proposals -> {"absent", "proposed", "accepted", "rejected", "voided"}]
  BY StatusStep
<1> USE DEF LearnInv, LearnTypes, Learn!TypeOK
<1>2. CASE Learn!LearnAlias
  BY <1>1, <1>2 DEF Learn!LearnAlias, Learn!run
<1>3. CASE Learn!Kill
  BY <1>1, <1>3, LearnConstantsHold DEF Learn!Kill
<1>4. ASSUME NEW e \in Events, Learn!GiveFeedback(e) PROVE LearnTypes'
  BY <1>1, <1>4 DEF Learn!GiveFeedback, Learn!run
<1>5. ASSUME NEW g \in Gaps, NEW propose \in BOOLEAN, Learn!AnswerGap(g, propose) PROVE LearnTypes'
  BY <1>1, <1>5 DEF Learn!AnswerGap, Learn!run
<1>6. ASSUME NEW q \in Learn!Proposals, NEW d \in {"accepted", "rejected"}, Learn!Decide(q, d)
      PROVE  LearnTypes'
  BY <1>1, <1>6 DEF Learn!Decide, Learn!run
<1>7. ASSUME NEW p \in Pursuits, NEW c \in Cards, Learn!Draft(p, c) PROVE LearnTypes'
  BY <1>1, <1>7 DEF Learn!Draft, Learn!run
<1>8. ASSUME NEW p \in Pursuits, Learn!Accept(p) PROVE LearnTypes'
  BY <1>1, <1>8 DEF Learn!Accept
<1>9. ASSUME NEW p \in Pursuits, Learn!Read(p) PROVE LearnTypes'
  <2>1. [records |-> cites, alias |-> alias] \in Reading
    BY DEF Reading
  <2> QED
    BY <1>1, <1>9, <2>1 DEF Learn!Read
<1>10. ASSUME NEW p \in Pursuits, Learn!Take(p) PROVE LearnTypes'
  BY <1>1, <1>10, LearnConstantsHold DEF Learn!Take
<1>11. ASSUME NEW p \in Pursuits, Learn!OpenNext(p) PROVE LearnTypes'
  BY <1>1, <1>11 DEF Learn!OpenNext, Learn!Turn
<1>12. ASSUME NEW p \in Pursuits, Learn!MarkNext(p) PROVE LearnTypes'
  <2>1. CASE due = <<>>
    BY <1>1, <1>12, <2>1 DEF Learn!MarkNext, Learn!Turn
  <2>2. CASE due # <<>>
    <3>1. learner[p] = "mark" /\ routing' = [routing EXCEPT ![Head(due)] = routed[Head(due)]]
      BY <1>12, <2>2 DEF Learn!MarkNext, Learn!Turn
    <3>2. due \in Seq(DOMAIN routed) /\ \A e \in DOMAIN routed : Told(routed[e]) /\ e \in Events \cap given
      BY <3>1 DEF InHand
    <3>3. Head(due) \in DOMAIN routed
      BY <2>2, <3>2, ElemsFacts
    <3>4. Told(routed[Head(due)]) /\ Head(due) \in Events \cap given
      BY <3>2, <3>3
    <3>5. UNCHANGED <<cites, alias, given, signal, learner, seen, lock, covered>>
      BY <1>12, <2>2 DEF Learn!MarkNext, Learn!Turn
    <3> QED
      BY <1>1, <3>1, <3>4, <3>5 DEF Told
  <2> QED
    BY <2>1, <2>2
<1>13. ASSUME NEW p \in Pursuits, Learn!RouteGap(p) PROVE LearnTypes'
  BY <1>1, <1>13 DEF Learn!RouteGap, Learn!Turn
<1>14. ASSUME NEW p \in Pursuits, Learn!WriteSignal(p) PROVE LearnTypes'
  <2>0. learner[p] = "signals" /\ seen[p] \in Reading /\ due \in Seq(Cards) /\ lock = p
    BY <1>14 DEF Learn!WriteSignal, InHand
  <2>1. CASE due = <<>>
    <3>1. /\ lock' = None /\ learner' = [learner EXCEPT ![p] = "idle"]
          /\ seen' = [seen EXCEPT ![p] = None] /\ covered' = covered \cup seen[p].records
          /\ UNCHANGED <<cites, alias, given, routing, signal>>
      BY <1>14, <2>1 DEF Learn!WriteSignal, Learn!Answered
    <3>2. seen[p].records \subseteq Pursuits \X Cards
      BY <2>0 DEF Reading
    <3> QED
      BY <1>1, <2>0, <3>1, <3>2, LearnConstantsHold
  <2>2. CASE due # <<>>
    <3>1. /\ signal' = [signal EXCEPT ![Head(due)] = {l \in seen[p].records : l[2] = Head(due)}]
          /\ UNCHANGED <<cites, alias, given, routing, learner, seen, lock, covered>>
      BY <1>14, <2>2 DEF Learn!WriteSignal
    <3>2. Head(due) \in Cards
      BY <2>0, <2>2, ElemsFacts
    <3>3. {l \in seen[p].records : l[2] = Head(due)} \subseteq Pursuits \X Cards
      BY <2>0 DEF Reading
    <3> QED
      BY <1>1, <3>1, <3>2, <3>3
  <2> QED
    BY <2>1, <2>2
<1> QED
  BY <1>2, <1>3, <1>4, <1>5, <1>6, <1>7, <1>8, <1>9, <1>10, <1>11, <1>12, <1>13, <1>14
     DEF Learn!Next, Learn!Learn

\* What was learned stays learned across every step: an event is marked when all it
\* opens is in the store, and a gap is given a proposal when it has none that stands.
LEMMA LessonsStep == LearnInv /\ Learn!Next => Lessons'
<1> SUFFICES ASSUME LearnInv, Learn!Next PROVE Lessons'
  OBVIOUS
<1>1. \A q \in Learn!Proposals : Opened(q) => Opened(q)'
  BY StatusStep
<1>2. /\ \A e \in Events : routing[e] # None =>
            routing[e].ids \subseteq Learn!Proposals /\ \A q \in routing[e].ids : Opened(q)
      /\ \A q \in Learn!Proposals : Opened(q) /\ q.source \in Gaps => q.source \in given
      /\ \A g \in Gaps : \A q, r \in Learn!Prior(g) :
            proposal[q] # "voided" /\ proposal[r] # "voided" => q = r
      /\ proposal \in [Learn!Proposals -> {"absent", "proposed", "accepted", "rejected", "voided"}]
  BY DEF LearnInv, LearnTypes, Learn!TypeOK, Lessons
<1>3. ASSUME UNCHANGED routing
      PROVE  \A e \in Events : routing'[e] # None => \A q \in routing'[e].ids : Opened(q)'
  BY <1>1, <1>2, <1>3
<1>4. ASSUME UNCHANGED <<routing, proposal>>, given \subseteq given' PROVE Lessons'
  <2>1. \A g \in Gaps : Learn!Prior(g)' = Learn!Prior(g)
    BY <1>4 DEF Learn!Prior
  <2> QED
    BY <1>2, <1>3, <1>4, <2>1 DEF Lessons, Opened
\* A proposal is opened whose source is an event.
<1>5. ASSUME NEW x \in Learn!Proposals, x.source \in Events, proposal' = Learn!Open(x),
             UNCHANGED <<routing, given>>
      PROVE  Lessons'
  <2>1. \A q \in Learn!Proposals : q # x => proposal'[q] = proposal[q]
    BY <1>2, <1>5 DEF Learn!Open
  <2>2. \A g \in Gaps : \A q \in Learn!Prior(g)' : q \in Learn!Prior(g) /\ proposal'[q] = proposal[q]
    BY <1>5, <2>1, LearnConstantsHold DEF Learn!Prior
  <2> QED
    BY <1>2, <1>3, <1>5, <2>1, <2>2, LearnConstantsHold DEF Lessons, Opened
\* The answer to a gap proposes the first card of that gap.
<1>6. ASSUME NEW g \in Gaps, NEW propose \in BOOLEAN, Learn!AnswerGap(g, propose) PROVE Lessons'
  <2>1. /\ g \notin given /\ given' = given \cup {g} /\ UNCHANGED routing
        /\ proposal' = IF propose /\ g \notin Residual
                       THEN Learn!Open(Learn!Proposal(g, None, Learn!Clean(g, alias))) ELSE proposal
    BY <1>6 DEF Learn!AnswerGap
  <2>2. CASE UNCHANGED proposal
    BY <1>4, <2>1, <2>2
  <2>3. CASE ~UNCHANGED proposal
    <3> DEFINE x == Learn!Proposal(g, None, Learn!Clean(g, alias))
    <3>1. alias \in BOOLEAN
      BY DEF LearnInv, LearnTypes, Learn!TypeOK
    <3>2. x \in Learn!Proposals /\ x.source = g /\ proposal' = Learn!Open(x)
      BY <2>1, <2>3, <3>1 DEF Learn!Proposal, Learn!Proposals, Learn!Clean
    <3> HIDE DEF x
    <3>3. \A q \in Learn!Proposals : q # x => proposal'[q] = proposal[q]
      BY <1>2, <3>2 DEF Learn!Open
    <3>4. \A q \in Learn!Prior(g)' : q = x
      BY <1>2, <2>1, <3>3 DEF Learn!Prior, Opened
    <3>5. \A h \in Gaps \ {g} : \A q \in Learn!Prior(h)' :
            q \in Learn!Prior(h) /\ proposal'[q] = proposal[q]
      BY <3>2, <3>3 DEF Learn!Prior
    <3>6. \A h \in Gaps : \A q, r \in Learn!Prior(h)' :
            proposal'[q] # "voided" /\ proposal'[r] # "voided" => q = r
      <4> SUFFICES ASSUME NEW h \in Gaps, NEW q \in Learn!Prior(h)', NEW r \in Learn!Prior(h)',
                          proposal'[q] # "voided", proposal'[r] # "voided"
                   PROVE  q = r
        OBVIOUS
      <4>1. CASE h = g
        BY <3>4, <4>1
      <4>2. CASE h # g
        BY <1>2, <3>5, <4>2
      <4> QED
        BY <4>1, <4>2
    <3> QED
      BY <1>2, <1>3, <2>1, <3>2, <3>3, <3>6 DEF Lessons, Opened
  <2> QED
    BY <2>2, <2>3
<1>7. ASSUME NEW x \in Learn!Proposals, NEW d \in {"accepted", "rejected"}, Learn!Decide(x, d)
      PROVE  Lessons'
  <2>1. /\ proposal[x] = "proposed" /\ proposal' = [proposal EXCEPT ![x] = d]
        /\ UNCHANGED <<routing, given>>
    BY <1>7 DEF Learn!Decide
  <2>2. \A q \in Learn!Proposals : /\ proposal'[q] = "absent" <=> proposal[q] = "absent"
                                   /\ proposal'[q] = "voided" <=> proposal[q] = "voided"
    BY <1>2, <2>1
  <2>3. \A g \in Gaps : \A q \in Learn!Prior(g)' :
          /\ q \in Learn!Prior(g) /\ q \in Learn!Proposals
          /\ proposal'[q] # "voided" => proposal[q] # "voided"
    BY <2>2 DEF Learn!Prior
  <2> QED
    BY <1>2, <1>3, <2>1, <2>2, <2>3 DEF Lessons, Opened
<1>8. ASSUME NEW p \in Pursuits, Learn!OpenNext(p) PROVE Lessons'
  <2>1. CASE due = <<>>
    BY <1>4, <1>8, <2>1 DEF Learn!OpenNext, Learn!Turn
  <2>2. CASE due # <<>>
    <3>1. learner[p] = "open" /\ proposal' = Learn!Open(Head(due)) /\ UNCHANGED <<routing, given>>
      BY <1>8, <2>2 DEF Learn!OpenNext, Learn!Turn
    <3>2. due \in Seq(Learn!Proposals) /\ \A q \in Elems(due) : q.source \in Events
      BY <3>1 DEF LearnInv, InHand
    <3>3. Head(due) \in Learn!Proposals /\ Head(due).source \in Events
      BY <2>2, <3>2, ElemsFacts
    <3> QED
      BY <1>5, <3>1, <3>3
  <2> QED
    BY <2>1, <2>2
<1>9. ASSUME NEW p \in Pursuits, Learn!MarkNext(p) PROVE Lessons'
  <2>1. CASE due = <<>>
    BY <1>4, <1>9, <2>1 DEF Learn!MarkNext, Learn!Turn
  <2>2. CASE due # <<>>
    <3>1. /\ learner[p] = "mark" /\ routing' = [routing EXCEPT ![Head(due)] = routed[Head(due)]]
          /\ UNCHANGED <<proposal, given>>
      BY <1>9, <2>2 DEF Learn!MarkNext, Learn!Turn
    <3>2. /\ due \in Seq(DOMAIN routed)
          /\ \A e \in DOMAIN routed : \A q \in routed[e].ids : Opened(q)
      BY <3>1 DEF LearnInv, InHand
    <3>3. Head(due) \in DOMAIN routed
      BY <2>2, <3>2, ElemsFacts
    <3>4. DOMAIN routing = Events
      BY DEF LearnInv, LearnTypes, Learn!TypeOK
    <3>5. \A e \in Events : routing'[e] = IF e = Head(due) THEN routed[e] ELSE routing[e]
      BY <3>1, <3>4
    <3>6. \A e \in Events : routing'[e] # None => \A q \in routing'[e].ids : Opened(q)
      BY <1>2, <3>2, <3>3, <3>5
    <3>7. \A g \in Gaps : Learn!Prior(g)' = Learn!Prior(g)
      BY <3>1 DEF Learn!Prior
    <3> QED
      BY <1>2, <3>1, <3>6, <3>7 DEF Lessons, Opened
  <2> QED
    BY <2>1, <2>2
<1>10. ASSUME NEW p \in Pursuits, Learn!RouteGap(p) PROVE Lessons'
  <2>1. CASE due = <<>>
    BY <1>4, <1>10, <2>1 DEF Learn!RouteGap, Learn!Turn
  <2>2. CASE due # <<>>
    <3>1. PICK g \in Gaps \cap given : Reproposed(g, p) /\ UNCHANGED <<routing, given>>
      BY <1>10, <2>2, RouteFacts
    <3>2. PICK fresh \in Learn!Proposals, new \in BOOLEAN :
             /\ fresh.source = g
             /\ new => proposal[fresh] = "absent" /\ Learn!Standing(g, p) = {}
             /\ \A q \in Learn!Proposals :
                  proposal'[q] = IF q \in Learn!Prior(g) /\ Learn!Dirty(q, p) THEN "voided"
                                 ELSE IF new /\ q = fresh THEN "proposed" ELSE proposal[q]
      BY <3>1 DEF Reproposed
    <3>3. \A q \in Learn!Prior(g) : q.source = g
      BY DEF Learn!Prior
    <3>4. \A h \in Gaps \ {g} : \A q \in Learn!Prior(h)' :
            q \in Learn!Prior(h) /\ proposal'[q] = proposal[q]
      BY <3>2, <3>3 DEF Learn!Prior
    <3>5. \A q, r \in Learn!Prior(g)' : proposal'[q] # "voided" /\ proposal'[r] # "voided" => q = r
      <4>1. CASE new
        <5>1. \A q \in Learn!Prior(g) : proposal[q] # "voided" => Learn!Dirty(q, p)
          BY <3>2, <4>1 DEF Learn!Standing
        <5>2. \A q \in Learn!Prior(g)' : q = fresh \/ proposal'[q] = "voided"
          BY <3>2, <5>1 DEF Learn!Prior
        <5> QED
          BY <5>2
      <4>2. CASE ~new
        <5>1. \A q \in Learn!Prior(g)' : q \in Learn!Prior(g) /\
                (proposal'[q] # "voided" => proposal[q] # "voided")
          BY <3>2, <4>2 DEF Learn!Prior
        <5> QED
          BY <1>2, <5>1
      <4> QED
        BY <4>1, <4>2
    <3>6. \A h \in Gaps : \A q, r \in Learn!Prior(h)' :
            proposal'[q] # "voided" /\ proposal'[r] # "voided" => q = r
      <4> SUFFICES ASSUME NEW h \in Gaps, NEW q \in Learn!Prior(h)', NEW r \in Learn!Prior(h)',
                          proposal'[q] # "voided", proposal'[r] # "voided"
                   PROVE  q = r
        OBVIOUS
      <4>1. CASE h = g
        BY <3>5, <4>1
      <4>2. CASE h # g
        BY <1>2, <3>4, <4>2
      <4> QED
        BY <4>1, <4>2
    <3>7. \A q \in Learn!Proposals : proposal'[q] # "absent" /\ q.source \in Gaps => q.source \in given
      BY <1>2, <3>2, <3>3 DEF Opened
    <3> QED
      BY <1>3, <3>1, <3>6, <3>7 DEF Lessons, Opened
  <2> QED
    BY <2>1, <2>2
<1>11. ASSUME NEW p \in Pursuits,
              \/ Learn!Accept(p) \/ Learn!Read(p) \/ Learn!Take(p) \/ Learn!WriteSignal(p)
              \/ \E c \in Cards : Learn!Draft(p, c)
       PROVE  Lessons'
  BY <1>4, <1>11 DEF Learn!Accept, Learn!Read, Learn!Take, Learn!WriteSignal, Learn!Draft
<1>12. CASE Learn!LearnAlias \/ Learn!Kill \/ \E e \in Events : Learn!GiveFeedback(e)
  BY <1>4, <1>12 DEF Learn!LearnAlias, Learn!Kill, Learn!GiveFeedback
<1> QED
  BY <1>6, <1>7, <1>8, <1>9, <1>10, <1>11, <1>12 DEF Learn!Next, Learn!Learn

\* A sequence of some things is one of more things.
LEMMA SeqGrows == ASSUME NEW S, NEW T, S \subseteq T, NEW s \in Seq(S) PROVE s \in Seq(T)
OBVIOUS

\* What a learner has in hand stays so while it rests, the proposals rest or nobody is at
\* a stage, and no new gap of its pursuit is answered.
LEMMA InHandRests ==
    ASSUME LearnInv, NEW r \in Pursuits, UNCHANGED <<learner, seen, due, routed>>,
           given \subseteq given', UNCHANGED proposal \/ lock = None,
           learner[r] \in {"gaps", "signals"} => GapsOf(r)' = GapsOf(r)
    PROVE  InHand(r)'
<1>1. InHand(r) /\ None \notin Pursuits /\ (learner[r] \in Stages <=> lock = r)
  BY LearnConstantsHold DEF LearnInv, LearnTypes, Learn!TypeOK, Stages
<1>2. CASE learner[r] \notin Stages
  BY <1>1, <1>2 DEF InHand, Stages
<1>3. CASE learner[r] \in Stages
  <2>1. UNCHANGED proposal
    BY <1>1, <1>3
  <2>2. \A g \in Gaps : NoNameLeft(g)' <=> NoNameLeft(g)
    BY <2>1 DEF NoNameLeft, Learn!Prior, Learn!Clean
  <2>3. due \in Seq(Gaps \cap given) => due \in Seq(Gaps \cap given')
    BY SeqGrows
  <2>4. GapsOf(r) \subseteq Gaps
    BY DEF GapsOf
  <2> QED
    BY <1>1, <1>3, <2>1, <2>2, <2>3, <2>4 DEF InHand, Opened, Told, Elems
<1> QED
  BY <1>2, <1>3

\* A learner outside the stages has at most read something.
LEMMA InHandOutside ==
    ASSUME LearnInv, NEW r \in Pursuits, learner'[r] = learner[r], seen'[r] = seen[r],
           learner[r] \notin Stages
    PROVE  InHand(r)'
BY DEF LearnInv, InHand, Stages

\* A learner that opens proposals, or turns to the marking.
LEMMA OpenStep ==
    ASSUME LearnInv, NEW p \in Pursuits, Learn!OpenNext(p) PROVE InHand(p)'
<1>1. /\ learner[p] = "open" /\ seen[p] \in Reading
      /\ DOMAIN routed \subseteq Events \cap given /\ \A e \in DOMAIN routed : Told(routed[e])
      /\ due \in Seq(Learn!Proposals) /\ \A q \in Elems(due) : q.source \in Events
      /\ \A e \in DOMAIN routed : \A q \in routed[e].ids : Opened(q) \/ q \in Elems(due)
  BY DEF Learn!OpenNext, LearnInv, InHand
<1>2. UNCHANGED <<given, routed, seen>> /\ p \in DOMAIN learner
  BY DEF Learn!OpenNext, Learn!Turn, LearnInv, LearnTypes
<1>3. CASE due = <<>>
  <2>1. /\ learner'[p] = "mark" /\ due' = Learn!SetToSeq(DOMAIN routed) /\ UNCHANGED proposal
    BY <1>2, <1>3 DEF Learn!OpenNext, Learn!Turn
  <2>2. IsFiniteSet(DOMAIN routed)
    <3>1. DOMAIN routed \subseteq Events
      BY <1>1
    <3> QED
      BY <3>1, LearnConstantsHold, FS_Subset
  <2>3. due' \in Seq(DOMAIN routed)
    BY <2>1, <2>2, SetToSeqFacts
  <2>4. Elems(due) = {}
    BY <1>3, ElemsOfEmpty
  <2>5. \A e \in DOMAIN routed : \A q \in routed[e].ids : Opened(q)
    BY <1>1, <2>4
  <2> QED
    BY <1>1, <1>2, <2>1, <2>3, <2>5 DEF InHand, Opened, Told
<1>4. CASE due # <<>>
  <2>1. /\ learner'[p] = "open" /\ due' = Tail(due) /\ proposal' = Learn!Open(Head(due))
    BY <1>1, <1>4 DEF Learn!OpenNext, Learn!Turn
  <2>2. /\ Head(due) \in Learn!Proposals /\ Tail(due) \in Seq(Learn!Proposals)
        /\ Elems(due) = {Head(due)} \cup Elems(Tail(due))
    BY <1>1, <1>4, ElemsFacts
  <2>3. \A q \in Learn!Proposals : Opened(q) => proposal'[q] # "absent"
    BY <2>1, <2>2 DEF Learn!Open, Opened, LearnInv, LearnTypes, Learn!TypeOK
  <2>4. proposal'[Head(due)] # "absent"
    BY <2>1, <2>2 DEF Learn!Open, LearnInv, LearnTypes, Learn!TypeOK
  <2>5. \A e \in DOMAIN routed : \A q \in routed[e].ids :
          proposal'[q] # "absent" \/ q \in Elems(Tail(due))
    BY <1>1, <2>2, <2>3, <2>4 DEF Told
  <2>6. Elems(due)' = Elems(Tail(due))
    BY <2>1 DEF Elems
  <2> QED
    BY <1>1, <1>2, <2>1, <2>2, <2>5, <2>6 DEF InHand, Opened, Told
<1> QED
  BY <1>3, <1>4

\* A learner that marks events, or turns to the gaps.
LEMMA MarkStep ==
    ASSUME LearnInv, NEW p \in Pursuits, Learn!MarkNext(p) PROVE InHand(p)'
<1>1. /\ learner[p] = "mark" /\ seen[p] \in Reading
      /\ DOMAIN routed \subseteq Events \cap given /\ \A e \in DOMAIN routed : Told(routed[e])
      /\ due \in Seq(DOMAIN routed)
      /\ \A e \in DOMAIN routed : \A q \in routed[e].ids : Opened(q)
  BY DEF Learn!MarkNext, LearnInv, InHand
<1>2. UNCHANGED <<given, routed, seen, proposal>> /\ p \in DOMAIN learner
  BY DEF Learn!MarkNext, Learn!Turn, LearnInv, LearnTypes
<1>3. CASE due = <<>>
  <2>1. learner'[p] = "gaps" /\ due' = Learn!SetToSeq(GapsOf(p))
    BY <1>2, <1>3 DEF Learn!MarkNext, Learn!Turn, GapsOf
  <2>2. GapsOf(p) \subseteq Gaps \cap given /\ IsFiniteSet(GapsOf(p)) /\ GapsOf(p)' = GapsOf(p)
    <3>1. GapsOf(p) \subseteq Gaps
      BY DEF GapsOf
    <3>2. IsFiniteSet(GapsOf(p))
      BY <3>1, LearnConstantsHold, FS_Subset
    <3> QED
      BY <1>2, <3>2 DEF GapsOf
  <2>3. due' \in Seq(GapsOf(p)) /\ Elems(due') = GapsOf(p)
    BY <2>1, <2>2, SetToSeqFacts
  <2>4. due' \in Seq(Gaps \cap given)
    BY <2>2, <2>3, SeqGrows
  <2>5. Elems(due)' = Elems(due')
    BY DEF Elems
  <2> QED
    BY <1>1, <1>2, <2>1, <2>2, <2>3, <2>4, <2>5 DEF InHand
<1>4. CASE due # <<>>
  <2>1. learner'[p] = "mark" /\ due' = Tail(due)
    BY <1>1, <1>4 DEF Learn!MarkNext, Learn!Turn
  <2>2. Tail(due) \in Seq(DOMAIN routed)
    BY <1>1, <1>4, ElemsFacts
  <2> QED
    BY <1>1, <1>2, <2>1, <2>2 DEF InHand, Opened, Told
<1> QED
  BY <1>3, <1>4

\* After its routing a gap has no open proposal that carries a name the learner knew.
LEMMA RoutedIsClean ==
    ASSUME LearnInv, NEW p \in Pursuits, seen[p] \in Reading, seen[p].alias,
           NEW g \in Gaps \cap given, Reproposed(g, p)
    PROVE  NoNameLeft(g)' /\ \A h \in Gaps \ {g} : NoNameLeft(h) => NoNameLeft(h)'
<1>1. PICK fresh \in Learn!Proposals, new \in BOOLEAN :
         /\ fresh.source = g /\ fresh.clean = Learn!Clean(g, seen[p].alias)
         /\ \A q \in Learn!Proposals :
              proposal'[q] = IF q \in Learn!Prior(g) /\ Learn!Dirty(q, p) THEN "voided"
                             ELSE IF new /\ q = fresh THEN "proposed" ELSE proposal[q]
  BY DEF Reproposed
<1>2. \A q \in Learn!Prior(g) : q.source = g
  BY DEF Learn!Prior
<1>3. fresh.clean
  BY <1>1 DEF Learn!Clean
<1>4. NoNameLeft(g)'
  <2> SUFFICES ASSUME NEW q \in Learn!Proposals, q.source = g, proposal'[q] = "proposed", g \in Naming
               PROVE  q.clean
    BY DEF NoNameLeft, Learn!Prior, Learn!Clean
  <2>1. CASE q = fresh
    BY <1>3, <2>1
  <2>2. CASE q # fresh
    <3>1. proposal[q] = "proposed" /\ ~(q \in Learn!Prior(g) /\ Learn!Dirty(q, p))
      BY <1>1, <2>2
    <3>2. q \in Learn!Prior(g)
      BY <3>1 DEF Learn!Prior
    <3> QED
      BY <3>1, <3>2 DEF Learn!Dirty
  <2> QED
    BY <2>1, <2>2
<1>5. ASSUME NEW h \in Gaps \ {g}, NoNameLeft(h) PROVE NoNameLeft(h)'
  <2>1. \A q \in Learn!Proposals : q.source = h => proposal'[q] = proposal[q]
    BY <1>1, <1>2
  <2> QED
    BY <1>5, <2>1 DEF NoNameLeft, Learn!Prior, Learn!Clean
<1> QED
  BY <1>4, <1>5

\* A learner that routes gaps, or turns to the signals.
LEMMA RouteStep ==
    ASSUME LearnInv, NEW p \in Pursuits, Learn!RouteGap(p) PROVE InHand(p)'
<1>1. /\ learner[p] = "gaps" /\ seen[p] \in Reading /\ due \in Seq(Gaps \cap given)
      /\ seen[p].alias => \A g \in GapsOf(p) : g \in Elems(due) \/ NoNameLeft(g)
  BY DEF Learn!RouteGap, LearnInv, InHand
<1>2. UNCHANGED <<given, routed, seen>> /\ p \in DOMAIN learner
  BY DEF Learn!RouteGap, Learn!Turn, LearnInv, LearnTypes
<1>3. GapsOf(p)' = GapsOf(p) /\ GapsOf(p) \subseteq Gaps
  BY <1>2 DEF GapsOf
<1>4. CASE due = <<>>
  <2> DEFINE C == {c \in Cards : \E q \in Pursuits : <<q, c>> \in seen[p].records}
  <2>1. learner'[p] = "signals" /\ due' = Learn!SetToSeq(C) /\ UNCHANGED proposal
    BY <1>2, <1>4 DEF Learn!RouteGap, Learn!Turn
  <2>2. C \subseteq Cards /\ IsFiniteSet(C)
    BY LearnConstantsHold, FS_Subset
  <2> HIDE DEF C
  <2>3. due' \in Seq(Cards)
    BY <2>1, <2>2, SetToSeqFacts, SeqGrows
  <2>4. seen[p].alias => \A g \in GapsOf(p) : NoNameLeft(g)
    BY <1>1, <1>4, ElemsOfEmpty
  <2>5. \A g : NoNameLeft(g)' <=> NoNameLeft(g)
    BY <2>1 DEF NoNameLeft, Learn!Prior, Learn!Clean
  <2> QED
    BY <1>1, <1>2, <1>3, <2>1, <2>3, <2>4, <2>5 DEF InHand
<1>5. CASE due # <<>>
  <2>1. PICK g \in Gaps \cap given :
           /\ due' = Tail(due) /\ Tail(due) \in Seq(Gaps \cap given)
           /\ Elems(due) = {g} \cup Elems(Tail(due)) /\ UNCHANGED learner /\ Reproposed(g, p)
    BY <1>5, RouteFacts
  <2>2. Elems(due)' = Elems(Tail(due))
    BY <2>1 DEF Elems
  <2>3. seen[p].alias => NoNameLeft(g)' /\ \A h \in Gaps \ {g} : NoNameLeft(h) => NoNameLeft(h)'
    BY <1>1, <2>1, RoutedIsClean
  <2>4. seen[p].alias => \A h \in GapsOf(p) : h \in Elems(Tail(due)) \/ NoNameLeft(h)'
    BY <1>1, <1>3, <2>1, <2>3
  <2> QED
    BY <1>1, <1>2, <1>3, <2>1, <2>2, <2>4 DEF InHand
<1> QED
  BY <1>4, <1>5

\* A learner that writes signals, or is done.
LEMMA SignalStep ==
    ASSUME LearnInv, NEW p \in Pursuits, Learn!WriteSignal(p) PROVE InHand(p)'
<1>1. /\ learner[p] = "signals" /\ seen[p] \in Reading /\ due \in Seq(Cards)
      /\ seen[p].alias => \A g \in GapsOf(p) : NoNameLeft(g)
  BY DEF Learn!WriteSignal, LearnInv, InHand
<1>2. UNCHANGED <<given, proposal>> /\ p \in DOMAIN learner
  BY DEF Learn!WriteSignal, LearnInv, LearnTypes
<1>3. CASE due = <<>>
  <2>1. learner'[p] = "idle"
    BY <1>2, <1>3 DEF Learn!WriteSignal, Learn!Answered
  <2> QED
    BY <2>1 DEF InHand
<1>4. CASE due # <<>>
  <2>1. due' = Tail(due) /\ UNCHANGED <<learner, seen>>
    BY <1>4 DEF Learn!WriteSignal
  <2>2. Tail(due) \in Seq(Cards)
    BY <1>1, <1>4, ElemsFacts
  <2>3. GapsOf(p)' = GapsOf(p) /\ \A g : NoNameLeft(g)' <=> NoNameLeft(g)
    BY <1>2 DEF GapsOf, NoNameLeft, Learn!Prior, Learn!Clean
  <2> QED
    BY <1>1, <2>1, <2>2, <2>3 DEF InHand
<1> QED
  BY <1>3, <1>4

\* What every learner has in hand stays so across every step.
LEMMA InHandStep == LearnInv /\ Learn!Next => \A r \in Pursuits : InHand(r)'
<1> SUFFICES ASSUME LearnInv, Learn!Next, NEW r \in Pursuits PROVE InHand(r)'
  OBVIOUS
<1>1. ASSUME NEW p \in Pursuits, Learn!Stage(p) PROVE InHand(r)'
  <2>1. CASE r = p
    BY <1>1, <2>1, OpenStep, MarkStep, RouteStep, SignalStep DEF Learn!Stage
  <2>2. CASE r # p
    <3>1. learner'[r] = learner[r] /\ seen'[r] = seen[r] /\ learner[r] \notin Stages
      BY <1>1, <2>2, StageFacts
    <3> QED
      BY <3>1, InHandOutside
  <2> QED
    BY <2>1, <2>2
<1>2. ASSUME NEW p \in Pursuits, Learn!Take(p) PROVE InHand(r)'
  <2>0. lock = None /\ learner[p] = "wait" /\ learner' = [learner EXCEPT ![p] = "open"]
        /\ UNCHANGED <<given, proposal, seen>>
    BY <1>2 DEF Learn!Take
  <2>1. CASE r = p
    <3>1. learner'[p] = "open" /\ seen[p] \in Reading
      BY <2>0 DEF LearnInv, LearnTypes, InHand
    <3>2. /\ DOMAIN routed' \subseteq Events \cap given
          /\ \A e \in DOMAIN routed' : Told(routed'[e]) /\ routed'[e].ids \subseteq Elems(due')
          /\ due' \in Seq(Learn!Proposals) /\ \A q \in Elems(due') : q.source \in Events
      BY <1>2, TakeFacts
    <3>3. Elems(due)' = Elems(due')
      BY DEF Elems
    <3> QED
      BY <2>0, <2>1, <3>1, <3>2, <3>3 DEF InHand, Told, Opened
  <2>2. CASE r # p
    <3>1. learner'[r] = learner[r] /\ seen'[r] = seen[r] /\ learner[r] \notin Stages
      BY <2>0, <2>2, LearnConstantsHold DEF LearnInv, LearnTypes, Learn!TypeOK, Stages
    <3> QED
      BY <3>1, InHandOutside
  <2> QED
    BY <2>1, <2>2
<1>3. ASSUME NEW p \in Pursuits, Learn!Accept(p) \/ Learn!Read(p) PROVE InHand(r)'
  <2>0. /\ UNCHANGED <<given, proposal, due, routed, lock>> /\ learner[p] \notin Stages
        /\ learner'[p] \in {"read", "wait"}
        /\ learner'[p] = "wait" => seen'[p] = [records |-> cites, alias |-> alias]
        /\ \A q \in Pursuits \ {p} : learner'[q] = learner[q] /\ seen'[q] = seen[q]
    BY <1>3 DEF Learn!Accept, Learn!Read, LearnInv, LearnTypes, Stages
  <2>1. CASE r = p
    <3>1. [records |-> cites, alias |-> alias] \in Reading
      BY DEF Reading, LearnInv, LearnTypes, Learn!TypeOK
    <3> QED
      BY <2>0, <2>1, <3>1 DEF InHand
  <2>2. CASE r # p
    <3>1. learner'[r] = learner[r] /\ seen'[r] = seen[r]
      BY <2>0, <2>2
    <3>2. \A g : NoNameLeft(g)' <=> NoNameLeft(g)
      BY <2>0 DEF NoNameLeft, Learn!Prior, Learn!Clean
    <3>3. GapsOf(r)' = GapsOf(r)
      BY <2>0 DEF GapsOf
    <3> QED
      BY <2>0, <3>1, <3>2, <3>3 DEF LearnInv, InHand, Opened, Told, Elems
  <2> QED
    BY <2>1, <2>2
<1>4. CASE Learn!Kill
  <2>1. learner'[r] = "idle"
    BY <1>4 DEF Learn!Kill
  <2> QED
    BY <2>1 DEF InHand
<1>5. ASSUME NEW g \in Gaps, NEW propose \in BOOLEAN, Learn!AnswerGap(g, propose)
      PROVE  InHand(r)'
  <2>1. /\ UNCHANGED <<learner, seen, due, routed>> /\ given' = given \cup {g}
        /\ UNCHANGED proposal \/ lock = None
    BY <1>5 DEF Learn!AnswerGap, Learn!run
  <2>2. learner[r] \in {"gaps", "signals"} => GapsOf(r)' = GapsOf(r)
    BY <1>5, <2>1 DEF Learn!AnswerGap, GapsOf
  <2> QED
    BY <2>1, <2>2, InHandRests
<1>6. ASSUME NEW e \in Events, Learn!GiveFeedback(e) PROVE InHand(r)'
  <2>1. /\ UNCHANGED <<learner, seen, due, routed, proposal>> /\ given' = given \cup {e}
    BY <1>6 DEF Learn!GiveFeedback, Learn!run
  <2>2. GapsOf(r)' = GapsOf(r)
    BY <2>1, LearnConstantsHold DEF GapsOf
  <2> QED
    BY <2>1, <2>2, InHandRests
<1>7. ASSUME UNCHANGED <<learner, seen, due, routed, given>>, UNCHANGED proposal \/ lock = None
      PROVE  InHand(r)'
  <2>1. GapsOf(r)' = GapsOf(r)
    BY <1>7 DEF GapsOf
  <2> QED
    BY <1>7, <2>1, InHandRests
<1>8. ASSUME \/ Learn!LearnAlias
             \/ \E q \in Learn!Proposals, d \in {"accepted", "rejected"} : Learn!Decide(q, d)
             \/ \E p \in Pursuits, c \in Cards : Learn!Draft(p, c)
      PROVE  InHand(r)'
  BY <1>7, <1>8 DEF Learn!LearnAlias, Learn!Decide, Learn!Draft, Learn!run
<1> QED
  BY <1>1, <1>2, <1>3, <1>4, <1>5, <1>6, <1>8 DEF Learn!Next, Learn!Learn, Learn!Stage

\* The learners' invariant holds across every step of the composition.
LEMMA LearnStep == LearnInv /\ [Next]_vars => LearnInv'
<1> SUFFICES ASSUME LearnInv, [Next]_vars PROVE LearnInv'
  OBVIOUS
<1>1. CASE Absorb
  BY <1>1, LearnTypesStep, LessonsStep, InHandStep DEF Absorb, LearnInv
<1>2. CASE UNCHANGED learnVars
  <2>1. LearnTypes'
    BY <1>2 DEF learnVars, LearnInv, LearnTypes, Learn!TypeOK
  <2>2. Lessons'
    BY <1>2 DEF learnVars, LearnInv, Lessons, Opened, Learn!Prior
  <2>3. \A r \in Pursuits : InHand(r)'
    <3> SUFFICES ASSUME NEW r \in Pursuits PROVE InHand(r)'
      OBVIOUS
    <3>1. UNCHANGED <<learner, seen, due, routed, given, proposal>> /\ GapsOf(r)' = GapsOf(r)
      BY <1>2 DEF learnVars, GapsOf
    <3> QED
      BY <3>1, InHandRests
  <2> QED
    BY <2>1, <2>2, <2>3 DEF LearnInv
<1> QED
  BY <1>1, <1>2 DEF Next, Call, Claim, Answer, vars

\* The invariant gives what the run checks.
LEMMA LearnIsHonest == LearnInv => SpentIsProposed
<1> SUFFICES ASSUME LearnInv
             PROVE  Learn!SpentIsProposed /\ Learn!OneGapOneProposal /\ Learn!AcceptLeavesNoName
  BY DEF SpentIsProposed, LearnInv, LearnTypes
<1>1. Learn!SpentIsProposed
  BY DEF LearnInv, Lessons, Opened, Learn!SpentIsProposed, Learn!Processed
<1>2. Learn!OneGapOneProposal
  <2> SUFFICES ASSUME NEW g \in Gaps
               PROVE  Cardinality({q \in Learn!Prior(g) : proposal[q] # "voided"}) <= 1
    BY SameCardinality DEF Learn!OneGapOneProposal
  <2> DEFINE S == {q \in Learn!Prior(g) : proposal[q] # "voided"}
  <2>1. \A q, r \in S : q = r
    BY DEF LearnInv, Lessons
  <2>2. S = {} \/ \E q : S = {q}
    BY <2>1
  <2> HIDE DEF S
  <2>3. Cardinality(S) = 0 \/ Cardinality(S) = 1
    BY <2>2, FS_EmptySet, FS_Singleton
  <2> QED
    BY <2>3 DEF S
<1>3. Learn!AcceptLeavesNoName
  <2> SUFFICES ASSUME NEW p \in Pursuits, learner[p] = "signals", seen[p].alias,
                      NEW g \in Gaps \cap given, Of[g] = p
               PROVE  NoNameLeft(g)
    BY DEF Learn!AcceptLeavesNoName, NoNameLeft
  <2>1. g \in GapsOf(p)
    BY DEF GapsOf
  <2> QED
    BY <2>1 DEF LearnInv, InHand
<1> QED
  BY <1>1, <1>2, <1>3

\* No feedback is spent for nothing, no gap is proposed twice, and an accept leaves no
\* name it knew of in an open proposal, for any number of pursuits, accepts and kills
\* (learn.py:107-220).
THEOREM NoFeedbackIsLost == Spec => []SpentIsProposed
<1>1. Init => LearnInv
  BY LearnInit
<1>2. LearnInv /\ [Next]_vars => LearnInv'
  BY LearnStep
<1> QED
  BY <1>1, <1>2, LearnIsHonest, PTL DEF Spec

-----------------------------------------------------------------------------
(* The budget of a walk                                                    *)

\* The running totals of a sequence of numbers.
Sums(s, w) == s = [i \in 0..Len(w) |-> IF i = 0 THEN 0 ELSE s[i - 1] + w[i]]

\* The running totals of a sequence exist.
LEMMA SumsExist ==
    ASSUME NEW w \in Seq(Nat)
    PROVE  \E s : Sums(s, w)
<1> DEFINE P(n) == \E s : s = [i \in 0..n |-> IF i = 0 THEN 0 ELSE s[i - 1] + w[i]]
           Bad == {n \in Nat : n <= Len(w) /\ ~P(n)}
<1>1. P(0)
  <2> DEFINE s == [i \in 0..0 |-> 0]
  <2>1. s = [i \in 0..0 |-> IF i = 0 THEN 0 ELSE s[i - 1] + w[i]]
    OBVIOUS
  <2> QED
    BY <2>1
<1>2. ASSUME NEW n \in Nat, P(n) PROVE P(n + 1)
  <2> PICK s : s = [i \in 0..n |-> IF i = 0 THEN 0 ELSE s[i - 1] + w[i]]
    BY <1>2
  <2> DEFINE t == [i \in 0..n + 1 |-> IF i = n + 1 THEN s[n] + w[n + 1] ELSE s[i]]
  <2>1. ASSUME NEW i \in 0..n + 1
        PROVE  t[i] = IF i = 0 THEN 0 ELSE t[i - 1] + w[i]
    <3>1. CASE i = n + 1
      <4>1. t[i] = s[n] + w[n + 1] /\ t[i - 1] = s[n] /\ i # 0
        BY <3>1
      <4> QED
        BY <3>1, <4>1
    <3>2. CASE i # n + 1
      <4>1. i \in 0..n /\ t[i] = s[i] /\ (i # 0 => i - 1 \in 0..n + 1 /\ i - 1 # n + 1)
        BY <3>2
      <4>2. s[i] = IF i = 0 THEN 0 ELSE s[i - 1] + w[i]
        BY <4>1
      <4> QED
        BY <4>1, <4>2
    <3> QED
      BY <3>1, <3>2
  <2>2. t = [i \in 0..n + 1 |-> IF i = 0 THEN 0 ELSE t[i - 1] + w[i]]
    BY <2>1
  <2> QED
    BY <2>2
<1> HIDE DEF P
<1>3. \A n \in Nat : P(n)
  <2> SUFFICES ASSUME \E n \in Nat : ~P(n) PROVE FALSE
    OBVIOUS
  <2> DEFINE B == {n \in Nat : ~P(n)}
  <2>1. IsWellFoundedOn(OpToRel(<, Nat), Nat)
    BY NatLessThanWellFounded
  <2>2. PICK n \in B : \A m \in B : ~(<<m, n>> \in OpToRel(<, Nat))
    BY <2>1, WFMin
  <2>3. n \in Nat /\ ~P(n) /\ n # 0
    BY <1>1, <2>2
  <2>4. n - 1 \in Nat /\ n - 1 < n
    BY <2>3
  <2>5. P(n - 1)
    BY <2>2, <2>4, <2>3 DEF OpToRel
  <2> QED
    BY <1>2, <2>3, <2>4, <2>5
<1> QED
  BY <1>3, LenProperties DEF P, Sums

\* The sum of a sequence is the last of its running totals.
LEMMA SumIs ==
    ASSUME NEW w \in Seq(Nat)
    PROVE  \E s : Sums(s, w) /\ Spend!SumOf(w) = s[Len(w)]
<1> DEFINE s == CHOOSE s : s = [i \in 0..Len(w) |-> IF i = 0 THEN 0 ELSE s[i - 1] + w[i]]
<1>1. Sums(s, w)
  BY SumsExist DEF Sums
<1>2. Spend!SumOf(w) = s[Len(w)]
  BY DEF Spend!SumOf
<1> QED
  BY <1>1, <1>2

\* A sum is a number, nothing sums to zero, and one more number is added to it.
LEMMA SumGrows ==
    /\ Spend!SumOf(<<>>) = 0
    /\ \A w \in Seq(Nat) : Spend!SumOf(w) \in Nat
    /\ \A w \in Seq(Nat), x \in Nat : Spend!SumOf(Append(w, x)) = Spend!SumOf(w) + x
<1>1. Spend!SumOf(<<>>) = 0
  <2>1. <<>> \in Seq(Nat) /\ Len(<<>>) = 0
    BY EmptySeq
  <2>2. PICK s : Sums(s, <<>>) /\ Spend!SumOf(<<>>) = s[0]
    BY <2>1, SumIs
  <2> QED
    BY <2>1, <2>2 DEF Sums
<1>2. ASSUME NEW w \in Seq(Nat), NEW v \in Seq(Nat), NEW s, NEW t, Sums(s, w), Sums(t, v),
             Len(w) <= Len(v), \A i \in 1..Len(w) : v[i] = w[i]
      PROVE  \A n \in 0..Len(w) : s[n] \in Nat /\ t[n] = s[n]
  <2> DEFINE Bad == {n \in 0..Len(w) : ~(s[n] \in Nat /\ t[n] = s[n])}
  <2> SUFFICES ASSUME Bad # {} PROVE FALSE
    OBVIOUS
  <2>1. IsWellFoundedOn(OpToRel(<, Nat), Nat)
    BY NatLessThanWellFounded
  <2>2. Len(w) \in Nat /\ Len(v) \in Nat /\ Bad \subseteq Nat
    OBVIOUS
  <2> HIDE DEF Bad
  <2>3. PICK n \in Bad : \A m \in Bad : ~(<<m, n>> \in OpToRel(<, Nat))
    BY <2>1, <2>2, WFMin
  <2>4. n \in 0..Len(w) /\ n \in Nat /\ ~(s[n] \in Nat /\ t[n] = s[n])
    BY <2>2, <2>3 DEF Bad
  <2>5. /\ s[n] = IF n = 0 THEN 0 ELSE s[n - 1] + w[n]
        /\ t[n] = IF n = 0 THEN 0 ELSE t[n - 1] + v[n]
        /\ n # 0 /\ n - 1 \in 0..Len(w) /\ n - 1 < n /\ n \in 1..Len(w)
    <3>1. n \in 0..Len(v)
      BY <1>2, <2>2, <2>4
    <3>2. /\ s[n] = IF n = 0 THEN 0 ELSE s[n - 1] + w[n]
          /\ t[n] = IF n = 0 THEN 0 ELSE t[n - 1] + v[n]
      BY <1>2, <2>4, <3>1 DEF Sums
    <3>3. n # 0
      BY <2>4, <3>2
    <3> QED
      BY <2>2, <2>4, <3>2, <3>3
  <2>6. n - 1 \notin Bad
    BY <2>2, <2>3, <2>4, <2>5 DEF OpToRel
  <2>7. w[n] \in Nat /\ v[n] = w[n] /\ s[n - 1] \in Nat /\ t[n - 1] = s[n - 1]
    BY <1>2, <2>5, <2>6 DEF Bad
  <2> QED
    BY <2>4, <2>5, <2>7
<1>3. ASSUME NEW w \in Seq(Nat) PROVE Spend!SumOf(w) \in Nat
  <2>1. PICK s : Sums(s, w) /\ Spend!SumOf(w) = s[Len(w)]
    BY SumIs
  <2>2. s[Len(w)] \in Nat
    BY <1>2, <2>1
  <2> QED
    BY <2>1, <2>2
<1>4. ASSUME NEW w \in Seq(Nat), NEW x \in Nat
      PROVE  Spend!SumOf(Append(w, x)) = Spend!SumOf(w) + x
  <2> DEFINE v == Append(w, x)
  <2>1. /\ v \in Seq(Nat) /\ Len(v) = Len(w) + 1 /\ v[Len(w) + 1] = x
        /\ \A i \in 1..Len(w) : v[i] = w[i]
    OBVIOUS
  <2> HIDE DEF v
  <2>2. PICK s : Sums(s, w) /\ Spend!SumOf(w) = s[Len(w)]
    BY SumIs
  <2>3. PICK t : Sums(t, v) /\ Spend!SumOf(v) = t[Len(v)]
    BY <2>1, SumIs
  <2>4. t[Len(w)] = s[Len(w)]
    <3>1. Len(w) \in Nat /\ Len(w) <= Len(v)
      BY <2>1
    <3>2. \A i \in 0..Len(w) : t[i] = s[i]
      BY ONLY <1>2, <2>1, <2>2, <2>3, <3>1, w \in Seq(Nat)
    <3> QED
      BY <3>1, <3>2
  <2>5. t[Len(w) + 1] = t[Len(w)] + v[Len(w) + 1]
    <3>1. Len(w) + 1 \in 0..Len(v) /\ Len(w) + 1 # 0 /\ (Len(w) + 1) - 1 = Len(w)
      BY <2>1
    <3> QED
      BY <2>3, <3>1 DEF Sums
  <2>6. s[Len(w)] \in Nat
    BY <1>2, <2>2
  <2>7. t[Len(v)] = s[Len(w)] + x
    BY <2>1, <2>4, <2>5
  <2> QED
    BY <2>2, <2>3, <2>7 DEF v
<1> QED
  BY <1>1, <1>3, <1>4

\* What a line counts for in the traces of the runs in R, and among the calls.
Cost(line, R) == IF Spend!IsCall(line) /\ line.run \in R THEN line.cost ELSE 0
One(line) == IF Spend!IsCall(line) THEN 1 ELSE 0

\* A trace that grows by a line costs what the line costs more, and holds its call more.
LEMMA TraceGrows ==
    ASSUME NEW R
    PROVE  /\ Spend!CostOf(<<>>, R) = 0 /\ Spend!CallsIn(<<>>) = 0
           /\ \A lines \in Seq(Spend!Lines) :
                 /\ Spend!CostOf(lines, R) \in Nat /\ Spend!CallsIn(lines) \in Nat
                 /\ \A line \in Spend!Lines :
                       /\ Spend!CostOf(Append(lines, line), R) = Spend!CostOf(lines, R) + Cost(line, R)
                       /\ Spend!CallsIn(Append(lines, line)) = Spend!CallsIn(lines) + One(line)
<1> DEFINE costs(lines) == [i \in 1..Len(lines) |-> Cost(lines[i], R)]
           ones(lines) == [i \in 1..Len(lines) |-> One(lines[i])]
<1>1. \A line \in Spend!Lines : Cost(line, R) \in Nat /\ One(line) \in Nat
  <2> SUFFICES ASSUME NEW line \in Spend!Lines PROVE Cost(line, R) \in Nat /\ One(line) \in Nat
    OBVIOUS
  <2>1. Spend!IsCall(line) => line.cost \in Nat
    BY WalkConstants DEF Spend!Lines, Spend!IsCall, Spend!SpendAssumption
  <2> QED
    BY <2>1 DEF Cost, One
<1>2. \A lines : Spend!CostOf(lines, R) = Spend!SumOf(costs(lines))
  BY DEF Spend!CostOf, Cost
<1>3. \A lines : Spend!CallsIn(lines) = Spend!SumOf(ones(lines))
  BY DEF Spend!CallsIn, One
<1>4. costs(<<>>) = <<>> /\ ones(<<>>) = <<>>
  BY EmptySeq
<1>5. ASSUME NEW lines \in Seq(Spend!Lines)
      PROVE  costs(lines) \in Seq(Nat) /\ ones(lines) \in Seq(Nat)
  <2>1. /\ \A i \in 1..Len(lines) : Cost(lines[i], R) \in Nat /\ One(lines[i]) \in Nat
        /\ Len(lines) \in Nat
    BY <1>1
  <2> HIDE DEF Cost, One
  <2> QED
    BY <2>1, IsASeq
<1>6. ASSUME NEW lines \in Seq(Spend!Lines), NEW line \in Spend!Lines
      PROVE  /\ costs(Append(lines, line)) = Append(costs(lines), Cost(line, R))
             /\ ones(Append(lines, line)) = Append(ones(lines), One(line))
  <2>1. /\ Len(Append(lines, line)) = Len(lines) + 1 /\ Len(lines) \in Nat
        /\ Append(lines, line)[Len(lines) + 1] = line
        /\ \A i \in 1..Len(lines) : Append(lines, line)[i] = lines[i]
    OBVIOUS
  <2>2. /\ costs(lines) \in Seq(Nat) /\ ones(lines) \in Seq(Nat)
        /\ Len(costs(lines)) = Len(lines) /\ Len(ones(lines)) = Len(lines)
    BY <1>5, <2>1
  <2> QED
    BY <1>1, <2>1, <2>2
<1> HIDE DEF costs, ones
<1>7. Spend!CostOf(<<>>, R) = 0 /\ Spend!CallsIn(<<>>) = 0
  BY <1>2, <1>3, <1>4, SumGrows
<1>8. ASSUME NEW lines \in Seq(Spend!Lines)
      PROVE  Spend!CostOf(lines, R) \in Nat /\ Spend!CallsIn(lines) \in Nat
  BY <1>2, <1>3, <1>5, SumGrows
<1>9. ASSUME NEW lines \in Seq(Spend!Lines), NEW line \in Spend!Lines
      PROVE  /\ Spend!CostOf(Append(lines, line), R) = Spend!CostOf(lines, R) + Cost(line, R)
             /\ Spend!CallsIn(Append(lines, line)) = Spend!CallsIn(lines) + One(line)
  <2>1. costs(lines) \in Seq(Nat) /\ ones(lines) \in Seq(Nat)
    BY <1>5
  <2>2. /\ costs(Append(lines, line)) = Append(costs(lines), Cost(line, R))
        /\ ones(Append(lines, line)) = Append(ones(lines), One(line))
    BY <1>6
  <2>3. /\ Spend!SumOf(Append(costs(lines), Cost(line, R))) = Spend!SumOf(costs(lines)) + Cost(line, R)
        /\ Spend!SumOf(Append(ones(lines), One(line))) = Spend!SumOf(ones(lines)) + One(line)
    BY <1>1, <2>1, SumGrows
  <2> QED
    BY <1>2, <1>3, <2>2, <2>3
<1> QED
  BY <1>7, <1>8, <1>9

\* While no brake has fired the shared budget holds what all the traces say, the run's meter
\* what its own says, both within their limits; a call is in the air only in a run that goes on.
Metered ==
    /\ call # Spend!Idle => walk = "walking" /\ run \in 1..MaxRuns
    /\ walk # "aborted" =>
          /\ budget.spent = Spend!CostOf(log, 1..MaxRuns) /\ budget.spent <= Total
          /\ budget.calls = Spend!CallsIn(log) /\ budget.calls <= MaxCalls
          /\ \A r \in 1..MaxRuns :
                /\ Spend!CostOf(log, {r}) <= Ceiling
                /\ r > run => Spend!CostOf(log, {r}) = 0
                /\ r = run => Spend!CostOf(log, {r}) = spent

\* The requests of a call so far are its retries, and one more once it has fallen back.
Laddered ==
    call # Spend!Idle =>
        /\ call.model = "primary" => call.sent = call.retries /\ call.retries = call.tries
        /\ call.model = "fallback" =>
              call.tries = 0 /\ call.retries = Attempts - 1 /\ call.sent = Attempts

SpendInv == Spend!TypeOK /\ Metered /\ Laddered /\ Spend!OneCallOver /\ Spend!RetriesAreHonest

\* The dearest request has a price, and none is dearer.
Dearest == CHOOSE p \in Prices : \A q \in Prices : q <= p
LEMMA DearestFacts ==
    /\ Dearest \in Prices /\ Dearest \in Nat /\ \A q \in Prices : q \in Nat /\ q <= Dearest
    /\ Ceiling \in Nat /\ Total \in Nat /\ MaxCalls \in Nat /\ MaxRuns \in Nat
    /\ Attempts \in Nat /\ Attempts > 0
<1>1. Prices \subseteq Nat /\ \E p \in Prices : \A q \in Prices : q <= p
  BY WalkConstants DEF Spend!SpendAssumption
<1>2. Dearest \in Prices /\ \A q \in Prices : q <= Dearest
  BY <1>1 DEF Dearest
<1>3. {Ceiling, Total, MaxCalls, MaxRuns} \subseteq Nat /\ Attempts \in Nat \ {0}
  BY WalkConstants DEF Spend!SpendAssumption
<1> QED
  BY <1>1, <1>2, <1>3

\* A walk begins with nothing asked and nothing spent.
LEMMA SpendInit == Init => SpendInv
<1> SUFFICES ASSUME Spend!Init PROVE SpendInv
  BY DEF Init
<1> USE DEF Spend!Init
<1>1. /\ log = <<>> /\ Len(log) = 0 /\ log \in Seq(Spend!Lines)
      /\ \A R : Spend!CostOf(log, R) = 0
      /\ Spend!CallsIn(log) = 0
  <2>1. Len(<<>>) = 0 /\ <<>> \in Seq(Spend!Lines)
    BY EmptySeq
  <2> QED
    BY <2>1, TraceGrows
<1>2. Spend!TypeOK
  BY <1>1, DearestFacts DEF Spend!TypeOK
<1>3. Metered
  BY <1>1, DearestFacts DEF Metered
<1>4. Spend!OneCallOver
  BY <1>1, DearestFacts DEF Spend!OneCallOver, Dearest
<1>5. Laddered /\ Spend!RetriesAreHonest
  BY <1>1 DEF Laddered, Spend!RetriesAreHonest
<1> QED
  BY <1>2, <1>3, <1>4, <1>5 DEF SpendInv

\* The limits stand when the log does: a run opens, a call begins, fails or is answered badly.
LEMMA SpendElse ==
    ASSUME SpendInv,
           \/ \E flag, fresh, key \in BOOLEAN, rows \in SUBSET Spend!Models :
                 Spend!Construct(flag, rows, fresh, key)
           \/ Spend!OpenRun \/ Spend!Ask \/ Spend!Transient \/ Spend!Surfaced \/ Spend!Unusable
    PROVE  SpendInv'
<1> USE DEF SpendInv
<1>1. /\ log' = log /\ budget' = budget /\ walk' # "aborted"
      /\ walk # "aborted" \/ (walk' = walk /\ run' = run /\ spent' = spent)
  BY DEF Spend!TypeOK, Metered, Spend!Construct, Spend!OpenRun, Spend!Ask, Spend!Transient,
     Spend!Surfaced, Spend!Unusable
<1>2. \/ run' = run /\ spent' = spent
      \/ run' = run + 1 /\ spent' = 0 /\ run < MaxRuns /\ call = Spend!Idle /\ call' = Spend!Idle
  BY DEF Spend!Construct, Spend!OpenRun, Spend!Ask, Spend!Transient, Spend!Surfaced,
     Spend!Unusable
<1>3. run \in Nat /\ run' \in 0..MaxRuns /\ spent' \in Nat
  BY <1>2, DearestFacts DEF Spend!TypeOK
<1>4. /\ call' \in Spend!Calls \cup {Spend!Idle} /\ Laddered'
      /\ call' # Spend!Idle => walk' = "walking" /\ run' \in 1..MaxRuns
  <2>1. CASE call' = Spend!Idle
    BY <2>1 DEF Laddered
  <2>3. CASE Spend!Ask
    <3>1. /\ call' = [model |-> "primary", tries |-> 0, retries |-> 0, sent |-> 0]
          /\ walk' = "walking" /\ run' = run /\ run > 0
      BY <2>3 DEF Spend!Ask
    <3>2. call' \in Spend!Calls
      BY <3>1, DearestFacts DEF Spend!Calls, Spend!Models
    <3>3. call'.model = "primary" /\ call'.tries = 0 /\ call'.retries = 0 /\ call'.sent = 0
      BY <3>1
    <3> QED
      BY <1>3, <3>1, <3>2, <3>3 DEF Laddered
  <2>4. CASE Spend!Transient /\ call.model # "fallback"
    <3>1. /\ call # Spend!Idle /\ call \in Spend!Calls /\ call.model = "primary"
          /\ call' = Spend!AfterTransient(call) /\ walk' = walk /\ run' = run
      BY <2>4 DEF Spend!Transient, Spend!TypeOK, Spend!Calls, Spend!Models
    <3>2. /\ call.tries \in 0..Attempts - 1 /\ call.retries = call.tries
          /\ call.sent = call.retries
      BY <3>1 DEF Spend!Calls, Laddered
    <3>3. CASE call.tries + 1 < Attempts
      <4>1. call' = [call EXCEPT !.tries = @ + 1, !.retries = @ + 1, !.sent = @ + 1]
        BY <3>1, <3>3 DEF Spend!AfterTransient, Spend!Limit
      <4>2. /\ call.tries + 1 \in 0..Attempts - 1 /\ call.retries + 1 \in 0..Attempts
            /\ call.sent + 1 \in 0..Attempts + 1
        BY <3>2, <3>3, DearestFacts
      <4>3. /\ call' \in Spend!Calls /\ call'.model = "primary" /\ call'.tries = call.tries + 1
            /\ call'.retries = call.retries + 1 /\ call'.sent = call.sent + 1
        BY <3>1, <4>1, <4>2 DEF Spend!Calls
      <4> QED
        BY <3>1, <3>2, <4>3 DEF Laddered, Metered
    <3>4. CASE ~(call.tries + 1 < Attempts)
      <4>1. call' = [call EXCEPT !.model = "fallback", !.tries = 0, !.sent = @ + 1]
        BY <3>1, <3>4 DEF Spend!AfterTransient, Spend!Limit
      <4>2. /\ call.tries = Attempts - 1 /\ call.sent + 1 = Attempts
            /\ call.sent + 1 \in 0..Attempts + 1 /\ 0 \in 0..Attempts - 1
        BY <3>2, <3>4, DearestFacts
      <4>3. /\ call' \in Spend!Calls /\ call'.model = "fallback" /\ call'.tries = 0
            /\ call'.retries = call.retries /\ call'.sent = call.sent + 1
        BY <3>1, <4>1, <4>2 DEF Spend!Calls, Spend!Models
      <4> QED
        BY <3>1, <3>2, <4>2, <4>3 DEF Laddered, Metered
    <3> QED
      BY <3>3, <3>4
  <2>5. ASSUME NEW flag, NEW rows, NEW fresh, NEW key, Spend!Construct(flag, rows, fresh, key)
        PROVE  call' = Spend!Idle
    BY <2>5 DEF Spend!Construct, Metered
  <2>6. Spend!OpenRun => call' = Spend!Idle
    BY DEF Spend!OpenRun
  <2>7. Spend!Surfaced \/ Spend!Unusable \/ (Spend!Transient /\ call.model = "fallback") =>
           call' = Spend!Idle
    BY DEF Spend!Surfaced, Spend!Unusable, Spend!Transient
  <2> QED
    BY <2>1, <2>3, <2>4, <2>5, <2>6, <2>7
<1>5. Spend!TypeOK'
  <2>1. walk' \in {"start", "walking", "refused", "failed", "aborted"} /\ answered' \in Nat
    BY DEF Spend!TypeOK, Spend!Construct, Spend!OpenRun, Spend!Ask, Spend!Transient,
       Spend!Surfaced, Spend!Unusable
  <2> QED
    BY <1>1, <1>3, <1>4, <2>1 DEF Spend!TypeOK
<1>6. Metered'
  <2>1. \A r \in 1..MaxRuns : walk # "aborted" =>
           /\ r > run' => Spend!CostOf(log, {r}) = 0
           /\ r = run' => Spend!CostOf(log, {r}) = spent'
    BY <1>2, <1>3, DearestFacts DEF Metered
  <2> QED
    BY <1>1, <1>4, <2>1 DEF Metered
<1>7. Spend!OneCallOver'
  <2>1. ASSUME NEW r \in 1..run' PROVE Spend!CostOf(log, {r}) <= Ceiling + Dearest
    <3>1. CASE r \in 1..run
      BY <3>1 DEF Spend!OneCallOver, Dearest
    <3>2. CASE r \notin 1..run
      <4>1. r \in 1..MaxRuns /\ r > run /\ walk # "aborted"
        BY <1>1, <1>2, <1>3, <3>2, DearestFacts
      <4>2. Spend!CostOf(log, {r}) = 0
        BY <4>1 DEF Metered
      <4> QED
        BY <4>2, DearestFacts
    <3> QED
      BY <3>1, <3>2
  <2> QED
    BY <1>1, <2>1 DEF Spend!OneCallOver, Dearest
<1>8. Spend!RetriesAreHonest'
  BY <1>1 DEF Spend!RetriesAreHonest
<1> QED
  BY <1>4, <1>5, <1>6, <1>7, <1>8

\* An answer is metered, then traced with what it cost and the requests it took, then held
\* against the ceiling of the run and the shared limits: it lies over them by itself at most.
LEMMA SpendAnswer ==
    ASSUME SpendInv, NEW cost \in Prices, Spend!Answer(cost)
    PROVE  SpendInv'
<1> DEFINE line == Spend!CallLine(cost)
           fell == Spend!Line("model_fallback")
           over == Spend!Line("cost_ceiling")
           one == Append(log, line)
           two == IF call.model = "fallback" THEN Append(one, fell) ELSE one
           three == IF Spend!Braked(cost) THEN Append(two, over) ELSE two
<1> USE DEF SpendInv
<1>1. /\ call # Spend!Idle /\ call \in Spend!Calls /\ walk = "walking" /\ run \in 1..MaxRuns
      /\ run' = run /\ call' = Spend!Idle /\ spent' = spent + cost /\ answered' = answered + 1
      /\ walk' = (IF Spend!Braked(cost) THEN "aborted" ELSE walk)
      /\ budget' = IF Spend!Over(cost) THEN budget ELSE Spend!Charged(cost)
      /\ log \in Seq(Spend!Lines) /\ spent \in Nat /\ answered \in Nat /\ cost \in Nat
      /\ cost <= Dearest
  BY DearestFacts DEF Spend!Answer, Spend!TypeOK, Metered, Spend!Verdict
<1>2. /\ line.kind = "agent_call" /\ line.run = run /\ line.cost = cost /\ line.model = call.model
      /\ line.retries = call.retries /\ line.sent = call.sent + 1
      /\ fell.kind = "model_fallback" /\ over.kind = "cost_ceiling"
  BY DEF Spend!CallLine, Spend!Line
<1>3. call.model \in {"primary", "fallback"} /\ call.retries \in 0..Attempts
      /\ call.sent + 1 \in 0..Attempts + 1
      /\ call.sent + 1 = call.retries + 1 + (IF call.model = "fallback" THEN 1 ELSE 0)
  BY <1>1, DearestFacts DEF Laddered, Spend!Calls, Spend!Models
<1>4. line \in Spend!Lines /\ fell \in Spend!Lines /\ over \in Spend!Lines
  BY <1>1, <1>3 DEF Spend!Lines, Spend!CallLine, Spend!Line, Spend!Models
<1>5. Spend!IsCall(line) /\ ~Spend!IsCall(fell) /\ ~Spend!IsCall(over)
  BY <1>2 DEF Spend!IsCall
<1> HIDE DEF line, fell, over
<1>6. log' = three
  <2>1. \A s \in Seq(Spend!Lines), x \in Spend!Lines : s \o <<x>> = Append(s, x)
    OBVIOUS
  <2>2. \A s \in Seq(Spend!Lines) : s \o <<>> = s
    OBVIOUS
  <2>3. log' = log \o <<line>> \o (IF call.model = "fallback" THEN <<fell>> ELSE <<>>)
                   \o (IF Spend!Braked(cost) THEN <<over>> ELSE <<>>)
    BY DEF Spend!Answer, Spend!FallbackLine, line, fell, over
  <2>4. one \in Seq(Spend!Lines) /\ two \in Seq(Spend!Lines)
    BY <1>1, <1>4
  <2>5. log \o <<line>> = one
    BY <1>1, <1>4, <2>1
  <2>6. one \o (IF call.model = "fallback" THEN <<fell>> ELSE <<>>) = two
    BY <1>4, <2>1, <2>2, <2>4
  <2>7. two \o (IF Spend!Braked(cost) THEN <<over>> ELSE <<>>) = three
    BY <1>4, <2>1, <2>2, <2>4
  <2> QED
    BY <2>3, <2>5, <2>6, <2>7
<1>7. one \in Seq(Spend!Lines) /\ two \in Seq(Spend!Lines) /\ three \in Seq(Spend!Lines)
  BY <1>1, <1>4
<1>8. ASSUME NEW R
      PROVE  /\ Spend!CostOf(log', R) = Spend!CostOf(log, R) + (IF run \in R THEN cost ELSE 0)
             /\ Spend!CallsIn(log') = Spend!CallsIn(log) + 1
  <2>1. /\ Cost(line, R) = (IF run \in R THEN cost ELSE 0) /\ Cost(fell, R) = 0 /\ Cost(over, R) = 0
        /\ One(line) = 1 /\ One(fell) = 0 /\ One(over) = 0
    BY <1>2, <1>5 DEF Cost, One
  <2>2. ASSUME NEW s \in Seq(Spend!Lines), NEW x \in Spend!Lines
        PROVE  /\ Spend!CostOf(Append(s, x), R) = Spend!CostOf(s, R) + Cost(x, R)
               /\ Spend!CallsIn(Append(s, x)) = Spend!CallsIn(s) + One(x)
               /\ Spend!CostOf(s, R) \in Nat /\ Spend!CallsIn(s) \in Nat
    BY TraceGrows
  <2>3. /\ one = Append(log, line) /\ (two = one \/ two = Append(one, fell))
        /\ (three = two \/ three = Append(two, over))
    OBVIOUS
  <2> HIDE DEF one, two, three
  <2>4. /\ Spend!CostOf(one, R) = Spend!CostOf(log, R) + Cost(line, R)
        /\ Spend!CallsIn(one) = Spend!CallsIn(log) + 1
    BY <1>1, <1>4, <2>1, <2>2, <2>3
  <2>5. Spend!CostOf(two, R) = Spend!CostOf(one, R) /\ Spend!CallsIn(two) = Spend!CallsIn(one)
    <3>1. /\ Spend!CostOf(Append(one, fell), R) = Spend!CostOf(one, R) + Cost(fell, R)
          /\ Spend!CallsIn(Append(one, fell)) = Spend!CallsIn(one) + One(fell)
          /\ Spend!CostOf(one, R) \in Nat /\ Spend!CallsIn(one) \in Nat
      BY <1>4, <1>7, <2>2
    <3>2. /\ Spend!CostOf(Append(one, fell), R) = Spend!CostOf(one, R)
          /\ Spend!CallsIn(Append(one, fell)) = Spend!CallsIn(one)
      BY <2>1, <3>1
    <3>3. CASE two = one
      BY <3>3
    <3>4. CASE two = Append(one, fell)
      BY <3>2, <3>4
    <3> QED
      BY <2>3, <3>3, <3>4
  <2>6. Spend!CostOf(three, R) = Spend!CostOf(two, R) /\ Spend!CallsIn(three) = Spend!CallsIn(two)
    <3>1. /\ Spend!CostOf(Append(two, over), R) = Spend!CostOf(two, R) + Cost(over, R)
          /\ Spend!CallsIn(Append(two, over)) = Spend!CallsIn(two) + One(over)
          /\ Spend!CostOf(two, R) \in Nat /\ Spend!CallsIn(two) \in Nat
      BY <1>4, <1>7, <2>2
    <3>2. /\ Spend!CostOf(Append(two, over), R) = Spend!CostOf(two, R)
          /\ Spend!CallsIn(Append(two, over)) = Spend!CallsIn(two)
      BY <2>1, <3>1
    <3>3. CASE three = two
      BY <3>3
    <3>4. CASE three = Append(two, over)
      BY <3>2, <3>4
    <3> QED
      BY <2>3, <3>3, <3>4
  <2> QED
    BY <1>6, <2>1, <2>4, <2>5, <2>6
<1>9. Spend!CallsIn(log') = Spend!CallsIn(log) + 1
  BY <1>8
<1>10. /\ \A R : Spend!CostOf(log, R) \in Nat
       /\ Spend!CallsIn(log) \in Nat
  BY <1>1, TraceGrows
<1>11. /\ budget \in [spent : Nat, calls : Nat]
       /\ budget.spent = Spend!CostOf(log, 1..MaxRuns) /\ budget.spent <= Total
       /\ budget.calls = Spend!CallsIn(log) /\ budget.calls <= MaxCalls
       /\ spent = Spend!CostOf(log, {run}) /\ spent <= Ceiling
       /\ \A r \in 1..MaxRuns : Spend!CostOf(log, {r}) <= Ceiling
       /\ \A r \in 1..MaxRuns : r > run => Spend!CostOf(log, {r}) = 0
  BY <1>1 DEF Metered, Spend!TypeOK
<1>12. /\ Spend!Charged(cost) \in [spent : Nat, calls : Nat]
       /\ Spend!Charged(cost).spent = budget.spent + cost
       /\ Spend!Charged(cost).calls = budget.calls + 1
  <2>1. budget.spent \in Nat /\ budget.calls \in Nat
    BY <1>11
  <2>2. budget.spent + cost \in Nat /\ budget.calls + 1 \in Nat
    BY <1>1, <2>1
  <2> QED
    BY <2>2 DEF Spend!Charged
<1>13. Spend!TypeOK'
  <2>1. spent' \in Nat /\ answered' \in Nat /\ run' \in 0..MaxRuns
    BY <1>1, DearestFacts
  <2>2. budget' \in [spent : Nat, calls : Nat]
    BY <1>1, <1>11, <1>12
  <2>3. walk' \in {"start", "walking", "refused", "failed", "aborted"}
    BY <1>1
  <2> QED
    BY <1>1, <1>6, <1>7, <2>1, <2>2, <2>3 DEF Spend!TypeOK
<1>14. Metered'
  <2>1. call' = Spend!Idle
    BY <1>1
  <2>2. ASSUME walk' # "aborted"
        PROVE  /\ budget'.spent = Spend!CostOf(log', 1..MaxRuns) /\ budget'.spent <= Total
               /\ budget'.calls = Spend!CallsIn(log') /\ budget'.calls <= MaxCalls
               /\ spent' <= Ceiling
    <3>1. ~Spend!Over(cost) /\ ~Spend!Breach(Spend!Charged(cost))
      BY <1>1, <2>2 DEF Spend!Braked
    <3>2. budget' = Spend!Charged(cost)
      BY <1>1, <3>1
    <3>3. /\ budget.spent + cost <= Total /\ budget.calls + 1 <= MaxCalls /\ spent + cost <= Ceiling
      <4>1. budget.spent \in Nat /\ budget.calls \in Nat
        BY <1>11
      <4> QED
        BY <1>1, <1>12, <3>1, <4>1, DearestFacts DEF Spend!Over, Spend!Breach
    <3> QED
      BY <1>1, <1>8, <1>9, <1>11, <1>12, <3>2, <3>3
  <2>3. ASSUME walk' # "aborted", NEW r \in 1..MaxRuns
        PROVE  /\ Spend!CostOf(log', {r}) <= Ceiling
               /\ r > run' => Spend!CostOf(log', {r}) = 0
               /\ r = run' => Spend!CostOf(log', {r}) = spent'
    <3>1. CASE r = run
      <4>1. Spend!CostOf(log', {r}) = spent'
        BY <1>1, <1>8, <1>11, <3>1
      <4> QED
        BY <1>1, <2>2, <2>3, <3>1, <4>1
    <3>2. CASE r # run
      <4>1. Spend!CostOf(log', {r}) = Spend!CostOf(log, {r})
        BY <1>8, <1>10, <3>2
      <4>2. Spend!CostOf(log, {r}) <= Ceiling /\ (r > run => Spend!CostOf(log, {r}) = 0)
        BY <1>11
      <4>3. run' = run
        BY <1>1
      <4> QED
        BY <3>2, <4>1, <4>2, <4>3
    <3> QED
      BY <3>1, <3>2
  <2>4. call' # Spend!Idle => walk' = "walking" /\ run' \in 1..MaxRuns
    BY <2>1
  <2>5. walk' # "aborted" =>
           \A r \in 1..MaxRuns :
              /\ Spend!CostOf(log', {r}) <= Ceiling
              /\ r > run' => Spend!CostOf(log', {r}) = 0
              /\ r = run' => Spend!CostOf(log', {r}) = spent'
    BY ONLY <2>3
  <2> QED
    BY ONLY <2>2, <2>4, <2>5 DEF Metered
<1>15. Spend!OneCallOver'
  <2>1. Spend!CostOf(log', 1..MaxRuns) <= Total + Dearest
    <3>1. Spend!CostOf(log', 1..MaxRuns) = Spend!CostOf(log, 1..MaxRuns) + cost
      BY <1>1, <1>8
    <3>2. Spend!CostOf(log, 1..MaxRuns) \in Nat /\ Spend!CostOf(log, 1..MaxRuns) <= Total
      BY <1>10, <1>11
    <3>3. cost \in Nat /\ cost <= Dearest /\ Dearest \in Nat /\ Total \in Nat
      BY <1>1, DearestFacts
    <3> QED
      BY ONLY <3>1, <3>2, <3>3
  <2>2. Spend!CallsIn(log') <= MaxCalls + 1
    BY <1>9, <1>10, <1>11, DearestFacts
  <2>3. ASSUME NEW r \in 1..run' PROVE Spend!CostOf(log', {r}) <= Ceiling + Dearest
    <3>1. r \in 1..MaxRuns
      BY <1>1, DearestFacts
    <3>2. Spend!CostOf(log', {r}) = Spend!CostOf(log, {r}) + (IF r = run THEN cost ELSE 0)
      BY <1>8
    <3>3. Spend!CostOf(log, {r}) \in Nat /\ Spend!CostOf(log, {r}) <= Ceiling
      BY <1>10, <1>11, <3>1
    <3> QED
      BY <1>1, <3>2, <3>3, DearestFacts
  <2> QED
    BY <2>1, <2>2, <2>3 DEF Spend!OneCallOver, Dearest
<1>16. Spend!RetriesAreHonest'
  <2> DEFINE fine(s, i) == Spend!IsCall(s[i]) =>
                 /\ s[i].sent = s[i].retries + 1 + (IF s[i].model = "fallback" THEN 1 ELSE 0)
                 /\ s[i].model = "fallback" => i < Len(s) /\ s[i + 1].kind = "model_fallback"
  <2>1. \A i \in 1..Len(log) : fine(log, i)
    BY DEF Spend!RetriesAreHonest
  <2>2. /\ Len(one) = Len(log) + 1 /\ Len(log) \in Nat /\ one[Len(log) + 1] = line
        /\ \A i \in 1..Len(log) : one[i] = log[i]
    BY <1>1, <1>4
  <2>3. /\ \A i \in 1..Len(one) : two[i] = one[i]
        /\ call.model = "fallback" => Len(two) = Len(one) + 1 /\ two[Len(one) + 1] = fell
        /\ call.model # "fallback" => two = one
    BY <1>4, <1>7
  <2>4. /\ \A i \in 1..Len(two) : three[i] = two[i]
        /\ Spend!Braked(cost) => Len(three) = Len(two) + 1 /\ three[Len(two) + 1] = over
        /\ ~Spend!Braked(cost) => three = two
    BY <1>4, <1>7
  <2> HIDE DEF one, two, three
  <2>5. Len(one) \in Nat /\ Len(two) \in Nat /\ Len(one) <= Len(two) /\ Len(two) <= Len(three)
    BY <1>7, <2>2, <2>3, <2>4
  <2>6. ASSUME NEW i \in 1..Len(three) PROVE fine(three, i)
    <3>1. CASE i \in 1..Len(log)
      <4> DEFINE same(j) == three[j] = log[j]
      <4>1. \A j \in 1..Len(log) : same(j)
        <5> SUFFICES ASSUME NEW j \in 1..Len(log) PROVE three[j] = log[j]
          OBVIOUS
        <5>1. j \in 1..Len(one) /\ j \in 1..Len(two)
          BY <2>2, <2>5
        <5> QED
          BY <2>2, <2>3, <2>4, <5>1
      <4>4. same(i) /\ (i < Len(log) => same(i + 1))
        <5>1. i < Len(log) => i + 1 \in 1..Len(log)
          BY <2>2, <3>1
        <5> QED
          BY <3>1, <4>1, <5>1
      <4>2. fine(log, i)
        BY <2>1, <3>1
      <4>3. i < Len(log) => i < Len(three)
        BY <2>2, <2>5
      <4> QED
        BY <4>2, <4>3, <4>4
    <3>2. CASE i = Len(one)
      <4>1. three[i] = line
        BY <2>2, <2>3, <2>4, <2>5, <3>2
      <4>2. call.model = "fallback" => i < Len(three) /\ three[i + 1] = fell
        BY <2>2, <2>3, <2>4, <2>5, <3>2
      <4> QED
        BY <1>2, <1>3, <4>1, <4>2
    <3>3. CASE i > Len(one)
      <4>1. three[i] = fell \/ three[i] = over
        BY <2>2, <2>3, <2>4, <2>5, <3>3
      <4> QED
        BY <1>5, <4>1
    <3> QED
      BY <2>2, <2>5, <3>1, <3>2, <3>3
  <2> QED
    BY <1>6, <2>6 DEF Spend!RetriesAreHonest
<1> QED
  BY <1>1, <1>13, <1>14, <1>15, <1>16 DEF Laddered

\* The invariant of the budget holds across every step of the composition.
LEMMA SpendStep == SpendInv /\ [Next]_vars => SpendInv'
<1> SUFFICES ASSUME SpendInv, [Next]_vars PROVE SpendInv'
  OBVIOUS
<1>1. CASE UNCHANGED spendVars
  <2>1. UNCHANGED <<walk, run, call, spent, budget, log, answered>>
    BY <1>1 DEF spendVars
  <2>2. Spend!TypeOK'
    BY <2>1 DEF SpendInv, Spend!TypeOK
  <2>3. Metered'
    BY <2>1 DEF SpendInv, Metered
  <2>4. Laddered'
    BY <2>1 DEF SpendInv, Laddered
  <2>5. Spend!OneCallOver'
    BY <2>1 DEF SpendInv, Spend!OneCallOver
  <2>6. Spend!RetriesAreHonest'
    BY <2>1 DEF SpendInv, Spend!RetriesAreHonest
  <2> QED
    BY <2>2, <2>3, <2>4, <2>5, <2>6 DEF SpendInv
<1>2. CASE Spend!Next
  <2>1. CASE \E cost \in Prices : Spend!Answer(cost)
    BY <2>1, SpendAnswer
  <2>2. CASE Spend!Done
    BY <1>1, <2>2 DEF Spend!Done, Spend!vars, spendVars
  <2> QED
    BY <1>2, <2>1, <2>2, SpendElse DEF Spend!Next, Spend!Progress
<1> QED
  BY <1>1, <1>2 DEF Next, Call, Absorb, Claim, Answer, vars

\* The brakes of a walk hold for any prices, limits, ladders and numbers of runs: the one call
\* that trips a limit is all that lies beyond it, the shared budget is what the traces say, and
\* each line owns to its retries (caller.py:103-110, 197-218, live.py:169-173).
THEOREM BrakesHold == Spec => []OneCallOver
<1>1. Init => SpendInv
  BY SpendInit
<1>2. SpendInv /\ [Next]_vars => SpendInv'
  BY SpendStep
<1>3. SpendInv => OneCallOver
  <2> SUFFICES ASSUME SpendInv PROVE Spend!BudgetIsTheTrace
    BY DEF SpendInv, OneCallOver
  <2>1. budget \in [spent : Nat, calls : Nat]
    BY DEF SpendInv, Spend!TypeOK
  <2>2. walk = "walking" => /\ budget.spent = Spend!CostOf(log, 1..MaxRuns)
                            /\ budget.calls = Spend!CallsIn(log)
    BY DEF SpendInv, Metered
  <2> QED
    BY <2>1, <2>2 DEF Spend!BudgetIsTheTrace
<1> QED
  BY <1>1, <1>2, <1>3, PTL DEF Spec
=============================================================================
