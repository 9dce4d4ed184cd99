-------------------------- MODULE ServicesProofs ----------------------------
(***************************************************************************)
(* Theorems about four parts of the server that share no state: the locks  *)
(* on the runtimes' ports, the V1 conversation records, the replay to a    *)
(* client that joins, and the automatic error reports.                     *)
(***************************************************************************)
EXTENDS PortLock, AppConversation, ClientReplay, ErrorReporting, TLAPS

----------------------------------------------------------------------------
(***************************************************************************)
(* The port locks.                                                         *)
(*                                                                         *)
(* For any number of workers, conversations, ports, attempts and lock      *)
(* files: a port is given to one worker at a time and is free of freshly   *)
(* run containers when its container is run, until its lock is broken.     *)
(***************************************************************************)

(* The stages in which a worker has the lock of its port. *)
Locking == {"locked", "probed", "held", "running", "failed", "kept", "releasing", "closing"}

(* Where a worker is tells what it has open and which attempts are left. *)
Consistent(w) ==
    LET me == pworker[w]
    IN /\ me.at \in {"idle", "searching", "attached", "unlinking", "ending"} => me.fd = NoFile
       /\ me.at \in {"opened", "locked", "probed", "kept", "releasing", "closing"} => me.fd # NoFile
       /\ me.at \notin {"idle", "searching", "attached"} => me.port \in PPorts
       /\ me.at \in {"opened", "locked", "probed"} => me.left > 0
       /\ me.left <= me.max

(* Until a lock is broken, whoever has a lock file open has the one the    *)
(* name stands for.                                                        *)
OpenIsNamed(w) ==
    pworker[w].fd # NoFile /\ pworker[w].port \notin pbroken
        => pworker[w].fd = pfile[pworker[w].port]

(* A worker that goes on after flock() holds the lock, or fell back. *)
HoldsLock(w) ==
    pworker[w].at \in Locking =>
        IF pworker[w].fd # NoFile THEN pflock[pworker[w].fd] = w
        ELSE pworker[w].port \in pbroken

(* On a port that was probed no container is run. *)
ProbedIsFree(w) ==
    pworker[w].at \in {"probed", "held"} /\ pworker[w].port \notin pbroken
        => \A n \in PNames : pcontainer[n].port = pworker[w].port => pcontainer[n].is # "run"

Sound(w) == Consistent(w) /\ OpenIsNamed(w) /\ HoldsLock(w) /\ ProbedIsFree(w)

(* The inductive invariant. *)
PInv == PTypeOK /\ \A w \in PWorkers : Sound(w)

-----------------------------------------------------------------------------
(* Two workers with the lock of one unbroken port have the same file open, *)
(* and a file is locked by one worker.                                     *)
LEMMA LockedOnce ==
    ASSUME PInv, NEW v \in PWorkers, NEW w \in PWorkers, v # w,
           pworker[v].at \in Locking, pworker[w].at \in Locking,
           pworker[v].port = pworker[w].port
    PROVE  pworker[v].port \in pbroken
  BY DEF PInv, Sound, OpenIsNamed, HoldsLock

(* The initial state satisfies the invariant. *)
LEMMA PInitInv == PInit => PInv
  <1> SUFFICES ASSUME PInit PROVE PInv
    BY Zenon
  <1>1. PTypeOK
    BY PortAssumption DEF PInit, PTypeOK, PWorkerStates, PIdle, Worker, PStages, Files, NoFile,
       NoContainer, Container, PContainers
  <1>2. ASSUME NEW w \in PWorkers PROVE Sound(w)
    BY PortAssumption DEF PInit, Sound, Consistent, OpenIsNamed, HoldsLock, ProbedIsFree,
       PIdle, Worker, Locking, NoFile
  <1> QED
    BY Zenon, <1>1, <1>2 DEF PInv

(* What a step may do around a worker that does not move: break locks,     *)
(* unlink files nobody has open, free locks of others, stop, restart and   *)
(* remove containers.                                                      *)
LEMMA BystanderSound ==
    ASSUME PInv, NEW v \in PWorkers, pworker'[v] = pworker[v], pbroken \subseteq pbroken',
           pworker[v].fd # NoFile /\ pworker[v].port \notin pbroken'
               => pfile'[pworker[v].port] = pfile[pworker[v].port],
           \A f \in Files : pflock[f] = v => pflock'[f] = v,
           pworker[v].at \in {"probed", "held"} /\ pworker[v].port \notin pbroken =>
               \A n \in PNames : pcontainer'[n].port = pworker[v].port /\ pcontainer'[n].is = "run"
                                     => pcontainer'[n] = pcontainer[n]
    PROVE  Sound(v)'
  <1>1. Sound(v) /\ pworker[v].fd \in Files \cup {NoFile}
    BY Zenon DEF PInv, PTypeOK, PWorkerStates
  <1>2. Consistent(v)'
    BY Zenon, <1>1 DEF Sound, Consistent
  <1>3. OpenIsNamed(v)'
    BY Zenon, <1>1 DEF Sound, OpenIsNamed
  <1>4. HoldsLock(v)'
    BY Zenon, <1>1 DEF Sound, HoldsLock
  <1>5. ProbedIsFree(v)'
    BY Zenon, <1>1 DEF Sound, ProbedIsFree
  <1> QED
    BY Zenon, <1>2, <1>3, <1>4, <1>5 DEF Sound

(* A worker without a runtime has nothing open. *)
LEMMA IdleSound ==
    ASSUME NEW w
    PROVE  PIdle \in PWorkerStates /\ (pworker'[w] = PIdle => Sound(w)')
  <1>1. PIdle.at = "idle" /\ PIdle.fd = NoFile /\ PIdle.left = 0 /\ PIdle.max = 0
    BY Zenon DEF PIdle, Worker
  <1>2. PIdle \in PWorkerStates
    BY DEF PIdle, Worker, PWorkerStates, PStages
  <1>3. 0 <= 0
    OBVIOUS
  <1> QED
    BY Zenon, <1>1, <1>2, <1>3 DEF Sound, Consistent, OpenIsNamed, HoldsLock, ProbedIsFree, Locking

(* The types of a step of one worker. *)
LEMMA PTypesKept ==
    ASSUME PTypeOK, NEW w \in PWorkers, NEW me \in PWorkerStates,
           pworker' = [pworker EXCEPT ![w] = me],
           pfile' \in [PPorts -> Files \cup {NoFile}], pnext' \in 1..(PMaxFiles + 1),
           pflock' \in [Files -> PWorkers \cup {Nobody}],
           pcontainer' \in [PNames -> PContainers], pbroken' \subseteq PPorts
    PROVE  PTypeOK' /\ pworker'[w] = me /\ \A v \in PWorkers \ {w} : pworker'[v] = pworker[v]
  <1>1. pworker' \in [PWorkers -> PWorkerStates]
    BY Zenon DEF PTypeOK
  <1> QED
    BY Zenon, <1>1 DEF PTypeOK

(* Stopping containers runs none. *)
LEMMA StoppedRunsNone ==
    ASSUME PTypeOK, NEW names
    PROVE  /\ Stopped(names) \in [PNames -> PContainers]
           /\ \A n \in PNames : Stopped(names)[n].is = "run" => Stopped(names)[n] = pcontainer[n]
  BY DEF PTypeOK, PContainers, Stopped, Container

(* A name is unlinked: whoever has the file open has a broken lock. *)
LEMMA UnlinkedBreaks ==
    ASSUME PInv, NEW p \in PPorts, Unlinked(p)
    PROVE  /\ pfile' \in [PPorts -> Files \cup {NoFile}] /\ pbroken' \subseteq PPorts
           /\ pbroken \subseteq pbroken'
           /\ \A v \in PWorkers :
                 pworker[v].fd # NoFile /\ pworker[v].port \notin pbroken'
                     => pfile'[pworker[v].port] = pfile[pworker[v].port]
  <1>1. /\ pfile' = [pfile EXCEPT ![p] = NoFile]
        /\ pbroken' = IF pfile[p] # NoFile /\ Openers(pfile[p]) # {} THEN pbroken \cup {p} ELSE pbroken
    BY Zenon DEF Unlinked
  <1>2. pfile \in [PPorts -> Files \cup {NoFile}] /\ pbroken \subseteq PPorts
    BY Zenon DEF PInv, PTypeOK
  <1>3. pfile' \in [PPorts -> Files \cup {NoFile}] /\ pbroken' \subseteq PPorts /\ pbroken \subseteq pbroken'
    BY Zenon, <1>1, <1>2
  <1>4. ASSUME NEW v \in PWorkers, pworker[v].fd # NoFile, pworker[v].port \notin pbroken'
        PROVE  pfile'[pworker[v].port] = pfile[pworker[v].port]
    <2>1. pworker[v].fd = pfile[pworker[v].port]
      BY Zenon, <1>3, <1>4 DEF PInv, Sound, OpenIsNamed
    <2>2. pworker[v].port # p
      BY Zenon, <1>1, <1>4, <2>1 DEF Openers
    <2>3. pworker[v].port \in PPorts
      BY Zenon, <1>4 DEF PInv, Sound, Consistent
    <2> QED
      BY Zenon, <1>1, <1>2, <2>2, <2>3
  <1> QED
    BY Zenon, <1>3, <1>4

-----------------------------------------------------------------------------
(* connect() takes no lock and runs no container. *)
LEMMA ConnectSound ==
    ASSUME PInv, NEW w \in PWorkers, NEW n \in PNames, Connect(w, n)
    PROVE  PInv'
  <1> DEFINE attached == Worker("attached", n, pcontainer[n].port, NoFile, 0, 0)
             searching == Searching(n, PMaxTries, PMaxTries)
  <1>1. /\ \E me \in {attached, searching} : pworker' = [pworker EXCEPT ![w] = me]
        /\ \/ pcontainer' = pcontainer
           \/ pcontainer' = [pcontainer EXCEPT ![n] = Container("restarted", pcontainer[n].port)]
        /\ UNCHANGED <<pfile, pnext, pflock, pbroken>>
    BY Zenon DEF Connect
  <1>2. PTypeOK
    BY Zenon DEF PInv
  <1>3. /\ attached \in PWorkerStates /\ searching \in PWorkerStates
        /\ \A me \in {attached, searching} :
              me.fd = NoFile /\ me.at \in {"attached", "searching"} /\ me.left <= me.max
    BY <1>2, PortAssumption DEF PTypeOK, PWorkerStates, PContainers, PStages, Worker, Searching
  <1> HIDE DEF attached, searching
  <1>4. PICK me \in {attached, searching} : pworker' = [pworker EXCEPT ![w] = me]
    BY Zenon, <1>1
  <1>5. /\ pcontainer' \in [PNames -> PContainers]
        /\ \A m \in PNames : pcontainer'[m].is = "run" => pcontainer'[m] = pcontainer[m]
    BY <1>1, <1>2 DEF PTypeOK, PContainers, Container
  <1>6. PTypeOK' /\ pworker'[w] = me /\ \A v \in PWorkers \ {w} : pworker'[v] = pworker[v]
    BY Zenon, <1>1, <1>2, <1>3, <1>4, <1>5, PTypesKept DEF PTypeOK
  <1>7. Sound(w)'
    BY Zenon, <1>3, <1>6 DEF Sound, Consistent, OpenIsNamed, HoldsLock, ProbedIsFree, Locking
  <1>8. ASSUME NEW v \in PWorkers \ {w} PROVE Sound(v)'
    BY Zenon, <1>1, <1>5, <1>6, BystanderSound
  <1> QED
    BY Zenon, <1>6, <1>7, <1>8 DEF PInv

(* Whoever opens a lock file has the one the name stands for from then on. *)
LEMMA OpenSound ==
    ASSUME PInv, NEW w \in PWorkers, NEW p \in PPorts, OpenFile(w, p)
    PROVE  PInv'
  <1> DEFINE me == Worker("opened", pworker[w].name, p, pfile'[p], pworker[w].left, pworker[w].max)
  <1>1. PTypeOK /\ pworker[w] \in PWorkerStates /\ Sound(w)
    BY Zenon DEF PInv, PTypeOK
  <1>2. pworker[w].at = "searching" /\ pworker[w].left > 0 /\ UNCHANGED <<pflock, pcontainer, pbroken>>
    BY Zenon DEF OpenFile, AttemptsLeft
  <1>3. /\ pworker' = [pworker EXCEPT ![w] = me]
        /\ pfile' \in [PPorts -> Files \cup {NoFile}] /\ pnext' \in 1..(PMaxFiles + 1)
        /\ pfile'[p] \in Files
        /\ \A q \in PPorts : pfile[q] # NoFile => pfile'[q] = pfile[q]
    <2>1. CASE pfile[p] # NoFile /\ UNCHANGED <<pfile, pnext>>
               /\ pworker' = [pworker EXCEPT ![w] =
                     Worker("opened", @.name, p, pfile[p], @.left, @.max)]
      BY Zenon, <1>1, <2>1 DEF PTypeOK
    <2>2. CASE /\ pfile[p] = NoFile /\ pnext \in Files
               /\ pworker' = [pworker EXCEPT ![w] =
                     Worker("opened", @.name, p, pnext, @.left, @.max)]
               /\ pfile' = [pfile EXCEPT ![p] = pnext]
               /\ pnext' = pnext + 1
      <3>1. pfile'[p] = pnext
        BY Zenon, <1>1, <2>2 DEF PTypeOK
      <3>2. pnext' \in 1..(PMaxFiles + 1)
        BY <2>2, PortAssumption DEF Files
      <3> QED
        BY Zenon, <1>1, <2>2, <3>1, <3>2 DEF PTypeOK
    <2> QED
      BY Zenon, <2>1, <2>2 DEF OpenFile
  <1>4. me \in PWorkerStates
    BY Zenon, <1>1, <1>3 DEF PWorkerStates, PStages, Worker
  <1>5. /\ me.at = "opened" /\ me.port = p /\ me.fd = pfile'[p] /\ me.name = pworker[w].name
        /\ me.left = pworker[w].left /\ me.max = pworker[w].max
    BY Zenon DEF Worker
  <1> HIDE DEF me
  <1>6. PTypeOK' /\ pworker'[w] = me /\ \A v \in PWorkers \ {w} : pworker'[v] = pworker[v]
    BY Zenon, <1>1, <1>2, <1>3, <1>4, PTypesKept DEF PTypeOK
  <1>7. Sound(w)'
    <2>1. pfile'[p] # NoFile
      BY <1>3 DEF Files, NoFile
    <2> QED
      BY Zenon, <1>1, <1>2, <1>5, <1>6, <2>1 DEF Sound, Consistent, OpenIsNamed, HoldsLock, ProbedIsFree, Locking
  <1>8. ASSUME NEW v \in PWorkers \ {w} PROVE Sound(v)'
    <2>1. Sound(v) /\ pworker[v] \in PWorkerStates /\ pbroken' = pbroken
      BY Zenon, <1>2 DEF PInv, PTypeOK
    <2>2. pworker[v].fd # NoFile => pworker[v].port \in PPorts
      BY Zenon, <2>1 DEF Sound, Consistent, PWorkerStates, PStages
    <2>3. pworker[v].fd # NoFile /\ pworker[v].port \notin pbroken'
              => pfile'[pworker[v].port] = pfile[pworker[v].port]
      BY Zenon, <1>3, <2>1, <2>2 DEF Sound, OpenIsNamed
    <2> QED
      BY Zenon, <1>2, <1>6, <2>3, BystanderSound
  <1> QED
    BY Zenon, <1>6, <1>7, <1>8 DEF PInv

(* A worker that only changes its stage. *)
LEMMA GoesTo ==
    ASSUME PTypeOK, NEW w \in PWorkers, NEW stage, Go(w, stage)
    PROVE  pworker' = [pworker EXCEPT ![w] = Worker(stage, pworker[w].name, pworker[w].port,
                                                   pworker[w].fd, pworker[w].left, pworker[w].max)]
  <1>1. pworker[w] \in PWorkerStates
    BY Zenon DEF PTypeOK
  <1>2. [pworker[w] EXCEPT !.at = stage] =
            Worker(stage, pworker[w].name, pworker[w].port, pworker[w].fd, pworker[w].left, pworker[w].max)
    BY <1>1 DEF PWorkerStates, Worker
  <1> QED
    BY Zenon, <1>2 DEF Go

(* A worker that moves, while the files and the containers stay and locks  *)
(* are only taken. *)
LEMMA MoveSound ==
    ASSUME PInv, NEW w \in PWorkers, NEW me \in PWorkerStates, pworker' = [pworker EXCEPT ![w] = me],
           UNCHANGED <<pfile, pnext, pcontainer>>,
           pflock' \in [Files -> PWorkers \cup {Nobody}],
           \A f \in Files : pflock[f] # Nobody => pflock'[f] = pflock[f],
           pbroken' \subseteq PPorts, pbroken \subseteq pbroken',
           pworker'[w] = me => Sound(w)'
    PROVE  PInv'
  <1>1. PTypeOK' /\ pworker'[w] = me /\ \A v \in PWorkers \ {w} : pworker'[v] = pworker[v]
    BY Zenon, PTypesKept DEF PInv, PTypeOK
  <1>2. ASSUME NEW v \in PWorkers \ {w} PROVE Sound(v)'
    BY Zenon, <1>1, PortAssumption, BystanderSound
  <1> QED
    BY Zenon, <1>1, <1>2 DEF PInv

(* What is known of a worker *)
LEMMA WorkerFacts ==
    ASSUME PInv, NEW w \in PWorkers
    PROVE  /\ PTypeOK /\ Sound(w)
           /\ pworker[w].at \in PStages /\ pworker[w].name \in PNames \cup {Nobody}
           /\ pworker[w].port \in PPorts \cup {NoPort} /\ pworker[w].fd \in Files \cup {NoFile}
           /\ pworker[w].left \in Nat /\ pworker[w].max \in Nat /\ pworker[w].left <= pworker[w].max
  BY Zenon DEF PInv, PTypeOK, PWorkerStates, Sound, Consistent

(* A lock is taken when nobody has it. *)
LEMMA FlockSound ==
    ASSUME PInv, NEW w \in PWorkers, Flock(w)
    PROVE  PInv'
  <1> DEFINE mine == pworker[w]
             me == Worker("locked", mine.name, mine.port, mine.fd, mine.left, mine.max)
  <1>1. /\ mine.at = "opened" /\ pflock[mine.fd] = Nobody
        /\ pflock' = [pflock EXCEPT ![mine.fd] = w]
        /\ Go(w, "locked")
        /\ UNCHANGED <<pfile, pnext, pcontainer, pbroken>>
    BY Zenon DEF Flock
  <1>2. mine.fd \in Files /\ mine.port \in PPorts /\ mine.left > 0
    BY Zenon, <1>1, WorkerFacts DEF Sound, Consistent
  <1>3. pworker' = [pworker EXCEPT ![w] = me]
    BY Zenon, <1>1, GoesTo, WorkerFacts
  <1>4. me \in PWorkerStates
    BY Zenon, WorkerFacts DEF PWorkerStates, PStages, Worker
  <1>5. /\ pflock' \in [Files -> PWorkers \cup {Nobody}] /\ pflock'[mine.fd] = w
        /\ \A f \in Files : pflock[f] # Nobody => pflock'[f] = pflock[f]
    BY Zenon, <1>1, <1>2, WorkerFacts DEF PTypeOK
  <1>6. me.at = "locked" /\ me.port = mine.port /\ me.fd = mine.fd /\ me.left = mine.left /\ me.max = mine.max
    BY Zenon DEF Worker
  <1>7. mine.fd # NoFile
    BY <1>2 DEF Files, NoFile
  <1> HIDE DEF me
  <1>8. pworker'[w] = me => Sound(w)'
    BY ZenonT(60), <1>1, <1>2, <1>5, <1>6, <1>7, WorkerFacts
       DEF Sound, Consistent, OpenIsNamed, HoldsLock, ProbedIsFree
  <1> QED
    BY Zenon, <1>1, <1>3, <1>4, <1>5, <1>8, MoveSound, WorkerFacts DEF PTypeOK

(* The other steps of a search take no lock. *)
LEMMA SearchSound ==
    ASSUME PInv, NEW w \in PWorkers,
           \/ FlockTimesOut(w) \/ ProbePort(w) \/ ProbeDocker(w)
           \/ \E p \in PPorts : FallBack(w, p)
    PROVE  PInv'
  <1> DEFINE mine == pworker[w]
  <1>1. /\ PTypeOK /\ Sound(w) /\ mine.name \in PNames \cup {Nobody}
        /\ mine.port \in PPorts \cup {NoPort} /\ mine.fd \in Files \cup {NoFile}
        /\ mine.left \in Nat /\ mine.max \in Nat /\ mine.left <= mine.max
    BY Zenon, WorkerFacts
  <1>2. UNCHANGED <<pfile, pnext, pflock, pcontainer>> /\ pbroken \subseteq PPorts
    BY Zenon, <1>1 DEF FlockTimesOut, ProbePort, ProbeDocker, FallBack, PTypeOK
  <1>3. ASSUME NEW me \in PWorkerStates, pworker' = [pworker EXCEPT ![w] = me],
               pbroken' \subseteq PPorts, pbroken \subseteq pbroken', pworker'[w] = me => Sound(w)'
        PROVE  PInv'
    BY Zenon, <1>1, <1>2, <1>3, MoveSound DEF PTypeOK
  <1>4. mine.at \in {"opened", "locked", "probed"} =>
            /\ mine.left > 0 /\ mine.port \in PPorts
            /\ mine.left - 1 \in Nat /\ mine.max - 1 \in Nat /\ mine.left - 1 <= mine.max
    <2>1. mine.at \in {"opened", "locked", "probed"} => mine.left > 0 /\ mine.port \in PPorts
      BY Zenon, <1>1 DEF Sound, Consistent
    <2> HIDE DEF mine
    <2> QED
      BY <1>1, <2>1
  <1>5. CASE FlockTimesOut(w)
    <2> DEFINE me == Searching(mine.name, mine.left - 1, mine.max)
    <2>1. mine.at = "opened" /\ pworker' = [pworker EXCEPT ![w] = me] /\ UNCHANGED pbroken
      BY Zenon, <1>5 DEF FlockTimesOut
    <2>2. me \in PWorkerStates
      BY Zenon, <1>1, <1>4, <2>1 DEF PWorkerStates, PStages, Searching, Worker
    <2>3. me.at = "searching" /\ me.fd = NoFile /\ me.left = mine.left - 1 /\ me.max = mine.max
      BY Zenon DEF Searching, Worker
    <2> HIDE DEF me
    <2>4. pworker'[w] = me => Sound(w)'
      BY Zenon, <1>4, <2>1, <2>3 DEF Sound, Consistent, OpenIsNamed, HoldsLock, ProbedIsFree, Locking
    <2> QED
      BY Zenon, <1>2, <1>3, <2>1, <2>2, <2>4
  <1>6. CASE ProbePort(w) \/ ProbeDocker(w)
    <2> DEFINE stays(at) == Worker(at, mine.name, mine.port, mine.fd, mine.left, mine.max)
               gives(left, max) == Worker("releasing", mine.name, mine.port, mine.fd, left, max)
    <2>1. /\ mine.at \in {"locked", "probed"} /\ UNCHANGED pbroken
          /\ \/ /\ PortFree(mine.port)
                /\ \E at \in {"probed", "held"} : pworker' = [pworker EXCEPT ![w] = stays(at)]
             \/ \E max \in {mine.max, mine.max - 1} :
                   \E left \in {mine.left - 1, max} :
                      left <= max /\ pworker' = [pworker EXCEPT ![w] = gives(left, max)]
      <3>1. CASE ProbePort(w)
        <4>1. mine.at = "locked" /\ UNCHANGED pbroken
          BY Zenon, <3>1 DEF ProbePort
        <4>2. CASE PortFree(mine.port)
          BY Zenon, <1>1, <3>1, <4>1, <4>2, GoesTo DEF ProbePort
        <4>3. CASE ~PortFree(mine.port)
          BY Zenon, <1>4, <3>1, <4>1, <4>3 DEF ProbePort
        <4> QED
          BY Zenon, <4>2, <4>3
      <3>2. CASE ProbeDocker(w)
        <4>1. mine.at = "probed" /\ UNCHANGED pbroken
          BY Zenon, <3>2 DEF ProbeDocker
        <4>2. CASE PortFree(mine.port)
          BY Zenon, <1>1, <3>2, <4>1, <4>2, GoesTo DEF ProbeDocker
        <4>3. CASE ~PortFree(mine.port)
          <5>1. pworker' = [pworker EXCEPT ![w] = gives(mine.max - 1, mine.max - 1)]
            BY Zenon, <3>2, <4>3 DEF ProbeDocker
          <5>2. mine.max - 1 <= mine.max - 1
            <6> HIDE DEF mine
            <6> QED
              BY <1>1
          <5> QED
            BY Zenon, <4>1, <5>1, <5>2
        <4> QED
          BY Zenon, <4>2, <4>3
      <3> QED
        BY Zenon, <1>6, <3>1, <3>2
    <2>2. CASE PortFree(mine.port) /\ \E at \in {"probed", "held"} : pworker' = [pworker EXCEPT ![w] = stays(at)]
      <3>1. PICK at \in {"probed", "held"} : pworker' = [pworker EXCEPT ![w] = stays(at)]
        BY Zenon, <2>2
      <3> DEFINE me == stays(at)
      <3>2. me \in PWorkerStates
        BY Zenon, <1>1 DEF PWorkerStates, PStages, Worker
      <3>3. me.at = at /\ me.port = mine.port /\ me.fd = mine.fd /\ me.left = mine.left /\ me.max = mine.max
        BY Zenon DEF Worker
      <3> HIDE DEF me, stays
      <3>4. \A n \in PNames : pcontainer'[n].port = mine.port => pcontainer'[n].is # "run"
        BY Zenon, <1>2, <2>2 DEF PortFree
      <3>5. pworker'[w] = me => Sound(w)'
        BY ZenonT(60), <1>1, <1>2, <1>4, <2>1, <3>3, <3>4
           DEF Sound, Consistent, OpenIsNamed, HoldsLock, ProbedIsFree, Locking
      <3> QED
        BY Zenon, <1>2, <1>3, <2>1, <3>1, <3>2, <3>5 DEF me
    <2>3. ASSUME NEW max \in {mine.max, mine.max - 1}, NEW left \in {mine.left - 1, max}, left <= max,
                 pworker' = [pworker EXCEPT ![w] = gives(left, max)]
          PROVE  PInv'
      <3> DEFINE me == gives(left, max)
      <3>1. left \in Nat /\ max \in Nat
        BY Zenon, <1>1, <1>4, <2>1
      <3>2. me \in PWorkerStates
        BY Zenon, <1>1, <3>1 DEF PWorkerStates, PStages, Worker
      <3>3. me.at = "releasing" /\ me.port = mine.port /\ me.fd = mine.fd /\ me.left = left /\ me.max = max
        BY Zenon DEF Worker
      <3> HIDE DEF me, gives
      <3>4. pworker'[w] = me => Sound(w)'
        <4>1. pworker'[w] = me => Consistent(w)'
          BY Zenon, <1>1, <1>2, <1>4, <2>1, <2>3, <3>3 DEF Sound, Consistent
        <4>2. pworker'[w] = me => OpenIsNamed(w)'
          BY <1>1, <1>2, <1>4, <2>1, <2>3, <3>3 DEF Sound, OpenIsNamed
        <4>3. pworker'[w] = me => HoldsLock(w)'
          BY <1>1, <1>2, <1>4, <2>1, <2>3, <3>3 DEF Sound, HoldsLock, Locking
        <4>4. pworker'[w] = me => ProbedIsFree(w)'
          BY Zenon, <1>1, <1>2, <1>4, <2>1, <2>3, <3>3 DEF ProbedIsFree
        <4> QED
          BY Zenon, <4>1, <4>2, <4>3, <4>4 DEF Sound
      <3> QED
        BY Zenon, <1>2, <1>3, <2>1, <2>3, <3>2, <3>4 DEF me
    <2> QED
      BY Zenon, <2>1, <2>2, <2>3
  <1>7. ASSUME NEW p \in PPorts, FallBack(w, p) PROVE PInv'
    <2> DEFINE me == Worker("held", mine.name, p, mine.fd, mine.left, mine.max)
    <2>1. mine.at = "searching" /\ pworker' = [pworker EXCEPT ![w] = me] /\ pbroken' = pbroken \cup {p}
      BY Zenon, <1>7 DEF FallBack
    <2>2. me \in PWorkerStates
      BY Zenon, <1>1 DEF PWorkerStates, PStages, Worker
    <2>3. me.at = "held" /\ me.port = p /\ me.fd = mine.fd /\ me.left = mine.left /\ me.max = mine.max
      BY Zenon DEF Worker
    <2> HIDE DEF me
    <2>4. mine.fd = NoFile
      BY Zenon, <1>1, <2>1 DEF Sound, Consistent
    <2>5. pworker'[w] = me => Sound(w)'
      <3>1. pworker'[w] = me => Consistent(w)'
        BY Zenon, <1>1, <2>1, <2>3, <2>4 DEF Sound, Consistent
      <3>2. pworker'[w] = me => OpenIsNamed(w)'
        BY Zenon, <1>1, <2>1, <2>3, <2>4 DEF Sound, OpenIsNamed
      <3>3. pworker'[w] = me => HoldsLock(w)'
        BY <1>1, <2>1, <2>3, <2>4 DEF Sound, HoldsLock, Locking
      <3>4. pworker'[w] = me => ProbedIsFree(w)'
        BY <1>1, <2>1, <2>3, <2>4 DEF ProbedIsFree
      <3> QED
        BY Zenon, <3>1, <3>2, <3>3, <3>4 DEF Sound
    <2> QED
      BY Zenon, <1>2, <1>3, <2>1, <2>2, <2>5
  <1> QED
    BY Zenon, <1>5, <1>6, <1>7

(* A container is run on a port that nobody else has found free. *)
LEMMA StartSound ==
    ASSUME PInv, NEW w \in PWorkers, StartContainer(w)
    PROVE  PInv'
  <1> DEFINE mine == pworker[w]
             me(at) == Worker(at, mine.name, mine.port, mine.fd, mine.left, mine.max)
  <1>1. PTypeOK /\ Sound(w) /\ mine.port \in PPorts /\ mine.at = "held"
    BY Zenon, WorkerFacts DEF StartContainer, Sound, Consistent
  <1>2. /\ UNCHANGED <<pfile, pnext, pflock, pbroken>>
        /\ \/ Go(w, "running") /\ pcontainer' = [pcontainer EXCEPT ![mine.name] = Container("run", mine.port)]
           \/ Go(w, "failed") /\ UNCHANGED pcontainer
    BY Zenon DEF StartContainer
  <1>3. PICK at \in {"running", "failed"} : pworker' = [pworker EXCEPT ![w] = me(at)]
    BY Zenon, <1>1, <1>2, GoesTo
  <1>4. /\ me(at) \in PWorkerStates /\ me(at).at = at /\ me(at).port = mine.port /\ me(at).fd = mine.fd
        /\ me(at).left = mine.left /\ me(at).max = mine.max
    BY Zenon, WorkerFacts DEF PWorkerStates, PStages, Worker
  <1> HIDE DEF me
  <1>5. /\ pcontainer' \in [PNames -> PContainers]
        /\ \A n \in PNames : pcontainer'[n] # pcontainer[n] => pcontainer'[n].port = mine.port
    BY <1>1, <1>2 DEF PTypeOK, PContainers, Container
  <1>6. PTypeOK' /\ pworker'[w] = me(at) /\ \A v \in PWorkers \ {w} : pworker'[v] = pworker[v]
    BY Zenon, <1>1, <1>2, <1>3, <1>4, <1>5, PTypesKept DEF PTypeOK
  <1>7. Sound(w)'
    BY Zenon, <1>1, <1>2, <1>4, <1>6 DEF Sound, Consistent, OpenIsNamed, HoldsLock, ProbedIsFree, Locking
  <1>8. ASSUME NEW v \in PWorkers \ {w} PROVE Sound(v)'
    <2>1. pworker[v].at \in {"probed", "held"} /\ pworker[v].port \notin pbroken => pworker[v].port # mine.port
      BY Zenon, <1>1, LockedOnce DEF Locking
    <2> QED
      BY Zenon, <1>2, <1>5, <1>6, <2>1, BystanderSound
  <1> QED
    BY Zenon, <1>6, <1>7, <1>8 DEF PInv

(* A runtime is closed: its container is stopped, or all are, or none. *)
LEMMA CloseSound ==
    ASSUME PInv, NEW w \in PWorkers, CloseRuntime(w)
    PROVE  PInv'
  <1> DEFINE mine == pworker[w]
             me(at) == Worker(at, mine.name, mine.port, mine.fd, mine.left, mine.max)
  <1>1. PTypeOK /\ Sound(w) /\ mine.at \in {"running", "failed", "attached"}
    BY Zenon, WorkerFacts DEF CloseRuntime
  <1>2. /\ UNCHANGED <<pfile, pnext, pflock, pbroken>>
        /\ UNCHANGED pcontainer \/ \E names : pcontainer' = Stopped(names)
    BY Zenon DEF CloseRuntime
  <1>3. \/ pworker' = [pworker EXCEPT ![w] = PIdle]
        \/ mine.fd # NoFile /\ \E at \in {"closing", "kept"} : pworker' = [pworker EXCEPT ![w] = me(at)]
    BY Zenon, <1>1, GoesTo DEF CloseRuntime
  <1>4. /\ pcontainer' \in [PNames -> PContainers]
        /\ \A n \in PNames : pcontainer'[n].is = "run" => pcontainer'[n] = pcontainer[n]
    BY Zenon, <1>1, <1>2, StoppedRunsNone DEF PTypeOK
  <1>5. ASSUME NEW next \in PWorkerStates, pworker' = [pworker EXCEPT ![w] = next],
               pworker'[w] = next => Sound(w)'
        PROVE  PInv'
    <2>1. PTypeOK' /\ pworker'[w] = next /\ \A v \in PWorkers \ {w} : pworker'[v] = pworker[v]
      BY Zenon, <1>1, <1>2, <1>4, <1>5, PTypesKept DEF PTypeOK
    <2>2. ASSUME NEW v \in PWorkers \ {w} PROVE Sound(v)'
      BY Zenon, <1>2, <1>4, <2>1, BystanderSound
    <2> QED
      BY Zenon, <1>5, <2>1, <2>2 DEF PInv
  <1>6. CASE pworker' = [pworker EXCEPT ![w] = PIdle]
    BY Zenon, <1>5, <1>6, IdleSound
  <1>7. ASSUME NEW at \in {"closing", "kept"}, mine.fd # NoFile, pworker' = [pworker EXCEPT ![w] = me(at)]
        PROVE  PInv'
    <2>1. /\ me(at) \in PWorkerStates /\ me(at).at = at /\ me(at).port = mine.port /\ me(at).fd = mine.fd
          /\ me(at).left = mine.left /\ me(at).max = mine.max
      BY Zenon, WorkerFacts DEF PWorkerStates, PStages, Worker
    <2>2. mine.at \in {"running", "failed"} /\ mine.port \in PPorts
      BY Zenon, <1>1, <1>7 DEF Sound, Consistent
    <2> HIDE DEF me
    <2>3. pworker'[w] = me(at) => Sound(w)'
      <3>1. pworker'[w] = me(at) => Consistent(w)'
        BY Zenon, <1>1, <1>2, <1>7, <2>1, <2>2 DEF Sound, Consistent
      <3>2. pworker'[w] = me(at) => OpenIsNamed(w)'
        BY <1>1, <1>2, <1>7, <2>1, <2>2 DEF Sound, OpenIsNamed
      <3>3. pworker'[w] = me(at) => HoldsLock(w)'
        BY Zenon, <1>1, <1>2, <1>7, <2>1, <2>2 DEF Sound, HoldsLock, Locking
      <3>4. pworker'[w] = me(at) => ProbedIsFree(w)'
        BY Zenon, <1>1, <1>2, <1>7, <2>1, <2>2 DEF ProbedIsFree
      <3> QED
        BY Zenon, <3>1, <3>2, <3>3, <3>4 DEF Sound
    <2> QED
      BY Zenon, <1>5, <1>7, <2>1, <2>3
  <1> QED
    BY Zenon, <1>3, <1>6, <1>7

(* A lock is released by the worker that has it. *)
LEMMA ReleaseSound ==
    ASSUME PInv, NEW w \in PWorkers, Release(w)
    PROVE  PInv'
  <1> DEFINE mine == pworker[w]
             me(at) == Worker(at, mine.name, mine.port, NoFile, mine.left, mine.max)
  <1>1. PTypeOK /\ Sound(w) /\ mine.at \in {"releasing", "closing"}
    BY Zenon, WorkerFacts DEF Release
  <1>2. /\ \E at \in {"ending", "unlinking"} : pworker' = [pworker EXCEPT ![w] = me(at)]
        /\ pflock' = [pflock EXCEPT ![mine.fd] = Nobody]
        /\ UNCHANGED <<pfile, pnext, pcontainer, pbroken>>
    BY Zenon DEF Release
  <1>3. PICK at \in {"ending", "unlinking"} : pworker' = [pworker EXCEPT ![w] = me(at)]
    BY Zenon, <1>2
  <1>4. /\ me(at) \in PWorkerStates /\ me(at).at = at /\ me(at).port = mine.port /\ me(at).fd = NoFile
        /\ me(at).left = mine.left /\ me(at).max = mine.max
    BY Zenon, WorkerFacts DEF PWorkerStates, PStages, Worker
  <1> HIDE DEF me
  <1>5. mine.port \in PPorts /\ pflock[mine.fd] = w
    BY Zenon, <1>1 DEF Sound, Consistent, HoldsLock, Locking
  <1>6. /\ pflock' \in [Files -> PWorkers \cup {Nobody}]
        /\ \A v \in PWorkers \ {w}, f \in Files : pflock[f] = v => pflock'[f] = v
    BY Zenon, <1>1, <1>2, <1>5 DEF PTypeOK
  <1>7. PTypeOK' /\ pworker'[w] = me(at) /\ \A v \in PWorkers \ {w} : pworker'[v] = pworker[v]
    BY Zenon, <1>1, <1>2, <1>3, <1>4, <1>6, PTypesKept DEF PTypeOK
  <1>8. Sound(w)'
    BY Zenon, <1>1, <1>4, <1>5, <1>7 DEF Sound, Consistent, OpenIsNamed, HoldsLock, ProbedIsFree, Locking
  <1>9. ASSUME NEW v \in PWorkers \ {w} PROVE Sound(v)'
    BY Zenon, <1>2, <1>6, <1>7, BystanderSound
  <1> QED
    BY Zenon, <1>7, <1>8, <1>9 DEF PInv

(* The name is unlinked, by the worker that released the lock ... *)
LEMMA UnlinkSound ==
    ASSUME PInv, NEW w \in PWorkers, Unlink(w)
    PROVE  PInv'
  <1> DEFINE mine == pworker[w]
             searching == Searching(mine.name, mine.left, mine.max)
  <1>1. PTypeOK /\ Sound(w) /\ mine.port \in PPorts /\ Unlinked(mine.port)
    BY Zenon, WorkerFacts DEF Unlink, Sound, Consistent
  <1>2. /\ \E me \in {searching, PIdle} : pworker' = [pworker EXCEPT ![w] = me]
        /\ UNCHANGED <<pnext, pflock, pcontainer>>
    BY Zenon DEF Unlink
  <1>3. /\ searching \in PWorkerStates /\ searching.at = "searching" /\ searching.fd = NoFile
        /\ searching.left <= searching.max
    BY Zenon, WorkerFacts DEF PWorkerStates, PStages, Searching, Worker
  <1>4. \A me \in {searching, PIdle} : me \in PWorkerStates /\ (pworker'[w] = me => Sound(w)')
    <2> HIDE DEF searching
    <2>1. pworker'[w] = searching => Sound(w)'
      BY Zenon, <1>3 DEF Sound, Consistent, OpenIsNamed, HoldsLock, ProbedIsFree, Locking
    <2> QED
      BY Zenon, <1>3, <2>1, IdleSound
  <1>5. PICK me \in {searching, PIdle} : pworker' = [pworker EXCEPT ![w] = me]
    BY Zenon, <1>2
  <1> HIDE DEF searching
  <1>6. PTypeOK' /\ pworker'[w] = me /\ \A v \in PWorkers \ {w} : pworker'[v] = pworker[v]
    BY Zenon, <1>1, <1>2, <1>4, <1>5, UnlinkedBreaks, PTypesKept DEF PTypeOK
  <1>7. ASSUME NEW v \in PWorkers \ {w} PROVE Sound(v)'
    BY Zenon, <1>1, <1>2, <1>6, UnlinkedBreaks, BystanderSound
  <1> QED
    BY Zenon, <1>4, <1>6, <1>7 DEF PInv

(* ... or as a stale file, whoever has it. *)
LEMMA CleanupSound ==
    ASSUME PInv, NEW w \in PWorkers, NEW p \in PPorts, CleanupStaleLocks(w, p)
    PROVE  PInv'
  <1>1. Unlinked(p) /\ UNCHANGED <<pnext, pflock, pworker, pcontainer>>
    BY Zenon DEF CleanupStaleLocks
  <1>2. PTypeOK'
    BY Zenon, <1>1, UnlinkedBreaks DEF PInv, PTypeOK
  <1>3. ASSUME NEW v \in PWorkers PROVE Sound(v)'
    BY Zenon, <1>1, UnlinkedBreaks, BystanderSound
  <1> QED
    BY Zenon, <1>2, <1>3 DEF PInv

(* A container is removed. *)
LEMMA DeleteSound ==
    ASSUME PInv, NEW n \in PNames, Delete(n)
    PROVE  PInv'
  <1>1. pcontainer' = [pcontainer EXCEPT ![n] = NoContainer] /\ UNCHANGED <<pfile, pnext, pflock, pworker, pbroken>>
    BY Zenon DEF Delete
  <1>2. /\ pcontainer' \in [PNames -> PContainers]
        /\ \A m \in PNames : pcontainer'[m].is = "run" => pcontainer'[m] = pcontainer[m]
    BY <1>1 DEF PInv, PTypeOK, PContainers, NoContainer, Container
  <1>3. ASSUME NEW v \in PWorkers PROVE Sound(v)'
    BY Zenon, <1>1, <1>2, BystanderSound
  <1> QED
    BY Zenon, <1>1, <1>2, <1>3 DEF PInv, PTypeOK

(* A process dies, and its locks with it. *)
LEMMA DieSound ==
    ASSUME PInv, NEW w \in PWorkers, Die(w)
    PROVE  PInv'
  <1>1. PTypeOK
    BY Zenon DEF PInv
  <1>2. /\ pflock' = [f \in Files |-> IF pflock[f] = w THEN Nobody ELSE pflock[f]]
        /\ pworker' = [pworker EXCEPT ![w] = PIdle]
        /\ UNCHANGED pcontainer \/ pcontainer' = Stopped(PNames)
        /\ UNCHANGED <<pfile, pnext, pbroken>>
    BY Zenon DEF Die
  <1>3. /\ pcontainer' \in [PNames -> PContainers]
        /\ \A n \in PNames : pcontainer'[n].is = "run" => pcontainer'[n] = pcontainer[n]
    BY Zenon, <1>1, <1>2, StoppedRunsNone DEF PTypeOK
  <1>4. /\ pflock' \in [Files -> PWorkers \cup {Nobody}]
        /\ \A v \in PWorkers \ {w}, f \in Files : pflock[f] = v => pflock'[f] = v
    BY Zenon, <1>1, <1>2 DEF PTypeOK
  <1>5. PTypeOK' /\ pworker'[w] = PIdle /\ \A v \in PWorkers \ {w} : pworker'[v] = pworker[v]
    BY Zenon, <1>1, <1>2, <1>3, <1>4, IdleSound, PTypesKept DEF PTypeOK
  <1>6. ASSUME NEW v \in PWorkers \ {w} PROVE Sound(v)'
    BY Zenon, <1>2, <1>3, <1>4, <1>5, BystanderSound
  <1> QED
    BY Zenon, <1>5, <1>6, IdleSound DEF PInv

(* The invariant holds in every reachable state. *)
THEOREM PortInvariant == PSpec => []PInv
  <1>1. PInv /\ [PNext]_pvars => PInv'
    <2> SUFFICES ASSUME PInv, [PNext]_pvars PROVE PInv'
      BY Zenon
    <2>1. CASE UNCHANGED pvars
      BY Zenon, <2>1 DEF pvars, PInv, PTypeOK, Sound, Consistent, OpenIsNamed, HoldsLock, ProbedIsFree
    <2>2. CASE PNext
      BY Zenon, <2>2, ConnectSound, OpenSound, FlockSound, SearchSound, StartSound, CloseSound,
         ReleaseSound, UnlinkSound, CleanupSound, DeleteSound, DieSound DEF PNext
    <2> QED
      BY Zenon, <2>1, <2>2
  <1> QED
    BY PInitInv, <1>1, PTL DEF PSpec

(* A port is given to one worker at a time until its lock is broken: for   *)
(* find_available_port_with_lock and DockerRuntime with any number of      *)
(* workers, of whom any may die at any step, and with cleanup_stale_locks  *)
(* at any moment.                                                          *)
THEOREM PortsAreGivenOnce == PSpec => []PortGivenOnce
  <1>1. PInv => PortGivenOnce
    BY ZenonT(60), LockedOnce DEF PortGivenOnce, Owning, Locking
  <1> QED
    BY PortInvariant, <1>1, PTL

(* A container that is run finds its port free, as long as the lock is     *)
(* unbroken and no exited container was started again there.               *)
THEOREM StartsFindPortsFree == PSpec => []StartFindsPortFree
  <1>1. PInv => StartFindsPortFree
    BY Zenon DEF PInv, Sound, StartFindsPortFree, ProbedIsFree
  <1> QED
    BY PortInvariant, <1>1, PTL

----------------------------------------------------------------------------
(***************************************************************************)
(* The V1 conversation records.                                            *)
(*                                                                         *)
(* For any number of concurrent handlers and any number of requests: what  *)
(* the start request stored and the title that was made or given stay in   *)
(* the record, but for saves of a stale copy, and a disabled callback      *)
(* stays disabled.                                                         *)
(***************************************************************************)

Records == [repo : BOOLEAN, title : {"none", "default", "generated", "renamed"},
            cost : Nat, public : BOOLEAN]

(* The stages in which a handler runs the callback. *)
Working == {"invoked", "titling", "titled", "done"}

HandlerStates ==
    [at : {"idle", "update", "poll", "user", "rename", "callbacks"} \cup Working,
     copy : Records, event : AEvents \cup {"none"}, row : Statuses, own : Statuses]

(* The callback was active when it was read, and only its processor may    *)
(* have disabled the copy.                                                 *)
Follows(me) == me.at \in Working => me.row = "active" /\ me.own \in {"active", "disabled"}

(* The inductive invariant: a callback exists, and is worked on, only once *)
(* the start has registered it, after its own save.                        *)
AInv ==
    /\ arow \in Records /\ ahandler \in [AHandlers -> HandlerStates]
    /\ acallback # "none" => astart = "ready"
    /\ \A h \in AHandlers : /\ Follows(ahandler[h])
                            /\ ahandler[h].at \in Working => acallback # "none"

(* What is to be shown of a step *)
AGood == AInv' /\ (acallback = "disabled" => acallback' = "disabled") /\ KeepsRecord

-----------------------------------------------------------------------------
(* The initial state satisfies the invariant. *)
LEMMA AInitInv == AInit => AInv
  BY DEF AInit, AInv, AIdle, NoRow, Records, HandlerStates, Statuses, Follows, Working

(* A handler moves, and leaves the callback as it is or disables it. *)
LEMMA HandlerMoves ==
    ASSUME AInv, NEW h \in AHandlers, NEW me \in HandlerStates, Follows(me),
           ahandler' = [ahandler EXCEPT ![h] = me], arow' \in Records, astart' = astart,
           acallback' \in {acallback, "disabled"},
           acallback' # acallback \/ me.at \in Working => acallback # "none"
    PROVE  AInv' /\ (acallback = "disabled" => acallback' = "disabled") /\ ahandler'[h] = me
  <1>1. /\ ahandler' \in [AHandlers -> HandlerStates] /\ ahandler'[h] = me
        /\ \A g \in AHandlers \ {h} : ahandler'[g] = ahandler[g]
    BY Zenon DEF AInv
  <1>2. acallback # "none" => acallback' # "none"
    BY Zenon
  <1>3. ASSUME NEW g \in AHandlers
        PROVE  Follows(ahandler'[g]) /\ (ahandler'[g].at \in Working => acallback' # "none")
    BY Zenon, <1>1, <1>2 DEF AInv
  <1>4. acallback' # "none" => astart' = "ready"
    BY Zenon DEF AInv
  <1> QED
    BY Zenon, <1>1, <1>3, <1>4 DEF AInv, Follows

(* The states a handler moves to *)
LEMMA HandlerForms ==
    ASSUME AInv
    PROVE  /\ AIdle \in HandlerStates /\ Follows(AIdle) /\ AIdle.at = "idle"
           /\ \A at \in {"update", "poll", "user", "rename"} :
                 LET me == [at |-> at, copy |-> arow, event |-> "none", row |-> "none", own |-> "none"]
                 IN me \in HandlerStates /\ Follows(me) /\ me.at = at
           /\ \A at \in {"callbacks", "invoked", "done"}, event \in AEvents, status \in {"none", "active"} :
                 LET me == [at |-> at, copy |-> NoRow, event |-> event, row |-> status, own |-> status]
                 IN /\ me \in HandlerStates /\ me.at = at
                    /\ at = "callbacks" \/ status = "active" => Follows(me)
  <1>1. NoRow \in Records /\ arow \in Records
    BY DEF AInv, NoRow, Records
  <1>2. AIdle \in HandlerStates /\ Follows(AIdle) /\ AIdle.at = "idle"
    BY <1>1 DEF AIdle, HandlerStates, Statuses, Follows, Working
  <1>3. ASSUME NEW at \in {"update", "poll", "user", "rename"}
        PROVE  LET me == [at |-> at, copy |-> arow, event |-> "none", row |-> "none", own |-> "none"]
               IN me \in HandlerStates /\ Follows(me) /\ me.at = at
    BY Zenon, <1>1 DEF HandlerStates, Statuses, Follows, Working
  <1>4. ASSUME NEW at \in {"callbacks", "invoked", "done"}, NEW event \in AEvents,
               NEW status \in {"none", "active"}
        PROVE  LET me == [at |-> at, copy |-> NoRow, event |-> event, row |-> status, own |-> status]
               IN /\ me \in HandlerStates /\ me.at = at
                  /\ at = "callbacks" \/ status = "active" => Follows(me)
    BY <1>1 DEF HandlerStates, Statuses, Follows, Working
  <1> QED
    BY Zenon, <1>2, <1>3, <1>4

(* A handler begins, and has read the record. *)
LEMMA ReadGood ==
    ASSUME AInv, NEW h \in AHandlers, NEW at \in {"update", "poll", "user", "rename"}, HasRead(h, at),
           UNCHANGED <<arow, astart, acallback>>
    PROVE  AGood
  <1> DEFINE me == [at |-> at, copy |-> arow, event |-> "none", row |-> "none", own |-> "none"]
  <1>1. ahandler' = [ahandler EXCEPT ![h] = me] /\ me \in HandlerStates /\ Follows(me) /\ me.at \notin Working
    BY Zenon, HandlerForms DEF HasRead, Working
  <1>2. arow \in Records
    BY Zenon DEF AInv
  <1> HIDE DEF me
  <1> QED
    BY Zenon, <1>1, <1>2, HandlerMoves DEF AGood, KeepsRecord

(* A handler ends. *)
LEMMA FinishGood ==
    ASSUME AInv, NEW h \in AHandlers, Finish(h), UNCHANGED astart, arow' \in Records, KeepsRecord,
           acallback' \in {acallback, "disabled"}, acallback' # acallback => acallback # "none"
    PROVE  AGood
  <1>1. AIdle.at \notin Working
    BY Zenon, HandlerForms DEF Working
  <1> QED
    BY Zenon, <1>1, HandlerForms, HandlerMoves DEF Finish, AGood

(* A handler turns to an event. *)
LEMMA RunsGood ==
    ASSUME AInv, NEW h \in AHandlers, NEW at \in {"callbacks", "invoked", "done"}, NEW event \in AEvents,
           NEW status \in {"none", "active"}, Runs(h, at, event, status, status),
           at = "callbacks" \/ (status = "active" /\ acallback = "active"),
           UNCHANGED astart, arow' \in Records, KeepsRecord,
           acallback' \in {acallback, "disabled"}, acallback' # acallback => acallback # "none"
    PROVE  AGood
  <1> DEFINE me == [at |-> at, copy |-> NoRow, event |-> event, row |-> status, own |-> status]
  <1>1. /\ ahandler' = [ahandler EXCEPT ![h] = me] /\ me \in HandlerStates /\ Follows(me)
        /\ me.at \in Working => acallback # "none"
    BY Zenon, HandlerForms DEF Runs, Working
  <1> HIDE DEF me
  <1> QED
    BY Zenon, <1>1, HandlerMoves DEF AGood

(* The next event of a batch, or none *)
LEMMA ContinueGood ==
    ASSUME AInv, NEW h \in AHandlers, Continue(h), UNCHANGED astart, arow' \in Records, KeepsRecord,
           acallback' \in {acallback, "disabled"}, acallback' # acallback => acallback # "none"
    PROVE  AGood
  BY Zenon, FinishGood, RunsGood DEF Continue

(* A processor fails. *)
LEMMA FailsGood ==
    ASSUME AInv, NEW h \in AHandlers, ahandler[h].at \in {"invoked", "titling"}, Fails(h),
           UNCHANGED <<arow, astart, acallback>>
    PROVE  AGood
  <1>1. arow \in Records /\ ahandler[h] \in HandlerStates /\ Follows(ahandler[h])
        /\ KeepsRecord /\ acallback # "none" /\ ahandler[h].at \in Working
    BY Zenon DEF AInv, KeepsRecord, Working
  <1>2. CASE Finish(h)
    BY Zenon, <1>1, <1>2, FinishGood
  <1>3. CASE ahandler' = [ahandler EXCEPT ![h].at = "done"]
    <2> DEFINE me == [ahandler[h] EXCEPT !.at = "done"]
    <2>1. ahandler' = [ahandler EXCEPT ![h] = me]
      BY Zenon, <1>3
    <2>2. me \in HandlerStates /\ me.row = ahandler[h].row /\ me.own = ahandler[h].own
      BY Zenon, <1>1 DEF HandlerStates, Working
    <2> HIDE DEF me
    <2>3. Follows(me)
      BY Zenon, <1>1, <2>2 DEF Follows
    <2> QED
      BY Zenon, <1>1, <2>1, <2>2, <2>3, HandlerMoves DEF AGood
  <1> QED
    BY Zenon, <1>2, <1>3 DEF Fails

(* What a save does to the two fields: it stores those of the copy, or the *)
(* copy is stale.                                                          *)
LEMMA SaveKeeps ==
    ASSUME AInv, NEW h \in AHandlers, ahandler[h].at \in Savers, ahandler'[h].at # ahandler[h].at,
           ahandler[h].copy.repo => arow'.repo,
           ahandler[h].copy.title \in MadeTitles => arow'.title \in MadeTitles
    PROVE  KeepsRecord
  <1>1. arow.repo => arow'.repo \/ StaleSave("repo")
    <2>1. CASE ahandler[h].copy["repo"] = arow["repo"]
      BY <2>1
    <2>2. CASE ahandler[h].copy["repo"] # arow["repo"]
      BY Zenon, <2>2 DEF StaleSave
    <2> QED
      BY Zenon, <2>1, <2>2
  <1>2. arow.title \in MadeTitles => arow'.title \in MadeTitles \/ StaleSave("title")
    <2>1. CASE ahandler[h].copy["title"] = arow["title"]
      BY <2>1
    <2>2. CASE ahandler[h].copy["title"] # arow["title"]
      BY Zenon, <2>2 DEF StaleSave
    <2> QED
      BY Zenon, <2>1, <2>2
  <1> QED
    BY Zenon, <1>1, <1>2 DEF KeepsRecord

(* A save by which the handler ends. *)
LEMMA LastSaveGood ==
    ASSUME AInv, NEW h \in AHandlers, ahandler[h].at \in Savers, NEW row \in Records, Save(row), Finish(h),
           ahandler[h].copy.repo => row.repo,
           ahandler[h].copy.title \in MadeTitles => row.title \in MadeTitles,
           UNCHANGED <<astart, acallback>>
    PROVE  AGood
  <1>1. ahandler'[h].at = "idle" /\ arow' = row
    BY Zenon, HandlerForms DEF AInv, Finish, Save
  <1>2. ahandler'[h].at # ahandler[h].at
    BY <1>1 DEF Savers
  <1> QED
    BY Zenon, <1>1, <1>2, SaveKeeps, FinishGood

-----------------------------------------------------------------------------
(* Every step of a handler is good: of those that write the record, ... *)
LEMMA SaveStepsGood ==
    ASSUME AInv, NEW h \in AHandlers,
           UpdateSaves(h) \/ PollSaves(h) \/ UserSaves(h) \/ RenameSaves(h) \/ TitleSaves(h)
    PROVE  AGood
  <1> DEFINE copy == ahandler[h].copy
  <1>1. arow \in Records /\ ahandler[h] \in HandlerStates /\ copy \in Records
    BY Zenon DEF AInv, HandlerStates
  <1>2. CASE UpdateSaves(h)
    <2> DEFINE row == [repo |-> copy.repo, cost |-> 0, public |-> FALSE,
                       title |-> IF copy.title = "none" THEN "default" ELSE copy.title]
    <2>1. ahandler[h].at \in Savers /\ Save(row) /\ Finish(h) /\ UNCHANGED <<astart, acallback>>
      BY Zenon, <1>2 DEF UpdateSaves, Savers
    <2>2. row.repo = copy.repo /\ (copy.title \in MadeTitles => row.title = copy.title)
      BY DEF MadeTitles
    <2>3. row \in Records
      BY <1>1 DEF Records
    <2> HIDE DEF row
    <2> QED
      BY Zenon, <2>1, <2>2, <2>3, LastSaveGood
  <1>3. CASE PollSaves(h)
    <2>1. /\ ahandler[h].at = "poll" /\ UNCHANGED <<astart, acallback>>
          /\ (Save(copy) /\ Continue(h)) \/ (UNCHANGED arow /\ Finish(h))
      BY Zenon, <1>3 DEF PollSaves
    <2>2. CASE Save(copy) /\ Continue(h)
      <3>1. ahandler'[h].at \in {"idle", "callbacks"}
        <4>1. CASE Finish(h)
          BY Zenon, <4>1, HandlerForms DEF AInv, Finish
        <4>2. ASSUME NEW event \in AEvents, Runs(h, "callbacks", event, "none", "none")
              PROVE  ahandler'[h].at \in {"idle", "callbacks"}
          BY Zenon, <4>2 DEF AInv, Runs
        <4> QED
          BY Zenon, <2>2, <4>1, <4>2 DEF Continue
      <3>2. ahandler[h].at \in Savers /\ ahandler'[h].at # ahandler[h].at
        BY <2>1, <3>1 DEF Savers
      <3>3. arow' = copy
        BY Zenon, <2>2 DEF Save
      <3>4. KeepsRecord
        BY Zenon, <3>2, <3>3, SaveKeeps
      <3> QED
        BY Zenon, <1>1, <2>1, <2>2, <3>3, <3>4, ContinueGood
    <2>3. CASE UNCHANGED arow /\ Finish(h)
      BY Zenon, <1>1, <2>1, <2>3, FinishGood DEF KeepsRecord
    <2> QED
      BY Zenon, <2>1, <2>2, <2>3
  <1>4. CASE UserSaves(h)
    <2> DEFINE row == [copy EXCEPT !.public = TRUE]
    <2>1. ahandler[h].at \in Savers /\ Save(row) /\ Finish(h) /\ UNCHANGED <<astart, acallback>>
      BY Zenon, <1>4 DEF UserSaves, Savers
    <2>2. row \in Records /\ row.repo = copy.repo /\ row.title = copy.title
      BY Zenon, <1>1 DEF Records
    <2> HIDE DEF row
    <2> QED
      BY Zenon, <2>1, <2>2, LastSaveGood
  <1>5. CASE RenameSaves(h)
    <2> DEFINE row == [copy EXCEPT !.title = "renamed"]
    <2>1. ahandler[h].at \in Savers /\ Save(row) /\ Finish(h) /\ UNCHANGED <<astart, acallback>>
      BY Zenon, <1>5 DEF RenameSaves, Savers
    <2>2. row \in Records /\ row.repo = copy.repo /\ row.title \in MadeTitles
      BY Zenon, <1>1 DEF Records, MadeTitles
    <2> HIDE DEF row
    <2> QED
      BY Zenon, <2>1, <2>2, LastSaveGood
  <1>6. CASE TitleSaves(h)
    <2> DEFINE row == [copy EXCEPT !.title = "generated"]
               me == [ahandler[h] EXCEPT !.at = "titled", !.copy = NoRow]
    <2>1. /\ ahandler[h].at = "titling" /\ UNCHANGED <<astart, acallback>>
          /\ \/ Save(row) /\ ahandler' = [ahandler EXCEPT ![h] = me]
             \/ UNCHANGED arow /\ Fails(h)
      BY Zenon, <1>6 DEF TitleSaves
    <2>2. CASE Save(row) /\ ahandler' = [ahandler EXCEPT ![h] = me]
      <3>1. row \in Records /\ row.repo = copy.repo /\ row.title \in MadeTitles
        BY Zenon, <1>1 DEF Records, MadeTitles
      <3>2. NoRow \in Records
        BY DEF NoRow, Records
      <3>3. me \in HandlerStates /\ me.at = "titled" /\ me.row = ahandler[h].row /\ me.own = ahandler[h].own
        BY Zenon, <1>1, <3>2 DEF HandlerStates, Working
      <3> HIDE DEF row, me
      <3>4. Follows(me) /\ acallback # "none"
        BY Zenon, <2>1, <3>3 DEF AInv, Follows, Working
      <3>5. arow' = row
        BY Zenon, <2>2 DEF Save
      <3>6. AInv' /\ (acallback = "disabled" => acallback' = "disabled") /\ ahandler'[h] = me
        BY Zenon, <2>1, <2>2, <3>1, <3>3, <3>4, <3>5, HandlerMoves
      <3>7. ahandler[h].at \in Savers /\ ahandler'[h].at # ahandler[h].at
        BY <2>1, <3>3, <3>6 DEF Savers
      <3>8. (ahandler[h].copy.repo => arow'.repo) /\ arow'.title \in MadeTitles
        BY Zenon, <3>1, <3>5
      <3>9. KeepsRecord
        BY Zenon, <3>7, <3>8, SaveKeeps
      <3> QED
        BY Zenon, <3>6, <3>9 DEF AGood
    <2>3. CASE UNCHANGED arow /\ Fails(h)
      BY Zenon, <2>1, <2>3, FailsGood
    <2> QED
      BY Zenon, <2>1, <2>2, <2>3
  <1> QED
    BY Zenon, <1>2, <1>3, <1>4, <1>5, <1>6

(* ... of those that read it or apply the statistics, ... *)
LEMMA ReadStepsGood ==
    ASSUME AInv, NEW h \in AHandlers,
           \/ UpdateReads(h) \/ PollReads(h) \/ UserReads(h) \/ RenameReads(h)
           \/ \E event \in AEvents, cost \in 1..AMaxCost : EventsArrive(h, event, cost)
    PROVE  AGood
  <1>1. arow \in Records
    BY Zenon DEF AInv
  <1>2. CASE UpdateReads(h)
    <2>1. (HasRead(h, "update") \/ Finish(h)) /\ UNCHANGED <<arow, astart, acallback>>
      BY Zenon, <1>2 DEF UpdateReads
    <2> QED
      BY Zenon, <1>1, <2>1, ReadGood, FinishGood DEF KeepsRecord
  <1>3. CASE PollReads(h) \/ UserReads(h) \/ RenameReads(h)
    BY Zenon, <1>3, ReadGood DEF PollReads, UserReads, RenameReads
  <1>4. ASSUME NEW event \in AEvents, NEW cost \in 1..AMaxCost, EventsArrive(h, event, cost)
        PROVE  AGood
    <2>1. /\ arow' \in {arow, [arow EXCEPT !.cost = cost]} /\ UNCHANGED <<astart, acallback>>
          /\ Runs(h, "callbacks", event, "none", "none")
      BY Zenon, <1>4 DEF EventsArrive, WithStats
    <2>2. cost \in Nat
      OBVIOUS
    <2>3. arow' \in Records /\ arow'.repo = arow.repo /\ arow'.title = arow.title
      BY Zenon, <1>1, <2>1, <2>2 DEF Records
    <2>4. KeepsRecord
      BY Zenon, <2>3 DEF KeepsRecord
    <2> QED
      BY Zenon, <2>1, <2>3, <2>4, RunsGood
  <1> QED
    BY Zenon, <1>2, <1>3, <1>4

(* ... and of those that run the callback. *)
LEMMA CallbackStepsGood ==
    ASSUME AInv, NEW h \in AHandlers,
           CallbacksRead(h) \/ TitleReads(h) \/ TitleDisables(h) \/ CallbacksSaved(h)
    PROVE  AGood
  <1>1. /\ arow' = arow /\ arow \in Records /\ UNCHANGED astart /\ KeepsRecord
        /\ ahandler[h] \in HandlerStates /\ Follows(ahandler[h])
        /\ ahandler[h].at \in Working => acallback # "none"
    BY Zenon DEF AInv, CallbacksRead, TitleReads, TitleDisables, CallbacksSaved, KeepsRecord
  <1>2. CASE CallbacksRead(h)
    <2>1. ahandler[h].event \in AEvents \cup {"none"} /\ ahandler[h].at = "callbacks"
      BY Zenon, <1>1, <1>2 DEF HandlerStates, CallbacksRead
    <2>2. CASE acallback # "active"
      BY Zenon, <1>1, <1>2, <2>2, ContinueGood DEF CallbacksRead
    <2>3. CASE acallback = "active"
      <3> DEFINE event == ahandler[h].event
                 me(at) == [at |-> at, copy |-> NoRow, event |-> event, row |-> "active", own |-> "active"]
      <3>1. PICK at \in {"invoked", "done"} : ahandler' = [ahandler EXCEPT ![h] = me(at)]
        BY Zenon, <1>2, <2>3 DEF CallbacksRead, Runs
      <3>2. me(at) \in HandlerStates /\ Follows(me(at))
        <4>1. NoRow \in Records
          BY DEF NoRow, Records
        <4> QED
          BY Zenon, <2>1, <4>1 DEF HandlerStates, Statuses, Follows, Working
      <3> HIDE DEF me
      <3>3. acallback # "none" /\ UNCHANGED acallback
        BY Zenon, <1>2, <2>3 DEF CallbacksRead
      <3> QED
        BY Zenon, <1>1, <3>1, <3>2, <3>3, HandlerMoves DEF AGood
    <2> QED
      BY Zenon, <2>2, <2>3
  <1>3. CASE TitleReads(h)
    <2> DEFINE me == [ahandler[h] EXCEPT !.at = "titling", !.copy = arow]
    <2>1. /\ ahandler[h].at = "invoked" /\ UNCHANGED acallback
          /\ Fails(h) \/ ahandler' = [ahandler EXCEPT ![h] = me]
      BY Zenon, <1>3 DEF TitleReads
    <2>2. CASE Fails(h)
      BY Zenon, <1>1, <2>1, <2>2, FailsGood
    <2>3. CASE ahandler' = [ahandler EXCEPT ![h] = me]
      <3>1. me \in HandlerStates /\ me.row = ahandler[h].row /\ me.own = ahandler[h].own
        BY Zenon, <1>1 DEF HandlerStates, Working
      <3> HIDE DEF me
      <3>2. Follows(me) /\ acallback # "none"
        BY Zenon, <1>1, <2>1, <3>1 DEF Follows, Working
      <3> QED
        BY Zenon, <1>1, <2>1, <2>3, <3>1, <3>2, HandlerMoves DEF AGood
    <2> QED
      BY Zenon, <2>1, <2>2, <2>3
  <1>4. CASE TitleDisables(h)
    <2> DEFINE me == [ahandler[h] EXCEPT !.at = "done", !.own = "disabled"]
    <2>1. ahandler[h].at = "titled" /\ acallback' = "disabled" /\ ahandler' = [ahandler EXCEPT ![h] = me]
      BY Zenon, <1>4 DEF TitleDisables
    <2>2. me \in HandlerStates /\ me.row = ahandler[h].row /\ me.own = "disabled"
      BY Zenon, <1>1 DEF HandlerStates, Working, Statuses
    <2> HIDE DEF me
    <2>3. Follows(me) /\ acallback # "none"
      BY Zenon, <1>1, <2>1, <2>2 DEF Follows, Working
    <2> QED
      BY Zenon, <1>1, <2>1, <2>2, <2>3, HandlerMoves DEF AGood
  <1>5. CASE CallbacksSaved(h)
    <2>1. ahandler[h].at = "done" /\ acallback' = Merged(h) /\ Continue(h)
      BY Zenon, <1>5 DEF CallbacksSaved
    <2>2. acallback # "none" /\ ahandler[h].row = "active" /\ ahandler[h].own \in {"active", "disabled"}
      BY Zenon, <1>1, <2>1 DEF Follows, Working
    <2>3. acallback' \in {acallback, "disabled"}
      BY Zenon, <2>1, <2>2 DEF Merged
    <2> QED
      BY Zenon, <1>1, <2>1, <2>2, <2>3, ContinueGood
  <1> QED
    BY Zenon, <1>2, <1>3, <1>4, <1>5

(* Every step is good. *)
LEMMA ANextInv == AInv /\ ANext => AGood
  <1> SUFFICES ASSUME AInv, ANext PROVE AGood
    BY Zenon
  <1>1. CASE StartPosted
    BY Zenon, <1>1 DEF StartPosted, AGood, AInv, KeepsRecord, Follows
  <1>2. CASE StartSaves
    <2>1. acallback = "none" /\ acallback' = "none" /\ UNCHANGED ahandler
      BY Zenon, <1>2 DEF StartSaves, AInv
    <2>2. astart' # astart
      BY Zenon, <1>2 DEF StartSaves
    <2>3. arow' = [repo |-> TRUE, title |-> "default", cost |-> 0, public |-> FALSE] \/ arow' = arow
      BY Zenon, <1>2 DEF StartSaves, Save
    <2>4. arow' \in Records /\ (arow.repo => arow'.repo)
      <3>1. CASE arow' = arow
        BY Zenon, <3>1 DEF AInv
      <3>2. CASE arow' = [repo |-> TRUE, title |-> "default", cost |-> 0, public |-> FALSE]
        BY <3>2 DEF Records
      <3> QED
        BY Zenon, <2>3, <3>1, <3>2
    <2> QED
      BY Zenon, <2>1, <2>2, <2>4 DEF AGood, AInv, KeepsRecord, Follows
  <1>3. CASE StartRegisters
    <2>1. acallback = "none"
      BY Zenon, <1>3 DEF StartRegisters, AInv
    <2> QED
      BY Zenon, <1>3, <2>1 DEF StartRegisters, AGood, AInv, KeepsRecord, Follows
  <1> QED
    BY Zenon, <1>1, <1>2, <1>3, SaveStepsGood, ReadStepsGood, CallbackStepsGood DEF ANext

(* The invariant holds in every reachable state. *)
THEOREM RecordInvariant == ASpec => []AInv
  <1>1. AInv /\ UNCHANGED avars => AInv'
    BY Zenon DEF avars, AInv, Follows
  <1>2. AInv /\ [ANext]_avars => AInv'
    BY Zenon, <1>1, ANextInv DEF AGood
  <1> QED
    BY AInitInv, <1>2, PTL DEF ASpec

(* What the start request stored and the title that was made or given stay *)
(* in the record, but for saves of a stale copy and the start's own.       *)
THEOREM RecordsAreKept == ASpec => RecordKept
  <1>1. AInv /\ [ANext]_avars => [KeepsRecord]_avars
    BY Zenon, ANextInv DEF AGood
  <1> QED
    BY RecordInvariant, <1>1, PTL DEF ASpec, RecordKept

(* A disabled callback is never active again, whatever copies of it the    *)
(* batches of events save.                                                 *)
THEOREM CallbacksStayOff == ASpec => CallbackStaysOff
  <1>1. AInv /\ [ANext]_avars => [acallback = "disabled" => acallback' = "disabled"]_avars
    BY Zenon, ANextInv DEF AGood
  <1> QED
    BY RecordInvariant, <1>1, PTL DEF ASpec, CallbackStaysOff

----------------------------------------------------------------------------
(***************************************************************************)
(* The replay to a client.                                                 *)
(*                                                                         *)
(* For any conversation and any number of broken connections: what a       *)
(* client in the room lacks is what the server let go by.                  *)
(***************************************************************************)

Has(i) == i \in rshown \cup rlost

(* The last event that changes the state *)
Latest(i) == i \in DOMAIN rlog /\ Changes(i) /\ \A j \in DOMAIN rlog : j > i => ~Changes(j)

OldError(i) == rstate # 0 /\ rlog[rstate] = "error" /\ rstate < i /\ i <= rlast

(* The client displays it, or has a reason not to. *)
Displays(i) == i \in {rstate} \cup rlost \/ OldError(i)

(* The places that connect and the client remember *)
Places ==
    /\ rstate # 0 => Changes(rstate)
    /\ rheld # 0 => Changes(rheld)
    /\ rpc = "replay" => rnext <= rsnap + 1 /\ rlast < rnext /\ rheld < rnext
                         /\ (rheld # 0 => rheld # rlast)
    /\ rpc = "joining" => rlast <= rsnap

(* What was published behind the listing of the store is noted as lost. *)
GoneBy ==
    rpc \in {"replay", "joining"} =>
        \A i \in DOMAIN rlog : rsnap < i /\ i <= rout => i \in rlost

(* The messages up to the client's last event, up to where the replay is,  *)
(* and, in the room, up to what was published                              *)
HasMessages ==
    \A i \in DOMAIN rlog : rlog[i] = "msg" =>
        /\ i <= rlast => Has(i)
        /\ rpc = "replay" /\ i < rnext => Has(i)
        /\ rpc = "joining" /\ i <= rsnap => Has(i)
        /\ rpc = "in" /\ i <= rout => Has(i)

(* The same for the state; during the replay it may be held back. *)
HasState ==
    \A i \in DOMAIN rlog : Latest(i) =>
        /\ rpc # "replay" /\ i <= rlast => Displays(i)
        /\ rpc = "replay" /\ i < rnext => i = rheld \/ (rheld = 0 /\ Displays(i))
        /\ rpc = "joining" /\ i <= rsnap => Displays(i)
        /\ rpc = "in" /\ i <= rout => Displays(i)

(* The inductive invariant *)
RInv == RTypeOK /\ Places /\ GoneBy /\ HasMessages /\ HasState

-----------------------------------------------------------------------------
(* The initial state satisfies the invariant. *)
LEMMA RInitInv == RInit => RInv
  BY RBoundsAssumption DEF RInit, RInv, RTypeOK, Places, GoneBy, HasMessages, HasState, Changes, Latest

(* A stored event is behind every place anybody remembers, and behind what *)
(* was published.                                                          *)
LEMMA StoreInv == ASSUME RInv, NEW kind \in {"msg", "state", "error", "recall"}, RStore(kind) PROVE RInv'
  <1>1. /\ Len(rlog') = Len(rlog) + 1
        /\ rlog' \in Seq({"msg", "state", "error", "recall"})
        /\ \A i \in DOMAIN rlog : i \in DOMAIN rlog' /\ rlog'[i] = rlog[i] /\ i <= Len(rlog)
        /\ \A i \in DOMAIN rlog' : i \in DOMAIN rlog \/ i = Len(rlog) + 1
    BY DEF RInv, RTypeOK, RStore
  <1>2. UNCHANGED <<rout, rpc, rnext, rsnap, rheld, rshown, rstate, rlast, rlost, rdrops>>
    BY Zenon DEF RStore, rconn, rclient
  <1>3. RTypeOK'
    BY <1>1, <1>2 DEF RInv, RTypeOK
  <1>4. Places'
    BY SMTT(60), <1>1, <1>2 DEF RInv, RTypeOK, Places, Changes
  <1>5. GoneBy'
    BY <1>1, <1>2 DEF RInv, RTypeOK, GoneBy
  <1>6. HasMessages'
    BY <1>1, <1>2 DEF RInv, RTypeOK, Places, HasMessages, Has
  <1>7. HasState'
    <2> SUFFICES ASSUME NEW i \in DOMAIN rlog', Latest(i)'
                 PROVE  /\ rpc # "replay" /\ i <= rlast => Displays(i)'
                        /\ rpc = "replay" /\ i < rnext => i = rheld \/ (rheld = 0 /\ Displays(i)')
                        /\ rpc = "joining" /\ i <= rsnap => Displays(i)'
                        /\ rpc = "in" /\ i <= rout => Displays(i)'
      BY Zenon, <1>2 DEF HasState
    <2>1. CASE i = Len(rlog) + 1
      BY <1>2, <2>1 DEF RInv, RTypeOK, Places
    <2>2. CASE i \in DOMAIN rlog
      <3>1. Latest(i)
        BY Zenon, <1>1, <2>2 DEF Latest, Changes
      <3>2. Displays(i) => Displays(i)'
        BY <1>1, <1>2 DEF RInv, RTypeOK, Displays, OldError
      <3> QED
        BY Zenon, <2>2, <3>1, <3>2 DEF RInv, HasState
    <2> QED
      BY Zenon, <1>1, <2>1, <2>2
  <1> QED
    BY Zenon, <1>3, <1>4, <1>5, <1>6, <1>7 DEF RInv

(* An event that goes out is received in the room; outside, it will be     *)
(* replayed or is noted as lost.                                           *)
LEMMA PublishInv == ASSUME RInv, RPublish PROVE RInv'
  <1> DEFINE k == rout + 1
  <1>1. k \in DOMAIN rlog /\ rout' = k /\ UNCHANGED <<rlog, rpc, rnext, rsnap, rheld, rdrops>>
    BY DEF RInv, RTypeOK, RPublish, rconn
  <1>2. CASE rpc = "in"
    <2>1. Receive(k) /\ rlost' = rlost
      BY Zenon, <1>2 DEF RPublish
    <2>2. RTypeOK'
      BY <1>1, <2>1 DEF RInv, RTypeOK, Receive
    <2>3. Places' /\ GoneBy'
      BY Zenon, <1>1, <1>2, <2>1 DEF RInv, RTypeOK, Places, GoneBy, Receive, Changes
    <2>4. HasMessages'
      BY <1>1, <1>2, <2>1 DEF RInv, RTypeOK, HasMessages, Has, Receive
    <2>5. HasState'
      <3> SUFFICES ASSUME NEW i \in DOMAIN rlog, Latest(i), i <= rlast' \/ i <= k PROVE Displays(i)'
        BY Zenon, <1>1, <1>2 DEF HasState, Latest, Changes
      <3>1. CASE Changes(k)
        <4>1. rstate' = k /\ k <= i /\ (rlog[k] = "error" => rlast' = rlast) /\ (rlog[k] # "error" => rlast' = k)
          BY <1>1, <2>1, <3>1 DEF RInv, RTypeOK, Latest, Receive
        <4> QED
          BY <1>1, <4>1 DEF RInv, RTypeOK, Displays, OldError
      <3>2. CASE ~Changes(k)
        <4>1. rstate' = rstate /\ rlast' = k /\ i <= rout
          BY SMTT(60), <1>1, <2>1, <3>2 DEF RInv, RTypeOK, Latest, Receive, Changes
        <4>2. rstate <= i /\ Displays(i)
          BY <1>2, <4>1 DEF RInv, RTypeOK, Places, HasState, Latest
        <4> QED
          BY <1>1, <2>1, <4>1, <4>2 DEF RInv, RTypeOK, Displays, OldError
      <3> QED
        BY Zenon, <3>1, <3>2
    <2> QED
      BY Zenon, <2>2, <2>3, <2>4, <2>5 DEF RInv
  <1>3. CASE rpc # "in"
    <2>1. /\ UNCHANGED <<rshown, rstate, rlast>>
          /\ rlost' = IF rpc \in {"replay", "joining"} /\ k > rsnap THEN rlost \cup {k} ELSE rlost
      BY Zenon, <1>3 DEF RPublish, rclient
    <2>2. RTypeOK' /\ Places'
      BY <1>1, <2>1 DEF RInv, RTypeOK, Places, Changes
    <2>3. GoneBy'
      BY <1>1, <2>1 DEF RInv, RTypeOK, GoneBy
    <2>4. HasMessages'
      BY Zenon, <1>1, <1>3, <2>1 DEF RInv, HasMessages, Has
    <2>5. HasState'
      BY ZenonT(60), <1>1, <1>3, <2>1 DEF RInv, HasState, Latest, Changes, Displays, OldError
    <2> QED
      BY Zenon, <2>2, <2>3, <2>4, <2>5 DEF RInv
  <1> QED
    BY Zenon, <1>2, <1>3

(* The replay begins behind what the client has, up to what is stored. *)
LEMMA ConnectInv == ASSUME RInv, RConnect PROVE RInv'
  <1>1. /\ rpc = "away" /\ rpc' = "replay" /\ rnext' = rlast + 1 /\ rsnap' = Len(rlog) /\ rheld' = 0
        /\ UNCHANGED <<rlog, rout, rshown, rstate, rlast, rlost, rdrops>>
    BY Zenon DEF RConnect, rclient
  <1>2. RTypeOK' /\ Places' /\ GoneBy'
    BY <1>1 DEF RInv, RTypeOK, Places, GoneBy, Changes
  <1>3. HasMessages'
    BY SMTT(60), <1>1 DEF RInv, RTypeOK, HasMessages, Has
  <1>4. HasState'
    BY SMTT(60), <1>1 DEF RInv, RTypeOK, HasState, Latest, Changes, Displays, OldError
  <1> QED
    BY Zenon, <1>2, <1>3, <1>4 DEF RInv

(* One event is replayed: received, or held back and then the latest. *)
LEMMA ReplayInv == ASSUME RInv, RReplay PROVE RInv'
  <1>1. /\ rpc = "replay" /\ rnext \in DOMAIN rlog /\ rnext <= rsnap /\ rnext' = rnext + 1
        /\ rheld' = (IF Changes(rnext) THEN rnext ELSE rheld)
        /\ UNCHANGED <<rlog, rout, rpc, rsnap, rlost, rdrops>>
    BY SMTT(60) DEF RInv, RTypeOK, RReplay
  <1>2. /\ rstate' = rstate
        /\ rlog[rnext] = "msg" => rshown' = rshown \cup {rnext} /\ rlast' = rnext
        /\ rlog[rnext] # "msg" => rshown' = rshown /\ rlast' = rlast
    BY Zenon DEF RReplay, Receive, Changes, rclient
  <1>3. RTypeOK'
    BY SMTT(60), <1>1, <1>2 DEF RInv, RTypeOK
  <1>4. Places' /\ GoneBy'
    BY SMTT(60), <1>1, <1>2 DEF RInv, RTypeOK, Places, GoneBy, Changes
  <1>5. HasMessages'
    BY SMTT(60), <1>1, <1>2 DEF RInv, RTypeOK, HasMessages, Has
  <1>6. HasState'
    <2> SUFFICES ASSUME NEW i \in DOMAIN rlog, Latest(i), i < rnext + 1
                 PROVE  i = rheld' \/ (rheld' = 0 /\ Displays(i)')
      BY Zenon, <1>1 DEF HasState, Latest, Changes
    <2>1. CASE Changes(rnext)
      BY SMTT(60), <1>1, <2>1 DEF RInv, RTypeOK, Latest
    <2>2. CASE ~Changes(rnext)
      <3>1. i < rnext /\ rheld' = rheld
        BY SMTT(60), <1>1, <2>2 DEF RInv, RTypeOK, Latest
      <3>2. Displays(i) => Displays(i)'
        BY SMTT(60), <1>1, <1>2 DEF RInv, RTypeOK, Places, Displays, OldError
      <3> QED
        BY Zenon, <1>1, <3>1, <3>2 DEF RInv, HasState
    <2> QED
      BY Zenon, <2>1, <2>2
  <1> QED
    BY Zenon, <1>3, <1>4, <1>5, <1>6 DEF RInv

(* The end of the replay sends what was held back. *)
LEMMA ReplayedInv == ASSUME RInv, RReplayed PROVE RInv'
  <1>1. /\ rpc = "replay" /\ rpc' = "joining" /\ rnext > rsnap
        /\ UNCHANGED <<rlog, rout, rnext, rsnap, rheld, rlost, rdrops>>
    BY Zenon DEF RReplayed
  <1>2. /\ rheld # 0 => Receive(rheld)
        /\ rheld = 0 => UNCHANGED <<rshown, rstate, rlast>>
    BY Zenon DEF RReplayed, rclient
  <1>3. RTypeOK'
    BY <1>1, <1>2 DEF RInv, RTypeOK, Receive
  <1>4. Places' /\ GoneBy'
    BY <1>1, <1>2 DEF RInv, RTypeOK, Places, GoneBy, Receive, Changes
  <1>5. HasMessages'
    BY <1>1, <1>2 DEF RInv, RTypeOK, Places, HasMessages, Has, Receive
  <1>6. HasState'
    <2>0. rlast' <= rsnap /\ rlast' \in Nat /\ rsnap \in Nat
      BY <1>1, <1>3, <1>4 DEF Places, RTypeOK
    <2> SUFFICES ASSUME NEW i \in DOMAIN rlog, Latest(i), i <= rsnap PROVE Displays(i)'
      <3>1. ASSUME NEW i \in DOMAIN rlog PROVE i \in Nat /\ (Latest(i)' <=> Latest(i))
        BY <1>1 DEF Latest, Changes, RInv, RTypeOK
      <3> QED
        BY <1>1, <2>0, <3>1 DEF HasState
    <2>1. i = rheld \/ (rheld = 0 /\ Displays(i))
      BY <1>1 DEF RInv, RTypeOK, HasState
    <2>2. CASE i = rheld
      BY <1>1, <1>2, <2>2 DEF RInv, RTypeOK, Latest, Receive, Displays
    <2>3. CASE rheld = 0 /\ Displays(i)
      BY Zenon, <1>1, <1>2, <2>3 DEF Displays, OldError
    <2> QED
      BY Zenon, <2>1, <2>2, <2>3
  <1> QED
    BY Zenon, <1>3, <1>4, <1>5, <1>6 DEF RInv

(* In the room, the client has what was replayed; the rest went by. *)
LEMMA JoinInv == ASSUME RInv, RJoin PROVE RInv'
  <1>1. /\ rpc = "joining" /\ rpc' = "in" /\ rnext' = 1 /\ rsnap' = 0 /\ rheld' = 0
        /\ UNCHANGED <<rlog, rout, rshown, rstate, rlast, rlost, rdrops>>
    BY Zenon DEF RJoin, Ends, rclient
  <1>2. RTypeOK' /\ Places' /\ GoneBy'
    BY <1>1 DEF RInv, RTypeOK, Places, GoneBy, Changes
  <1>3. HasMessages'
    BY <1>1 DEF RInv, RTypeOK, GoneBy, HasMessages, Has
  <1>4. HasState'
    BY <1>1 DEF RInv, RTypeOK, GoneBy, HasState, Latest, Changes, Displays, OldError
  <1> QED
    BY Zenon, <1>2, <1>3, <1>4 DEF RInv

(* A connection that breaks loses what was held back, if the client will   *)
(* not ask for it.                                                         *)
LEMMA DropInv == ASSUME RInv, RDrop PROVE RInv'
  <1>1. /\ rpc # "away" /\ rpc' = "away" /\ rnext' = 1 /\ rsnap' = 0 /\ rheld' = 0
        /\ rlost \subseteq rlost' /\ (rpc = "replay" /\ rheld # 0 /\ rheld < rlast => rheld \in rlost')
        /\ UNCHANGED <<rlog, rout, rshown, rstate, rlast>>
    BY Zenon DEF RDrop, Ends, rclient
  <1>2. RTypeOK'
    BY <1>1, RBoundsAssumption DEF RInv, RTypeOK, RDrop
  <1>3. Places' /\ GoneBy'
    BY Zenon, <1>1 DEF RInv, RTypeOK, Places, GoneBy, Changes
  <1>4. HasMessages'
    BY Zenon, <1>1 DEF RInv, HasMessages, Has
  <1>5. HasState'
    <2> SUFFICES ASSUME NEW i \in DOMAIN rlog, Latest(i), i <= rlast PROVE Displays(i)'
      BY Zenon, <1>1 DEF HasState, Latest, Changes
    <2>1. Displays(i) => Displays(i)'
      BY Zenon, <1>1 DEF Displays, OldError
    <2>2. CASE rpc = "replay" /\ i = rheld
      BY <1>1, <2>2 DEF RInv, RTypeOK, Places, Displays
    <2>3. CASE ~(rpc = "replay" /\ i = rheld)
      BY SMTT(60), <2>1, <2>3 DEF RInv, RTypeOK, Places, HasState
    <2> QED
      BY Zenon, <2>2, <2>3
  <1> QED
    BY Zenon, <1>2, <1>3, <1>4, <1>5 DEF RInv

-----------------------------------------------------------------------------
(* Every step preserves the invariant. *)
LEMMA RStepInv == RInv /\ [RNext]_rvars => RInv'
  <1> SUFFICES ASSUME RInv, [RNext]_rvars PROVE RInv'
    BY Zenon
  <1>1. CASE RNext
    BY Zenon, <1>1, StoreInv, PublishInv, ConnectInv, ReplayInv, ReplayedInv, JoinInv, DropInv DEF RNext
  <1>2. CASE UNCHANGED rvars
    BY <1>2 DEF rvars, rconn, rclient, RInv, RTypeOK, Places, GoneBy, HasMessages, HasState, Has, Latest,
                Changes, Displays, OldError
  <1> QED
    BY Zenon, <1>1, <1>2

(* In the room and with all published, the invariant is the property. *)
LEMMA RInvLacks == RInv => LacksOnlyLost
  <1> SUFFICES ASSUME RInv, rpc = "in", rout = Len(rlog) PROVE LacksOnlyLost
    BY Zenon DEF LacksOnlyLost
  <1>1. \A i \in DOMAIN rlog : i <= rout
    BY DEF RInv, RTypeOK
  <1> QED
    BY Zenon, <1>1 DEF RInv, HasMessages, HasState, Has, Latest, Displays, OldError, LacksOnlyLost

(* What a client in the room lacks of the messages and of the agent's      *)
(* state, when all that is stored was published, is what connect let go    *)
(* by, for any conversation and any broken connections.                    *)
THEOREM ReplayLosesOnlyLost == RSpec => []LacksOnlyLost
  BY RInitInv, RStepInv, RInvLacks, PTL DEF RSpec

----------------------------------------------------------------------------
(***************************************************************************)
(* The error reports.                                                      *)
(*                                                                         *)
(* For any errors, limits and windows, with requests that end before their *)
(* hash may be reported again: an error has one active session, an active  *)
(* session is an attempt in progress, and no report made in the cooldown   *)
(* of a merge opens a session.                                             *)
(***************************************************************************)

Attempts == [session : Nat, status : {"in_progress", "resolved"}]

(* What the proof needs of the types *)
EShape ==
    /\ eclock \in Nat
    /\ erecent \in [Errors -> Int] /\ eresolved \in [Errors -> Int]
    /\ erequests \subseteq [id : Nat, error : Errors, started : Nat, recorded : BOOLEAN]
    /\ eactive \in [Errors -> Nat]
    /\ ehistory \in [Errors -> Seq(Attempts)]
    /\ esent \in Seq(Int)

(* A request is under way while its hash is recent, and until it is        *)
(* answered no session is active and no cooldown began before it.          *)
Pending(r) ==
    /\ erecent[r.error] = r.started
    /\ r.started <= eclock /\ eclock <= r.started + ERequestTime
    /\ r.recorded => /\ eactive[r.error] = NoSession
                     /\ \/ eresolved[r.error] = Never
                        \/ eresolved[r.error] + ECooldown <= r.started
                        \/ r.started <= eresolved[r.error]

(* The inductive invariant *)
EInv ==
    /\ EShape
    /\ \A r \in erequests : Pending(r)
    /\ \A r, s \in erequests : r.error = s.error => r = s
    /\ ActiveIsInProgress

-----------------------------------------------------------------------------
(* A report that is no duplicate finds no request of its error under way:  *)
(* the hash of such a request is younger than the window.                  *)
LEMMA NoneUnderWay ==
    ASSUME EInv, NEW e \in Errors, ~Duplicate(e)
    PROVE  \A r \in erequests : r.error # e
  BY ReportingAssumption DEF EInv, EShape, Pending, Duplicate, Never

(* The initial state satisfies the invariant. *)
LEMMA EInitInv == EInit => EInv
  BY ReportingAssumption DEF EInit, EInv, EShape, Pending, ActiveIsInProgress, NoSession, Never,
     Attempts

(* Both kinds of report preserve the invariant. *)
LEMMA SubmitInv ==
    ASSUME EInv, NEW e \in Errors, NEW recorded \in BOOLEAN, Submit(e, recorded),
           recorded => ~InCooldown(e) /\ eactive[e] = NoSession,
           UNCHANGED <<eclock, eactive, ehistory, eresolved>>
    PROVE  EInv'
  <1>1. \A r \in erequests : r.error # e
    BY Zenon, NoneUnderWay DEF Submit
  <1>2. /\ erecent' = [erecent EXCEPT ![e] = eclock]
        /\ \/ erequests' = erequests /\ esent' = esent
           \/ /\ erequests' = erequests \cup {Request(e, recorded)}
              /\ esent' = Append(esent, HourOf(eclock))
    BY Zenon DEF Submit, Limited, RecordHash
  <1>3. EShape'
    <2>1. Request(e, recorded) \in
              [id : Nat, error : Errors, started : Nat, recorded : BOOLEAN]
      BY DEF Request, EInv, EShape
    <2>2. HourOf(eclock) \in Int
      BY ReportingAssumption DEF HourOf, EInv, EShape
    <2>3. esent' \in Seq(Int)
      <3>1. esent \in Seq(Int)
        BY Zenon DEF EInv, EShape
      <3>2. Append(esent, HourOf(eclock)) \in Seq(Int)
        BY <2>2, <3>1
      <3> QED
        BY Zenon, <1>2, <3>1, <3>2
    <2>4. erequests' \subseteq [id : Nat, error : Errors, started : Nat, recorded : BOOLEAN]
      BY Zenon, <1>2, <2>1 DEF EInv, EShape
    <2>5. erecent' \in [Errors -> Int]
      BY <1>2 DEF EInv, EShape
    <2> QED
      BY Zenon, <2>3, <2>4, <2>5 DEF EInv, EShape
  <1>4. ASSUME NEW r \in erequests' PROVE Pending(r)'
    <2>1. CASE r \in erequests
      BY ZenonT(60), <1>1, <1>2, <2>1 DEF EInv, EShape, Pending
    <2>2. CASE r = Request(e, recorded)
      BY <1>2, <2>2, ReportingAssumption DEF EInv, EShape, Pending, Request, InCooldown
    <2> QED
      BY Zenon, <1>2, <2>1, <2>2
  <1>5. \A r, s \in erequests' : r.error = s.error => r = s
    BY <1>1, <1>2 DEF EInv, Request
  <1>6. ActiveIsInProgress'
    BY Zenon DEF EInv, ActiveIsInProgress
  <1> QED
    BY Zenon, <1>3, <1>4, <1>5, <1>6 DEF EInv

(* The answer to a report preserves the invariant. *)
LEMMA CreatedInv ==
    ASSUME EInv, NEW r \in erequests, NEW session \in {r.id, NoSession},
           SessionCreated(r, session)
    PROVE  EInv'
  <1> DEFINE attempt == [session |-> session, status |-> "in_progress"]
  <1>1. r.error \in Errors /\ session \in Nat /\ attempt \in Attempts
    BY DEF EInv, EShape, Attempts, NoSession
  <1>2. /\ ehistory' = [ehistory EXCEPT ![r.error] = Append(@, attempt)]
        /\ eactive' = [eactive EXCEPT ![r.error] = session]
        /\ erequests' = erequests \ {r}
        /\ UNCHANGED <<eclock, erecent, eresolved, esent>>
    BY Zenon DEF SessionCreated
  <1> HIDE DEF attempt
  <1>3. ehistory' \in [Errors -> Seq(Attempts)]
    BY <1>1, <1>2 DEF EInv, EShape
  <1>4. EShape'
    BY Zenon, <1>1, <1>2, <1>3 DEF EInv, EShape
  <1>5. \A s \in erequests' : Pending(s)'
    BY Zenon, <1>1, <1>2 DEF EInv, EShape, Pending
  <1>6. \A s, t \in erequests' : s.error = t.error => s = t
    BY Zenon, <1>2 DEF EInv
  <1>7. ActiveIsInProgress'
    <2> SUFFICES ASSUME NEW e \in Errors, eactive'[e] # NoSession
                 PROVE  \E i \in 1..Len(ehistory'[e]) :
                            ehistory'[e][i] = [session |-> eactive'[e], status |-> "in_progress"]
      BY ZenonT(60) DEF ActiveIsInProgress
    <2>1. CASE e = r.error
      <3>1. /\ ehistory'[e] = Append(ehistory[e], attempt)
            /\ eactive'[e] = session
            /\ ehistory[e] \in Seq(Attempts)
        BY Zenon, <1>1, <1>2, <2>1 DEF EInv, EShape
      <3>2. /\ Len(ehistory'[e]) = Len(ehistory[e]) + 1
            /\ ehistory'[e][Len(ehistory[e]) + 1] = attempt
            /\ Len(ehistory[e]) \in Nat
        BY <3>1, <1>1
      <3> QED
        BY <3>1, <3>2 DEF attempt
    <2>2. CASE e # r.error
      BY Zenon, <1>1, <1>2, <2>2 DEF EInv, EShape, ActiveIsInProgress
    <2> QED
      BY Zenon, <2>1, <2>2
  <1> QED
    BY Zenon, <1>4, <1>5, <1>6, <1>7 DEF EInv

(* A merge changes the status of attempts and nothing else of them. *)
LEMMA MergedHistory ==
    ASSUME EInv, NEW e \in Errors, NEW session, MarkMerged(e, session)
    PROVE  /\ ehistory' \in [Errors -> Seq(Attempts)]
           /\ \A f \in Errors : Len(ehistory'[f]) = Len(ehistory[f])
           /\ \A f \in Errors \ {e} : ehistory'[f] = ehistory[f]
  <1> DEFINE merged == [i \in DOMAIN ehistory[e] |->
                 IF i \in AttemptOf(e, session)
                 THEN [ehistory[e][i] EXCEPT !.status = "resolved"] ELSE ehistory[e][i]]
  <1>1. ehistory' = [ehistory EXCEPT ![e] = merged]
    BY Zenon DEF MarkMerged
  <1>2. ehistory[e] \in Seq(Attempts) /\ Len(ehistory[e]) \in Nat
        /\ DOMAIN ehistory[e] = 1..Len(ehistory[e])
    BY DEF EInv, EShape
  <1>3. ASSUME NEW i \in 1..Len(ehistory[e]) PROVE merged[i] \in Attempts
    <2>1. ehistory[e][i] \in Attempts
      BY <1>2
    <2>2. [ehistory[e][i] EXCEPT !.status = "resolved"] \in Attempts
      BY Zenon, <2>1 DEF Attempts
    <2>3. merged[i] = IF i \in AttemptOf(e, session)
                      THEN [ehistory[e][i] EXCEPT !.status = "resolved"] ELSE ehistory[e][i]
      BY Zenon, <1>2
    <2> QED
      BY Zenon, <2>1, <2>2, <2>3
  <1>4. merged \in [1..Len(ehistory[e]) -> Attempts]
    BY Zenon, <1>2, <1>3
  <1> HIDE DEF merged
  <1>5. merged \in Seq(Attempts) /\ Len(merged) = Len(ehistory[e])
    BY <1>2, <1>4
  <1> QED
    BY Zenon, <1>1, <1>5 DEF EInv, EShape

(* Every step preserves the invariant. *)
LEMMA ENextInv == EInv /\ [ENext]_evars => EInv'
  <1> SUFFICES ASSUME EInv, [ENext]_evars PROVE EInv'
    BY Zenon
  <1>1. CASE Tick
    <2>1. \A r \in erequests' : Pending(r)'
      BY <1>1, ReportingAssumption DEF Tick, EInv, EShape, Pending
    <2> QED
      BY <1>1, <2>1 DEF Tick, EInv, EShape, ActiveIsInProgress
  <1>2. ASSUME NEW e \in Errors, ReportError(e) PROVE EInv'
    BY Zenon, <1>2, SubmitInv DEF ReportError
  <1>3. ASSUME NEW e \in Errors, ReportWithHistory(e) PROVE EInv'
    BY Zenon, <1>3, SubmitInv DEF ReportWithHistory
  <1>4. ASSUME NEW e \in Errors, ClearSession(e) PROVE EInv'
    BY Zenon, <1>4 DEF ClearSession, EInv, EShape, Pending, ActiveIsInProgress, NoSession
  <1>5. ASSUME NEW e \in Errors, NEW session, MarkMerged(e, session) PROVE EInv'
    <2>1. /\ eresolved' = [eresolved EXCEPT ![e] = eclock]
          /\ eactive' = [eactive EXCEPT ![e] = NoSession]
          /\ UNCHANGED <<eclock, erecent, erequests, esent>>
      BY Zenon, <1>5 DEF MarkMerged
    <2>2. EShape'
      BY <1>5, <2>1, MergedHistory DEF EInv, EShape, NoSession
    <2>3. \A r \in erequests' : Pending(r)'
      BY Zenon, <2>1 DEF EInv, EShape, Pending, NoSession
    <2>4. ActiveIsInProgress'
      BY Zenon, <1>5, <2>1, MergedHistory DEF EInv, EShape, ActiveIsInProgress, NoSession
    <2> QED
      BY Zenon, <2>1, <2>2, <2>3, <2>4 DEF EInv
  <1>6. ASSUME NEW r \in erequests, RequestEnds(r) PROVE EInv'
    BY Zenon, <1>6 DEF RequestEnds, EInv, EShape, Pending, ActiveIsInProgress
  <1>7. CASE UNCHANGED evars
    BY Zenon, <1>7 DEF evars, EInv, EShape, Pending, ActiveIsInProgress
  <1>8. CASE ReportCentrally
    <2>1. /\ UNCHANGED <<eclock, erecent, eactive, ehistory, eresolved>>
          /\ \/ erequests' = erequests /\ esent' = esent
             \/ erequests' = erequests \cup {} /\ esent' = Append(esent, HourOf(eclock))
      BY Zenon, <1>8 DEF ReportCentrally, Limited
    <2>2. erequests' = erequests
      BY Zenon, <2>1
    <2>3. esent \in Seq(Int) /\ HourOf(eclock) \in Int
      BY ReportingAssumption DEF HourOf, EInv, EShape
    <2>4. Append(esent, HourOf(eclock)) \in Seq(Int)
      BY <2>3
    <2>5. esent' \in Seq(Int)
      BY Zenon, <2>1, <2>3, <2>4
    <2> QED
      BY Zenon, <2>1, <2>2, <2>5 DEF EInv, EShape, Pending, ActiveIsInProgress
  <1> QED
    BY Zenon, <1>1, <1>2, <1>3, <1>4, <1>5, <1>6, <1>7, <1>8, CreatedInv DEF ENext

(* The invariant holds in every reachable state. *)
THEOREM ReportingInvariant == ESpec => []EInv
  BY EInitInv, ENextInv, PTL DEF ESpec

(* The active session of an error is an attempt in progress. *)
THEOREM ActiveSessionsInProgress == ESpec => []ActiveIsInProgress
  <1>1. EInv => ActiveIsInProgress
    BY Zenon DEF EInv
  <1> QED
    BY ReportingInvariant, <1>1, PTL

(* Only the answer to a report lets the history of an error grow. *)
LEMMA HistoryGrows ==
    ASSUME EInv, ENext, NEW e \in Errors, Len(ehistory'[e]) > Len(ehistory[e])
    PROVE  \E r \in erequests : r.error = e /\ r.recorded /\ erequests' = erequests \ {r}
  <1>1. Len(ehistory[e]) \in Nat
    BY DEF EInv, EShape
  <1>2. ~Tick
    BY <1>1 DEF Tick
  <1>3. ~UNCHANGED ehistory
    BY <1>1
  <1>4. /\ ~ReportCentrally
        /\ \A f \in Errors : ~ReportError(f) /\ ~ReportWithHistory(f) /\ ~ClearSession(f)
    BY Zenon, <1>3 DEF ReportCentrally, ReportError, ReportWithHistory, ClearSession
  <1>5. \A f \in Errors : \A session : ~MarkMerged(f, session)
    BY <1>1, MergedHistory
  <1>6. \A r \in erequests : ~RequestEnds(r)
    BY <1>1 DEF RequestEnds
  <1>7. PICK r \in erequests : \E session \in {r.id, NoSession} : SessionCreated(r, session)
    BY Zenon, <1>2, <1>4, <1>5, <1>6 DEF ENext
  <1>8. r.error = e
    BY <1>1, <1>7 DEF SessionCreated, EInv, EShape
  <1> QED
    BY Zenon, <1>7, <1>8 DEF SessionCreated

(* A session is recorded only while its error has no active one, although  *)
(* the table is looked up before the request and written after it.         *)
THEOREM SessionsNeverReplaced == ESpec => OneActiveSession
  <1>1. EInv /\ [ENext]_evars =>
            [\A e \in Errors : Len(ehistory'[e]) > Len(ehistory[e]) => eactive[e] = NoSession]_evars
    BY ZenonT(60), HistoryGrows DEF EInv, Pending
  <1> QED
    BY ReportingInvariant, <1>1, PTL DEF ESpec, OneActiveSession

(* A session that opens during the cooldown of a merge was asked for       *)
(* before the merge.                                                       *)
THEOREM CooldownIsKept == ESpec => CooldownHolds
  <1>1. ASSUME EInv, ENext, NEW r \in erequests, r \notin erequests',
               Len(ehistory'[r.error]) > Len(ehistory[r.error])
        PROVE  ~InCooldown(r.error) \/ r.started <= eresolved[r.error]
    <2>1. r.error \in Errors
      BY Zenon, <1>1 DEF EInv, EShape
    <2>2. r.recorded
      BY Zenon, <1>1, <2>1, HistoryGrows
    <2>3. /\ r.started \in Nat /\ eresolved[r.error] \in Int /\ eclock \in Nat
          /\ Pending(r)
      BY Zenon, <1>1, <2>1 DEF EInv, EShape
    <2> QED
      BY <2>2, <2>3, ReportingAssumption DEF Pending, InCooldown
  <1>2. EInv /\ [ENext]_evars =>
            [\A r \in erequests :
                r \notin erequests' /\ Len(ehistory'[r.error]) > Len(ehistory[r.error])
                   => ~InCooldown(r.error) \/ r.started <= eresolved[r.error]]_evars
    BY Zenon, <1>1
  <1> QED
    BY ReportingInvariant, <1>2, PTL DEF ESpec, CooldownHolds

=============================================================================
