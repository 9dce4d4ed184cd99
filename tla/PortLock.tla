------------------------------ MODULE PortLock ------------------------------
(***************************************************************************)
(* How workers of several processes share the host ports of their          *)
(* containers: the lock files of openhands/runtime/utils/port_lock.py and  *)
(* their use by DockerRuntime.                                             *)
(*                                                                         *)
(* A lock is an flock on the file port_<n>.lock.  A file is an inode: a    *)
(* worker that has it open keeps the inode when the name is unlinked, and  *)
(* the next open then creates another one.  A step is a system call on a   *)
(* lock file, a probe of a port or a call of docker.  The 20 attempts over *)
(* a range of ports, random first and then sequential, are attempts on any *)
(* port.                                                                   *)
(*                                                                         *)
(* A container has the name of its conversation and outlives its runtime:  *)
(* close() stops it, and the next runtime of the conversation starts it    *)
(* again on the port it had, without a lock.                               *)
(***************************************************************************)
EXTENDS Naturals, FiniteSets

CONSTANTS
    PWorkers,     \* DockerRuntime instances, in any processes
    Nobody,       \* no worker
    PNames,       \* names of containers, one for each conversation
    PPorts,       \* the ports of the range
    NoPort,       \* no port
    PMaxTries,    \* max_attempts of one search
    PMaxFiles     \* bound: lock files created in a behaviour

ASSUME PortAssumption ==
    /\ Nobody \notin PWorkers /\ NoPort \notin PPorts
    /\ PMaxTries \in Nat \ {0} /\ PMaxFiles \in Nat

VARIABLES
    pfile,       \* port -> the inode its lock file names, or NoFile
    pnext,       \* the next inode
    pflock,      \* inode -> the worker that holds the flock, or Nobody
    pworker,     \* worker -> where it is, the name of its container, its port,
                 \* its open inode, the attempts left to its search and those
                 \* the search began with
    pcontainer,  \* name -> whether there is a container, whether it listens
                 \* since it was run or since it was started again, its port
    pbroken      \* ghost: ports whose lock file was unlinked while a worker had
                 \* it open, or that were given out without a lock

pvars == <<pfile, pnext, pflock, pworker, pcontainer, pbroken>>

NoFile == 0
Files == 1..PMaxFiles

Worker(at, name, port, fd, left, max) ==
    [at |-> at, name |-> name, port |-> port, fd |-> fd, left |-> left, max |-> max]

(* No runtime, and a search for a port with so many attempts. *)
PIdle == Worker("idle", Nobody, NoPort, NoFile, 0, 0)
Searching(name, left, max) == Worker("searching", name, NoPort, NoFile, left, max)

Container(is, port) == [is |-> is, port |-> port]
NoContainer == Container("absent", NoPort)

PInit ==
    /\ pfile = [p \in PPorts |-> NoFile] /\ pnext = 1
    /\ pflock = [f \in Files |-> Nobody]
    /\ pworker = [w \in PWorkers |-> PIdle]
    /\ pcontainer = [n \in PNames |-> NoContainer]
    /\ pbroken = {}

Go(w, stage) == pworker' = [pworker EXCEPT ![w].at = stage]

\* Mutant: a port that cannot be bound counts as available.
PortFree_blind(p) == TRUE

(* What a probe finds: a container, of whichever conversation, listens. *)
PortFree(p) ==
    \A n \in PNames : pcontainer[n].port = p => pcontainer[n].is \notin {"run", "restarted"}

-----------------------------------------------------------------------------
(* connect(): _attach_to_container takes the container of the conversation *)
(* if there is one, starts it if it has exited and fails if its port is in *)
(* use by now; without one, init_container searches for a port.            *)
Connect(w, n) ==
    LET there == pcontainer[n]
        attach == pworker' = [pworker EXCEPT ![w] =
                      Worker("attached", n, there.port, NoFile, 0, 0)]
    IN /\ pworker[w].at = "idle"
       /\ \/ /\ there.is = "absent"
             /\ pworker' = [pworker EXCEPT ![w] = Searching(n, PMaxTries, PMaxTries)]
             /\ UNCHANGED pcontainer
          \/ there.is \in {"run", "restarted"} /\ attach /\ UNCHANGED pcontainer
          \/ /\ there.is = "exited" /\ PortFree(there.port)
             /\ attach
             /\ pcontainer' = [pcontainer EXCEPT ![n] = Container("restarted", there.port)]
       /\ UNCHANGED <<pfile, pnext, pflock, pbroken>>

\* Mutant: max_attempts is not looked at.
AttemptsLeft_endless(w) == TRUE

(* range(max_attempts) *)
AttemptsLeft(w) == pworker[w].left > 0

(* PortLock.acquire: os.open with O_CREAT *)
OpenFile(w, p) ==
    LET opens(file) == pworker' = [pworker EXCEPT ![w] =
                           Worker("opened", @.name, p, file, @.left, @.max)]
    IN /\ pworker[w].at = "searching" /\ AttemptsLeft(w)
       /\ \/ pfile[p] # NoFile /\ opens(pfile[p]) /\ UNCHANGED <<pfile, pnext>>
          \/ /\ pfile[p] = NoFile /\ pnext \in Files
             /\ opens(pnext)
             /\ pfile' = [pfile EXCEPT ![p] = pnext]
             /\ pnext' = pnext + 1
       /\ UNCHANGED <<pflock, pcontainer, pbroken>>

\* Mutant: the answer of flock() is not looked at.
Flock_ignored(w) ==
    /\ pworker[w].at = "opened"
    /\ pflock' = [pflock EXCEPT ![pworker[w].fd] = w]
    /\ Go(w, "locked")
    /\ UNCHANGED <<pfile, pnext, pcontainer, pbroken>>

(* The non-blocking flock succeeds ... *)
Flock(w) ==
    /\ pworker[w].at = "opened" /\ pflock[pworker[w].fd] = Nobody
    /\ pflock' = [pflock EXCEPT ![pworker[w].fd] = w]
    /\ Go(w, "locked")
    /\ UNCHANGED <<pfile, pnext, pcontainer, pbroken>>

(* ... or was refused until the timeout, and the file is closed; the lock  *)
(* may have been freed since the last try.                                 *)
FlockTimesOut(w) ==
    /\ pworker[w].at = "opened"
    /\ pworker' = [pworker EXCEPT ![w] = Searching(@.name, @.left - 1, @.max)]
    /\ UNCHANGED <<pfile, pnext, pflock, pcontainer, pbroken>>

(* _check_port_available binds the port and closes the socket at once; a   *)
(* port in use is released and costs an attempt.                           *)
ProbePort(w) ==
    /\ pworker[w].at = "locked"
    /\ IF PortFree(pworker[w].port)
       THEN Go(w, "probed")
       ELSE pworker' = [pworker EXCEPT ![w] =
                Worker("releasing", @.name, @.port, @.fd, @.left - 1, @.max)]
    /\ UNCHANGED <<pfile, pnext, pflock, pcontainer, pbroken>>

(* _is_port_in_use_docker, before DockerRuntime takes the port; a port in  *)
(* use is released and a new search begins with one attempt less.          *)
ProbeDocker(w) ==
    /\ pworker[w].at = "probed"
    /\ IF PortFree(pworker[w].port)
       THEN Go(w, "held")
       ELSE pworker' = [pworker EXCEPT ![w] =
                Worker("releasing", @.name, @.port, @.fd, @.max - 1, @.max - 1)]
    /\ UNCHANGED <<pfile, pnext, pflock, pcontainer, pbroken>>

(* The fallback when every attempt failed: a port without a lock, one that *)
(* docker does not use if that many tries find one, any port otherwise.    *)
FallBack(w, p) ==
    /\ pworker[w].at = "searching" /\ pworker[w].left = 0
    /\ pworker' = [pworker EXCEPT ![w] = Worker("held", @.name, p, @.fd, @.left, @.max)]
    /\ pbroken' = pbroken \cup {p}
    /\ UNCHANGED <<pfile, pnext, pflock, pcontainer>>

(* containers.run binds the port; or it fails, as it must when the port is *)
(* in use or the name taken, and the runtime is closed.                    *)
StartContainer(w) ==
    LET me == pworker[w]
    IN /\ me.at = "held"
       /\ \/ /\ pcontainer[me.name].is = "absent" /\ PortFree(me.port)
             /\ pcontainer' = [pcontainer EXCEPT ![me.name] = Container("run", me.port)]
             /\ Go(w, "running")
          \/ Go(w, "failed") /\ UNCHANGED pcontainer
       /\ UNCHANGED <<pfile, pnext, pflock, pbroken>>

-----------------------------------------------------------------------------
(* stop_all_containers: those that listen are stopped, and stay. *)
Stopped(names) ==
    [n \in PNames |-> IF n \in names /\ pcontainer[n].is # "absent"
                      THEN Container("exited", pcontainer[n].port) ELSE pcontainer[n]]

(* DockerRuntime.close() stops its own container, or all of them           *)
(* (rm_all_containers), and only then releases its lock if it has one.  It *)
(* returns early, and never releases the lock, with keep_runtime_alive and *)
(* for a runtime that only attaches (attach_to_existing).                  *)
CloseRuntime(w) ==
    /\ pworker[w].at \in {"running", "failed", "attached"}
    /\ \/ /\ \E names \in {{pworker[w].name}, PNames} : pcontainer' = Stopped(names)
          /\ IF pworker[w].fd # NoFile THEN Go(w, "closing")
             ELSE pworker' = [pworker EXCEPT ![w] = PIdle]
       \/ /\ UNCHANGED pcontainer
          /\ IF pworker[w].fd # NoFile THEN Go(w, "kept")
             ELSE pworker' = [pworker EXCEPT ![w] = PIdle]
    /\ UNCHANGED <<pfile, pnext, pflock, pbroken>>

(* PortLock.release: unlock and close the file ... *)
Release(w) ==
    LET me == pworker[w]
    IN /\ me.at \in {"releasing", "closing"}
       /\ pworker' = [pworker EXCEPT ![w] =
             Worker(IF me.at = "closing" THEN "ending" ELSE "unlinking",
                    me.name, me.port, NoFile, me.left, me.max)]
       /\ pflock' = [pflock EXCEPT ![me.fd] = Nobody]
       /\ UNCHANGED <<pfile, pnext, pcontainer, pbroken>>

(* The workers that have a file open. *)
Openers(f) == {w \in PWorkers : pworker[w].fd = f}

(* os.unlink of the name, whatever file it names by now *)
Unlinked(p) ==
    /\ pbroken' = IF pfile[p] # NoFile /\ Openers(pfile[p]) # {}
                  THEN pbroken \cup {p} ELSE pbroken
    /\ pfile' = [pfile EXCEPT ![p] = NoFile]

(* ... and then unlink it.  The search goes on, or the runtime is closed.  *)
Unlink(w) ==
    /\ pworker[w].at \in {"unlinking", "ending"}
    /\ Unlinked(pworker[w].port)
    /\ pworker' = [pworker EXCEPT ![w] =
          IF @.at = "unlinking" THEN Searching(@.name, @.left, @.max) ELSE PIdle]
    /\ UNCHANGED <<pnext, pflock, pcontainer>>

(* cleanup_stale_locks, which an evaluation worker calls before it makes   *)
(* its runtime, unlinks each file that is old, held or not.  Every file    *)
(* may be: a lock is held as long as its container runs, and the name may  *)
(* get another file between the stat and the unlink.                       *)
CleanupStaleLocks(w, p) ==
    /\ pworker[w].at = "idle" /\ pfile[p] # NoFile
    /\ Unlinked(p)
    /\ UNCHANGED <<pnext, pflock, pworker, pcontainer>>

(* DockerRuntime.delete, when the conversation is deleted *)
Delete(n) ==
    /\ pcontainer[n].is # "absent"
    /\ pcontainer' = [pcontainer EXCEPT ![n] = NoContainer]
    /\ UNCHANGED <<pfile, pnext, pflock, pworker, pbroken>>

(* The process dies: the kernel drops the flock, the lock file stays.  The *)
(* containers stay too, or are stopped by the shutdown listener.           *)
Die(w) ==
    /\ pworker[w].at # "idle"
    /\ pflock' = [f \in Files |-> IF pflock[f] = w THEN Nobody ELSE pflock[f]]
    /\ pworker' = [pworker EXCEPT ![w] = PIdle]
    /\ UNCHANGED pcontainer \/ pcontainer' = Stopped(PNames)
    /\ UNCHANGED <<pfile, pnext, pbroken>>

PNext ==
    \/ \E w \in PWorkers :
          \/ \E n \in PNames : Connect(w, n)
          \/ \E p \in PPorts : OpenFile(w, p) \/ FallBack(w, p) \/ CleanupStaleLocks(w, p)
          \/ Flock(w) \/ FlockTimesOut(w)
          \/ ProbePort(w) \/ ProbeDocker(w)
          \/ StartContainer(w) \/ CloseRuntime(w)
          \/ Release(w) \/ Unlink(w)
          \/ Die(w)
    \/ \E n \in PNames : Delete(n)

PSpec == PInit /\ [][PNext]_pvars

-----------------------------------------------------------------------------
PStages == {"idle", "searching", "opened", "locked", "probed", "held", "running", "failed",
            "attached", "kept", "releasing", "unlinking", "closing", "ending"}

PWorkerStates ==
    [at : PStages, name : PNames \cup {Nobody}, port : PPorts \cup {NoPort},
     fd : Files \cup {NoFile}, left : Nat, max : Nat]

PContainers == [is : {"absent", "exited", "run", "restarted"}, port : PPorts \cup {NoPort}]

(* Every variable has its type: a lock file and its flock belong to a      *)
(* worker or to nobody.                                                    *)
PTypeOK ==
    /\ pfile \in [PPorts -> Files \cup {NoFile}]
    /\ pnext \in 1..(PMaxFiles + 1)
    /\ pflock \in [Files -> PWorkers \cup {Nobody}]
    /\ pworker \in [PWorkers -> PWorkerStates]
    /\ pcontainer \in [PNames -> PContainers]
    /\ pbroken \subseteq PPorts

(* The stages in which a worker believes the port is its own: it was given *)
(* the port by a search, and has not given it back.                        *)
Owning == {"locked", "probed", "held", "running", "failed", "kept", "closing"}

(* A port is given to one worker at a time ("file-based locking to prevent *)
(* multiple workers from allocating the same port simultaneously"), except *)
(* after the fallback without a lock, or after its lock file was unlinked  *)
(* while a worker had it open, by the release() of another worker or as a  *)
(* stale file: from then on two workers may lock two files of one name.    *)
PortGivenOnce ==
    \A v, w \in PWorkers :
        /\ v # w /\ pworker[v].at \in Owning /\ pworker[w].at \in Owning
        /\ pworker[v].port = pworker[w].port
        => pworker[v].port \in pbroken

(* A port found free by the two probes is still free when the container is *)
(* run, with the same exceptions and one more: a container that has exited *)
(* may be started again there, by a runtime that attaches to it.  Workers  *)
(* that die in between and leave containers and lock files behind, runtimes*)
(* that stop the containers of others, and deleted conversations do not    *)
(* matter.                                                                 *)
StartFindsPortFree ==
    \A w \in PWorkers, n \in PNames :
        /\ pworker[w].at = "held" /\ pworker[w].port \notin pbroken
        /\ pcontainer[n].port = pworker[w].port
        => pcontainer[n].is # "run"

=============================================================================
