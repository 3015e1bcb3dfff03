------------------------------- MODULE FdPool -------------------------------
(***************************************************************************)
(* The per-device descriptor pool of act.c: fd_get, fd_put, fd_close_all,  *)
(* and the close() that read_from_device / write_to_device do on an I/O    *)
(* error instead of fd_put.  Each device keeps a cf_queue of int fds       *)
(* (p_fd_queue, FIFO); fd_get pops one or, when the queue is empty, opens  *)
(* the device again.  File descriptor numbers are a process-wide resource: *)
(* open() returns the lowest free number, so a number closed for one       *)
(* device may come back for another.                                       *)
(***************************************************************************)
EXTENDS Integers, Sequences, FiniteSets, FiniteSetsExt

CONSTANTS
  Devs,    \* device indexes (device.n)
  Users,   \* the threads that borrow descriptors
  Fds,     \* descriptor numbers open() may return (a finite set of Nat)
  NoFd,    \* fd == -1
  NoDev    \* marks a descriptor number that is not open

ASSUME Fds \subseteq Nat /\ Fds # {}

VARIABLES
  fdq,     \* fdq[d]: the contents of devices[d].p_fd_queue
  fdDev,   \* fdDev[f]: the device descriptor f is open on, or NoDev
  held     \* held[u]: the descriptor thread u got from fd_get, or NoFd

poolVars == <<fdq, fdDev, held>>

FreeFds == {f \in Fds : fdDev[f] = NoDev}

PoolTypeOK ==
  /\ fdq \in [Devs -> Seq(Fds)]
  /\ fdDev \in [Fds -> Devs \cup {NoDev}]
  /\ held \in [Users -> Fds \cup {NoFd}]

(* Setup: discover_num_blocks() does one fd_get / fd_put per device, in    *)
(* device order, so device d starts with one pooled descriptor.            *)
PoolInit(order) ==
  /\ fdq = [d \in Devs |-> <<order[d]>>]
  /\ fdDev = [f \in Fds |-> IF \E d \in Devs : order[d] = f
                             THEN CHOOSE d \in Devs : order[d] = f
                             ELSE NoDev]
  /\ held = [u \in Users |-> NoFd]

(* Mutant of fd_get: the queue's head is read but not removed.            *)
fd_get_peek(u, d) ==
  \/ /\ fdq[d] # <<>>
     /\ held' = [held EXCEPT ![u] = Head(fdq[d])]
     /\ UNCHANGED <<fdq, fdDev>>
  \/ /\ fdq[d] = <<>>
     /\ FreeFds # {}
     /\ held' = [held EXCEPT ![u] = Min(FreeFds)]
     /\ fdDev' = [fdDev EXCEPT ![Min(FreeFds)] = d]
     /\ UNCHANGED fdq
  \/ /\ fdq[d] = <<>>
     /\ held' = [held EXCEPT ![u] = NoFd]
     /\ UNCHANGED <<fdq, fdDev>>

(* fd_get(): pop the queue without waiting; if it is empty, open() the     *)
(* device.  open() takes the lowest free number, and may fail (EMFILE,     *)
(* ENOMEM, ...), in which case the caller gets -1.                         *)
fd_get(u, d) ==
  \/ /\ fdq[d] # <<>>
     /\ held' = [held EXCEPT ![u] = Head(fdq[d])]
     /\ fdq' = [fdq EXCEPT ![d] = Tail(@)]
     /\ UNCHANGED fdDev
  \/ /\ fdq[d] = <<>>
     /\ FreeFds # {}
     /\ held' = [held EXCEPT ![u] = Min(FreeFds)]
     /\ fdDev' = [fdDev EXCEPT ![Min(FreeFds)] = d]
     /\ UNCHANGED fdq
  \/ /\ fdq[d] = <<>>
     /\ held' = [held EXCEPT ![u] = NoFd]
     /\ UNCHANGED <<fdq, fdDev>>

(* fd_put(): push the borrowed descriptor back on the device's queue.      *)
fd_put(u, d) ==
  /\ fdq' = [fdq EXCEPT ![d] = Append(@, held[u])]
  /\ held' = [held EXCEPT ![u] = NoFd]
  /\ UNCHANGED fdDev

(* The error path of read_from_device / write_to_device: close(fd), and    *)
(* do not return it to the pool.                                           *)
fd_close(u) ==
  /\ fdDev' = [fdDev EXCEPT ![held[u]] = NoDev]
  /\ held' = [held EXCEPT ![u] = NoFd]
  /\ UNCHANGED fdq

(* fd_close_all(): pop and close() every descriptor in the queue.          *)
fd_close_all(d) ==
  /\ fdDev' = [f \in Fds |-> IF \E i \in DOMAIN fdq[d] : fdq[d][i] = f
                              THEN NoDev ELSE fdDev[f]]
  /\ fdq' = [fdq EXCEPT ![d] = <<>>]
  /\ UNCHANGED held

=============================================================================
