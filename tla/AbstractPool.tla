---------------------------- MODULE AbstractPool ----------------------------
(***************************************************************************)
(* What the descriptor pool promises (spec 4.3 and 5), without its queue:  *)
(* a device's pool is a set of handles open on that device; a handle is    *)
(* lent to at most one thread at a time and is never both lent and pooled; *)
(* acquire takes any pooled handle, or opens a new one only when the pool  *)
(* is empty; release returns a handle to its own device's pool; an I/O     *)
(* error closes the handle instead; close_all closes every pooled handle.  *)
(* FdPool, inside ActStorage, is checked to implement this.                *)
(***************************************************************************)
CONSTANTS Devs, Users, Fds, NoFd, NoDev

VARIABLES
  pooled,  \* pooled[d]: the handles in device d's pool
  openOn,  \* openOn[f]: the device handle f is open on, or NoDev
  lent     \* lent[u]: the handle thread u holds, or NoFd

absVars == <<pooled, openOn, lent>>

Lent == {lent[u] : u \in Users} \ {NoFd}

AbsInit ==
  /\ openOn \in [Fds -> Devs \cup {NoDev}]
  /\ pooled = [d \in Devs |-> {f \in Fds : openOn[f] = d}]
  /\ lent = [u \in Users |-> NoFd]

Acquire(u, d) ==
  /\ lent[u] = NoFd
  /\ \/ \E f \in pooled[d] :
          /\ pooled' = [pooled EXCEPT ![d] = @ \ {f}]
          /\ lent' = [lent EXCEPT ![u] = f]
          /\ UNCHANGED openOn
     \/ /\ pooled[d] = {}
        /\ \E f \in Fds :
             /\ openOn[f] = NoDev
             /\ openOn' = [openOn EXCEPT ![f] = d]
             /\ lent' = [lent EXCEPT ![u] = f]
        /\ UNCHANGED pooled

Release(u, d) ==
  /\ lent[u] # NoFd
  /\ openOn[lent[u]] = d
  /\ lent[u] \notin pooled[d]
  /\ pooled' = [pooled EXCEPT ![d] = @ \cup {lent[u]}]
  /\ lent' = [lent EXCEPT ![u] = NoFd]
  /\ UNCHANGED openOn

Discard(u) ==
  /\ lent[u] # NoFd
  /\ openOn' = [openOn EXCEPT ![lent[u]] = NoDev]
  /\ lent' = [lent EXCEPT ![u] = NoFd]
  /\ UNCHANGED pooled

CloseAll(d) ==
  /\ openOn' = [f \in Fds |-> IF f \in pooled[d] THEN NoDev ELSE openOn[f]]
  /\ pooled' = [pooled EXCEPT ![d] = {}]
  /\ UNCHANGED lent

AbsNext ==
  \/ \E u \in Users, d \in Devs : Acquire(u, d) \/ Release(u, d)
  \/ \E u \in Users : Discard(u)
  \/ \E d \in Devs : CloseAll(d)

AbsSpec == AbsInit /\ [][AbsNext]_absVars
=============================================================================
