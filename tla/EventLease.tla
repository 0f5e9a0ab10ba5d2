----------------------------- MODULE EventLease -----------------------------
(***************************************************************************)
(* What the event cache promises to the Level Zero kernel collector: each  *)
(* command that needs a profiling event gets one nobody else has, keeps it *)
(* until it gives it back, and no event is disposed of while it is leased. *)
(* How the events are stored, pooled and recycled is of no concern here;   *)
(* ZeEventCache is shown to implement this specification.                  *)
(***************************************************************************)
EXTENDS Naturals

CONSTANTS
  Events,    \* event handles of the driver
  Holders,   \* ZeKernelCommand objects
  None       \* no event

VARIABLES
  lease,     \* lease[h]: the cached event that command h holds, or None
  idle       \* the cached events nobody holds

leaseVars == <<lease, idle>>

Leased == {lease[h] : h \in Holders} \ {None}

LeaseInit ==
  /\ lease = [h \in Holders |-> None]
  /\ idle = {}

\* A command is given an event that no command holds, be it an idle one or
\* one of a batch of new ones.
Lease(h, e) ==
  /\ lease[h] = None
  /\ e \in Events \ Leased
  /\ lease' = [lease EXCEPT ![h] = e]
  /\ \E new \in SUBSET (Events \ Leased) : idle' = (idle \cup new) \ {e}

GiveBack(h) ==
  /\ lease[h] # None
  /\ lease' = [lease EXCEPT ![h] = None]
  /\ idle' = idle \cup {lease[h]}

\* Only idle events are disposed of.
Retire(S) ==
  /\ idle' = idle \ S
  /\ UNCHANGED lease

LeaseNext ==
  \/ \E h \in Holders, e \in Events : Lease(h, e)
  \/ \E h \in Holders : GiveBack(h)
  \/ \E S \in SUBSET idle : Retire(S)

LeaseSpec == LeaseInit /\ [][LeaseNext]_leaseVars
=============================================================================
