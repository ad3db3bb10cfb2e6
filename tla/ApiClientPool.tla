--------------------------- MODULE ApiClientPool ----------------------------
(***************************************************************************)
(* The pool of API clients of e3api/e3-api-wrapper.c.  The clients form a  *)
(* ring.  A caller takes a ticket from the semaphore sem_quota, then scans *)
(* the ring under api_allocator_guard for a client whose mutex is free.    *)
(* It gives the mutex back without that guard, and the ticket after it.    *)
(* A caller whose sem_timedwait times out changes nothing.  lptr and       *)
(* lpfound are local: they are reset when the caller is done with them.    *)
(***************************************************************************)
EXTENDS Integers, FiniteSets

CONSTANTS
  NrClients,  \* g_client_cnt once all clients are published
  Callers,    \* threads of the client process
  None        \* NULL, and the owner of a free mutex

ASSUME NrClientsAssumption == NrClients \in Nat \ {0}
ASSUME CallersAssumption == IsFiniteSet(Callers) /\ None \notin Callers

Clients == 0 .. NrClients - 1
ASSUME NoneAssumption == None \notin Clients

\* next_api_client.
Succ(i) == IF i = NrClients - 1 THEN 0 ELSE i + 1

VARIABLES
  sem_quota,            \* value of the semaphore
  api_allocator_guard,  \* owner of the mutex
  client_guard,         \* owner of each client's mutex
  last_client_used,     \* static variable of reference_e3_api_client
  pc,                   \* where each caller is
  lptr,                 \* client each caller has scanned last
  lpfound               \* client each caller has found

pool == <<sem_quota, api_allocator_guard, client_guard, last_client_used,
          pc, lptr, lpfound>>

PoolTypeOK ==
  /\ sem_quota \in Nat
  /\ api_allocator_guard \in Callers \cup {None}
  /\ client_guard \in [Clients -> Callers \cup {None}]
  /\ last_client_used \in Clients \cup {None}
  /\ pc \in [Callers -> {"idle", "ticket", "scan", "scanned", "using", "post"}]
  /\ lptr \in [Callers -> Clients]
  /\ lpfound \in [Callers -> Clients \cup {None}]

\* All clients are published before the first call.
PoolInit ==
  /\ sem_quota = NrClients
  /\ api_allocator_guard = None
  /\ client_guard = [i \in Clients |-> None]
  /\ last_client_used = None
  /\ pc = [t \in Callers |-> "idle"]
  /\ lptr = [t \in Callers |-> 0]
  /\ lpfound = [t \in Callers |-> None]

----------------------------------------------------------------------------
\* sem_timedwait.
WaitQuota(t) ==
  /\ pc[t] = "idle" /\ sem_quota > 0
  /\ sem_quota' = sem_quota - 1
  /\ pc' = [pc EXCEPT ![t] = "ticket"]
  /\ UNCHANGED <<api_allocator_guard, client_guard, last_client_used, lptr, lpfound>>

\* Mutant: last_client_used is not set before its first use.
LockUninitialized(t) ==
  /\ pc[t] = "ticket" /\ api_allocator_guard = None
  /\ api_allocator_guard' = t
  /\ lptr' = [lptr EXCEPT ![t] = last_client_used]
  /\ lpfound' = [lpfound EXCEPT ![t] = None]
  /\ pc' = [pc EXCEPT ![t] = "scan"]
  /\ UNCHANGED <<sem_quota, client_guard, last_client_used>>

LockAllocator(t) ==
  LET start == IF last_client_used = None THEN 0 ELSE last_client_used
  IN  /\ pc[t] = "ticket" /\ api_allocator_guard = None
      /\ api_allocator_guard' = t
      /\ last_client_used' = start
      /\ lptr' = [lptr EXCEPT ![t] = start]
      /\ lpfound' = [lpfound EXCEPT ![t] = None]
      /\ pc' = [pc EXCEPT ![t] = "scan"]
      /\ UNCHANGED <<sem_quota, client_guard>>

\* Mutant: the result of pthread_mutex_trylock is not tested.
FindAnyClient(t) ==
  LET i == Succ(lptr[t])
  IN  /\ pc[t] = "scan"
      /\ client_guard' = [client_guard EXCEPT ![i] = t]
      /\ lptr' = [lptr EXCEPT ![t] = i]
      /\ lpfound' = [lpfound EXCEPT ![t] = i]
      /\ last_client_used' = i
      /\ pc' = [pc EXCEPT ![t] = "scanned"]
      /\ UNCHANGED <<sem_quota, api_allocator_guard>>

\* pthread_mutex_trylock(&lptr->client_guard) succeeds on the next client,
\* which ends the scan.
FindClient(t) ==
  LET i == Succ(lptr[t])
  IN  /\ pc[t] = "scan" /\ client_guard[i] = None
      /\ client_guard' = [client_guard EXCEPT ![i] = t]
      /\ lptr' = [lptr EXCEPT ![t] = i]
      /\ lpfound' = [lpfound EXCEPT ![t] = i]
      /\ last_client_used' = i
      /\ pc' = [pc EXCEPT ![t] = "scanned"]
      /\ UNCHANGED <<sem_quota, api_allocator_guard>>

\* The next client is in use; the scan ends where it began.
SkipClient(t) ==
  LET i == Succ(lptr[t])
  IN  /\ pc[t] = "scan" /\ client_guard[i] # None
      /\ lptr' = [lptr EXCEPT ![t] = i]
      /\ pc' = [pc EXCEPT ![t] = IF i = last_client_used THEN "scanned" ELSE "scan"]
      /\ UNCHANGED <<sem_quota, api_allocator_guard, client_guard,
                     last_client_used, lpfound>>

\* A caller that has found no client posts its ticket back.
UnlockAllocator(t) ==
  /\ pc[t] = "scanned"
  /\ api_allocator_guard' = None
  /\ pc' = [pc EXCEPT ![t] = IF lpfound[t] = None THEN "post" ELSE "using"]
  /\ lptr' = [lptr EXCEPT ![t] = 0]
  /\ UNCHANGED <<sem_quota, client_guard, last_client_used, lpfound>>

\* Mutant: dereference_e3_api_client posts the ticket before the mutex is free.
PostThenUnlock(t) ==
  /\ \/ pc[t] = "using" /\ sem_quota' = sem_quota + 1
        /\ pc' = [pc EXCEPT ![t] = "post"] /\ UNCHANGED <<client_guard, lpfound>>
     \/ pc[t] = "post" /\ pc' = [pc EXCEPT ![t] = "idle"] /\ UNCHANGED sem_quota
        /\ client_guard' = [client_guard EXCEPT ![lpfound[t]] = None]
        /\ lpfound' = [lpfound EXCEPT ![t] = None]
  /\ UNCHANGED <<api_allocator_guard, last_client_used, lptr>>

\* Mutant: dereference_e3_api_client keeps the ticket.
KeepTicket(t) ==
  /\ \/ pc[t] = "using" /\ pc' = [pc EXCEPT ![t] = "post"] /\ UNCHANGED lpfound
        /\ client_guard' = [client_guard EXCEPT ![lpfound[t]] = None]
     \/ pc[t] = "post" /\ pc' = [pc EXCEPT ![t] = "idle"] /\ UNCHANGED client_guard
        /\ lpfound' = [lpfound EXCEPT ![t] = None]
  /\ UNCHANGED <<sem_quota, api_allocator_guard, last_client_used, lptr>>

\* dereference_e3_api_client: the mutex, then the ticket.
DereferenceClient(t) ==
  /\ \/ pc[t] = "using" /\ UNCHANGED <<sem_quota, lpfound>>
        /\ pc' = [pc EXCEPT ![t] = "post"]
        /\ client_guard' = [client_guard EXCEPT ![lpfound[t]] = None]
     \/ pc[t] = "post" /\ sem_quota' = sem_quota + 1
        /\ pc' = [pc EXCEPT ![t] = "idle"] /\ UNCHANGED client_guard
        /\ lpfound' = [lpfound EXCEPT ![t] = None]
  /\ UNCHANGED <<api_allocator_guard, last_client_used, lptr>>

ReferenceClient(t) ==
  \/ WaitQuota(t) \/ LockAllocator(t)
  \/ FindClient(t) \/ SkipClient(t) \/ UnlockAllocator(t)

PoolNext == \E t \in Callers : ReferenceClient(t) \/ DereferenceClient(t)

PoolSpec == PoolInit /\ [][PoolNext]_pool

----------------------------------------------------------------------------
(* Properties.                                                             *)

Owns(t, i) == pc[t] \in {"scanned", "using"} /\ lpfound[t] = i

\* A client is used by the one caller that holds its mutex: two requests never
\* share a socket or a buffer.
ClientExclusion == \A t \in Callers, i \in Clients : Owns(t, i) => client_guard[i] = t

Ticketed == {t \in Callers : pc[t] # "idle"}

\* Every ticket is with a caller or in the semaphore, which never admits more
\* callers than there are clients.
TicketsAreConserved == sem_quota + Cardinality(Ticketed) = NrClients

\* A caller with a ticket finds a client: the branch of reference_e3_api_client
\* for "still not found" is never taken.
ScanSucceeds == \A t \in Callers : pc[t] \in {"scanned", "using"} => lpfound[t] # None
=============================================================================
