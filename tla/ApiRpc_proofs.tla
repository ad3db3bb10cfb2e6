---------------------------- MODULE ApiRpc_proofs ----------------------------
(***************************************************************************)
(* The pool of clients, and the calls made with them, for any number of    *)
(* clients, callers, calls and restarts.                                   *)
(*                                                                         *)
(* That a scan finds a client rests on a count, made once when the scan    *)
(* begins: fewer callers than clients hold a ticket besides the scanner,   *)
(* and every locked client belongs to one of them.  From then on only the  *)
(* scanner locks clients, so the client that was free stays free, and it   *)
(* lies among those the scan has not reached.                              *)
(*                                                                         *)
(* ApiRpc uses the pool as ApiClientPool says, a socket that may send has  *)
(* no message in flight, and every call is an at-most-once call            *)
(* (RemoteCall).                                                           *)
(***************************************************************************)
EXTENDS ApiRpc, FiniteSetTheorems, TLAPS

(***************************************************************************)
(* The pool.                                                               *)
(***************************************************************************)
\* How many steps of the ring lead from client a to client i: 1 .. NrClients.
Steps(a, i) == IF i > a THEN i - a ELSE i - a + NrClients

\* How many clients a scan that began at a has tried when it is at i.
Tried(a, i) == IF i >= a THEN i - a ELSE i - a + NrClients

\* Client i is free, and the scan that is at client l has yet to try it.
FreeAhead(l, i) ==
  client_guard[i] = None /\ Steps(last_client_used, i) > Tried(last_client_used, l)

\* A locked client belongs to a caller that has found it.
LocksAreOwned ==
  \A i \in Clients : client_guard[i] # None => Owns(client_guard[i], i)

\* One caller scans at a time.
ScanIsExclusive ==
  \A t \in Callers : pc[t] \in {"scan", "scanned"} => api_allocator_guard = t

\* The posting caller is past its client; the scanner has a free one ahead.
ScanHasClient ==
  \A t \in Callers : pc[t] = "scan" =>
    /\ last_client_used \in Clients
    /\ \E i \in Clients : FreeAhead(lptr[t], i)

IInv ==
  /\ PoolTypeOK
  /\ ClientExclusion
  /\ LocksAreOwned
  /\ ScanIsExclusive
  /\ ScanHasClient
  /\ ScanSucceeds
  /\ TicketsAreConserved

\* The ring leads from a client to a client.
LEMMA SuccType == \A i \in Clients : Succ(i) \in Clients
  BY NrClientsAssumption DEF Clients, Succ

\* One more client has been tried, unless the scan is back where it began.
LEMMA TriedSucc ==
  ASSUME NEW a \in Clients, NEW l \in Clients, NEW i \in Clients,
         Steps(a, i) > Tried(a, l), i # Succ(l)
  PROVE  Succ(l) # a /\ Steps(a, i) > Tried(a, Succ(l))
  BY NrClientsAssumption DEF Clients, Succ, Steps, Tried

\* A scan has tried nothing when it begins.
LEMMA TriedNone == \A a, i \in Clients : Steps(a, i) > Tried(a, a)
  BY NrClientsAssumption DEF Clients, Steps, Tried

LEMMA TicketedFinite == IsFiniteSet(Ticketed) /\ Cardinality(Ticketed) \in Nat
  BY CallersAssumption, FS_Subset, FS_CardinalityType DEF Ticketed

\* The count: a caller with a ticket that owns no client finds one free.
LEMMA SomeClientIsFree ==
  ASSUME IInv, NEW t \in Callers, pc[t] = "ticket"
  PROVE  \E i \in Clients : client_guard[i] = None
  <1> SUFFICES ASSUME \A i \in Clients : client_guard[i] # None
               PROVE  FALSE
    OBVIOUS
  <1> DEFINE Others == Ticketed \ {t}
  <1>1. client_guard \in [Clients -> Others]
    <2>1. client_guard \in [Clients -> Callers]
      BY DEF IInv, PoolTypeOK
    <2>2. \A i \in Clients : client_guard[i] \in Others
      BY <2>1 DEF IInv, LocksAreOwned, Owns, Ticketed
    <2>3. QED
      BY <2>1, <2>2
  <1>2. IsFiniteSet(Clients) /\ Cardinality(Clients) = NrClients
    BY NrClientsAssumption, FS_Interval DEF Clients
  <1>3. t \in Ticketed
    BY DEF Ticketed
  <1>4. IsFiniteSet(Others) /\ Cardinality(Others) = Cardinality(Ticketed) - 1
    BY <1>3, TicketedFinite, FS_RemoveElement
  <1>5. Cardinality(Others) < NrClients
    BY <1>4, TicketedFinite, NrClientsAssumption DEF IInv, PoolTypeOK, TicketsAreConserved
  <1>6. \E i, j \in Clients : i # j /\ client_guard[i] = client_guard[j]
    <2> HIDE DEF Others
    <2>1. Cardinality(Others) < Cardinality(Clients)
      BY <1>2, <1>5
    <2>2. QED
      BY <1>1, <1>2, <1>4, <2>1, FS_PigeonHole
  <1>7. QED
    BY <1>6 DEF IInv, LocksAreOwned, Owns

LEMMA InitIInv == PoolInit => IInv
  <1> SUFFICES ASSUME PoolInit PROVE IInv
    OBVIOUS
  <1>1. 0 \in Clients
    BY NrClientsAssumption DEF Clients
  <1>2. PoolTypeOK
    BY <1>1, NrClientsAssumption DEF PoolInit, PoolTypeOK
  <1>3. TicketsAreConserved
    <2>1. Ticketed = {}
      BY DEF PoolInit, Ticketed
    <2>2. QED
      BY <2>1, FS_EmptySet, NrClientsAssumption DEF PoolInit, TicketsAreConserved
  <1>4. QED
    BY <1>2, <1>3 DEF PoolInit, IInv, ClientExclusion, LocksAreOwned, Owns,
                      ScanIsExclusive, ScanHasClient, ScanSucceeds

----------------------------------------------------------------------------
(* Tickets: a caller takes or gives one only when it enters or leaves.     *)

LEMMA SameTickets ==
  ASSUME TicketsAreConserved, Ticketed' = Ticketed, sem_quota' = sem_quota
  PROVE  TicketsAreConserved'
  BY DEF TicketsAreConserved

LEMMA TicketTaken ==
  ASSUME IInv, NEW t \in Callers, WaitQuota(t)
  PROVE  TicketsAreConserved'
  <1>1. t \notin Ticketed /\ Ticketed' = Ticketed \cup {t}
    BY DEF IInv, PoolTypeOK, WaitQuota, Ticketed
  <1>2. Cardinality(Ticketed') = Cardinality(Ticketed) + 1
    BY <1>1, TicketedFinite, FS_AddElement
  <1>3. QED
    BY <1>2, TicketedFinite, NrClientsAssumption
       DEF IInv, PoolTypeOK, WaitQuota, TicketsAreConserved

LEMMA TicketGiven ==
  ASSUME IInv, NEW t \in Callers, DereferenceClient(t)
  PROVE  TicketsAreConserved'
  <1>1. CASE pc[t] = "using"
    <2>1. Ticketed' = Ticketed /\ sem_quota' = sem_quota
      BY <1>1 DEF IInv, PoolTypeOK, DereferenceClient, Ticketed
    <2>2. QED
      BY <2>1, SameTickets DEF IInv
  <1>2. CASE pc[t] = "post"
    <2>1. t \in Ticketed /\ Ticketed' = Ticketed \ {t}
      BY <1>2 DEF IInv, PoolTypeOK, DereferenceClient, Ticketed
    <2>2. Cardinality(Ticketed') = Cardinality(Ticketed) - 1
      BY <2>1, TicketedFinite, FS_RemoveElement
    <2>3. sem_quota' = sem_quota + 1
      BY <1>2 DEF DereferenceClient
    <2>4. QED
      BY <2>2, <2>3, TicketedFinite, NrClientsAssumption
         DEF IInv, PoolTypeOK, TicketsAreConserved
  <1>3. QED
    BY <1>1, <1>2 DEF DereferenceClient

----------------------------------------------------------------------------
(* Each step preserves the invariant.                                      *)

LEMMA WaitQuotaIInv ==
  ASSUME IInv, NEW t \in Callers, WaitQuota(t)
  PROVE  IInv'
  <1>1. PoolTypeOK'
    BY DEF IInv, PoolTypeOK, WaitQuota
  <1>2. ClientExclusion' /\ LocksAreOwned'
    BY DEF IInv, PoolTypeOK, WaitQuota, ClientExclusion, LocksAreOwned, Owns
  <1>3. ScanIsExclusive' /\ ScanSucceeds'
    BY DEF IInv, PoolTypeOK, WaitQuota, ScanIsExclusive, ScanSucceeds
  <1>4. ScanHasClient'
    BY DEF IInv, PoolTypeOK, WaitQuota, ScanHasClient, FreeAhead
  <1>5. QED
    BY <1>1, <1>2, <1>3, <1>4, TicketTaken DEF IInv

LEMMA LockAllocatorIInv ==
  ASSUME IInv, NEW t \in Callers, LockAllocator(t)
  PROVE  IInv'
  <1> DEFINE start == IF last_client_used = None THEN 0 ELSE last_client_used
  <1>1. start \in Clients
    BY NrClientsAssumption DEF IInv, PoolTypeOK, Clients
  <1>2. PoolTypeOK'
    BY <1>1 DEF IInv, PoolTypeOK, LockAllocator
  <1>3. ClientExclusion' /\ LocksAreOwned'
    BY CallersAssumption
       DEF IInv, PoolTypeOK, LockAllocator, ClientExclusion, LocksAreOwned, Owns
  <1>4. ScanIsExclusive' /\ ScanSucceeds'
    BY CallersAssumption
       DEF IInv, PoolTypeOK, LockAllocator, ScanIsExclusive, ScanSucceeds
  <1>5. ScanHasClient'
    <2>1. PICK i \in Clients : client_guard[i] = None
      BY SomeClientIsFree DEF LockAllocator
    <2>2. last_client_used' = start /\ lptr'[t] = start /\ client_guard'[i] = None
      BY <2>1 DEF LockAllocator, IInv, PoolTypeOK
    <2>3. FreeAhead(lptr[t], i)'
      BY <1>1, <2>2, TriedNone DEF FreeAhead, Steps, Tried
    <2>4. \A s \in Callers : pc'[s] = "scan" => s = t
      BY CallersAssumption
         DEF IInv, PoolTypeOK, LockAllocator, ScanIsExclusive
    <2>5. QED
      BY <1>1, <2>2, <2>3, <2>4 DEF ScanHasClient
  <1>6. TicketsAreConserved'
    <2>1. Ticketed' = Ticketed /\ sem_quota' = sem_quota
      BY DEF IInv, PoolTypeOK, LockAllocator, Ticketed
    <2>2. QED
      BY <2>1, SameTickets DEF IInv
  <1>7. QED
    BY <1>2, <1>3, <1>4, <1>5, <1>6 DEF IInv

LEMMA FindClientIInv ==
  ASSUME IInv, NEW t \in Callers, FindClient(t)
  PROVE  IInv'
  <1> DEFINE i == Succ(lptr[t])
  <1>1. i \in Clients
    BY SuccType DEF IInv, PoolTypeOK
  <1>2. PoolTypeOK'
    BY <1>1 DEF IInv, PoolTypeOK, FindClient
  <1>3. \A s \in Callers : s # t => pc[s] \notin {"scan", "scanned"}
    BY DEF IInv, ScanIsExclusive, FindClient
  <1>4. ClientExclusion'
    <2> SUFFICES ASSUME NEW s \in Callers, NEW j \in Clients, Owns(s, j)'
                 PROVE  client_guard'[j] = s
      BY DEF ClientExclusion
    <2>1. CASE s = t
      BY <1>1, <2>1 DEF IInv, PoolTypeOK, FindClient, Owns
    <2>2. CASE s # t
      <3>1. Owns(s, j)
        BY <2>2 DEF IInv, PoolTypeOK, FindClient, Owns
      <3>2. client_guard[j] = s /\ j # i
        BY <3>1, CallersAssumption DEF IInv, ClientExclusion, FindClient
      <3>3. QED
        BY <1>1, <3>2 DEF IInv, PoolTypeOK, FindClient
    <2>3. QED
      BY <2>1, <2>2
  <1>5. LocksAreOwned'
    <2> SUFFICES ASSUME NEW j \in Clients, client_guard'[j] # None
                 PROVE  Owns(client_guard[j], j)'
      BY DEF LocksAreOwned
    <2>1. CASE j = i
      BY <1>1, <2>1 DEF IInv, PoolTypeOK, FindClient, Owns
    <2>2. CASE j # i
      <3>1. client_guard'[j] = client_guard[j] /\ Owns(client_guard[j], j)
        BY <1>1, <2>2 DEF IInv, PoolTypeOK, FindClient, LocksAreOwned
      <3>2. client_guard[j] \in Callers /\ client_guard[j] # t
        BY <3>1 DEF IInv, PoolTypeOK, FindClient, Owns
      <3>3. QED
        BY <3>1, <3>2 DEF IInv, PoolTypeOK, FindClient, Owns
    <2>3. QED
      BY <2>1, <2>2
  <1>6. ScanIsExclusive' /\ ScanHasClient'
    BY <1>3 DEF IInv, PoolTypeOK, FindClient, ScanIsExclusive, ScanHasClient
  <1>7. ScanSucceeds'
    BY <1>1, NoneAssumption DEF IInv, PoolTypeOK, FindClient, ScanSucceeds
  <1>8. TicketsAreConserved'
    <2>1. Ticketed' = Ticketed /\ sem_quota' = sem_quota
      BY DEF IInv, PoolTypeOK, FindClient, Ticketed
    <2>2. QED
      BY <2>1, SameTickets DEF IInv
  <1>9. QED
    BY <1>2, <1>4, <1>5, <1>6, <1>7, <1>8 DEF IInv

LEMMA SkipClientIInv ==
  ASSUME IInv, NEW t \in Callers, SkipClient(t)
  PROVE  IInv'
  <1> DEFINE i == Succ(lptr[t])
  <1>1. i \in Clients /\ lptr[t] \in Clients /\ last_client_used \in Clients
    BY SuccType DEF IInv, PoolTypeOK, ScanHasClient, SkipClient
  <1>2. PICK j \in Clients : FreeAhead(lptr[t], j)
    BY DEF IInv, ScanHasClient, SkipClient
  <1>3. i # last_client_used /\ Steps(last_client_used, j) > Tried(last_client_used, i)
    <2>1. j # i
      BY <1>2 DEF FreeAhead, SkipClient
    <2>2. QED
      BY <1>1, <1>2, <2>1, TriedSucc DEF FreeAhead
  <1>4. pc' = pc /\ lptr'[t] = i
    BY <1>3 DEF IInv, PoolTypeOK, SkipClient
  <1>5. PoolTypeOK'
    BY <1>1, <1>4 DEF IInv, PoolTypeOK, SkipClient
  <1>6. ClientExclusion' /\ LocksAreOwned' /\ ScanIsExclusive' /\ ScanSucceeds'
    BY <1>4 DEF IInv, SkipClient, ClientExclusion, LocksAreOwned, Owns,
                ScanIsExclusive, ScanSucceeds
  <1>7. ScanHasClient'
    <2>1. FreeAhead(lptr[t], j)'
      BY <1>2, <1>3, <1>4 DEF SkipClient, FreeAhead, Steps, Tried
    <2>2. \A s \in Callers : pc'[s] = "scan" => s = t
      BY <1>4 DEF IInv, SkipClient, ScanIsExclusive
    <2>3. last_client_used' \in Clients
      BY <1>1 DEF SkipClient
    <2>4. QED
      BY <2>1, <2>2, <2>3 DEF ScanHasClient
  <1>8. TicketsAreConserved'
    BY <1>4, SameTickets DEF IInv, SkipClient, Ticketed
  <1>9. QED
    BY <1>5, <1>6, <1>7, <1>8 DEF IInv

LEMMA UnlockAllocatorIInv ==
  ASSUME IInv, NEW t \in Callers, UnlockAllocator(t)
  PROVE  IInv'
  <1>1. pc' = [pc EXCEPT ![t] = "using"]
    BY DEF IInv, ScanSucceeds, UnlockAllocator
  <1>2. PoolTypeOK'
    <2>1. 0 \in Clients
      BY NrClientsAssumption DEF Clients
    <2>2. QED
      BY <1>1, <2>1 DEF IInv, PoolTypeOK, UnlockAllocator
  <1>3. ClientExclusion' /\ LocksAreOwned'
    BY <1>1 DEF IInv, PoolTypeOK, UnlockAllocator, ClientExclusion, LocksAreOwned, Owns
  <1>4. \A s \in Callers : s # t => pc[s] \notin {"scan", "scanned"}
    BY DEF IInv, ScanIsExclusive, UnlockAllocator
  <1>5. ScanIsExclusive' /\ ScanHasClient'
    BY <1>1, <1>4 DEF IInv, PoolTypeOK, UnlockAllocator, ScanIsExclusive, ScanHasClient
  <1>6. ScanSucceeds'
    BY <1>1 DEF IInv, PoolTypeOK, UnlockAllocator, ScanSucceeds
  <1>7. TicketsAreConserved'
    <2>1. Ticketed' = Ticketed /\ sem_quota' = sem_quota
      BY <1>1 DEF IInv, PoolTypeOK, UnlockAllocator, Ticketed
    <2>2. QED
      BY <2>1, SameTickets DEF IInv
  <1>8. QED
    BY <1>2, <1>3, <1>5, <1>6, <1>7 DEF IInv

LEMMA DereferenceClientIInv ==
  ASSUME IInv, NEW t \in Callers, DereferenceClient(t)
  PROVE  IInv'
  <1>1. TicketsAreConserved'
    BY TicketGiven
  <1>2. ScanIsExclusive' /\ ScanSucceeds'
    BY DEF IInv, PoolTypeOK, DereferenceClient, ScanIsExclusive, ScanSucceeds
  <1>3. CASE pc[t] = "post"
    <2>1. PoolTypeOK'
      BY <1>3 DEF IInv, PoolTypeOK, DereferenceClient
    <2>2. ClientExclusion' /\ LocksAreOwned'
      BY <1>3 DEF IInv, PoolTypeOK, DereferenceClient, ClientExclusion, LocksAreOwned, Owns
    <2>3. ScanHasClient'
      BY <1>3 DEF IInv, PoolTypeOK, DereferenceClient, ScanHasClient, FreeAhead
    <2>4. QED
      BY <1>1, <1>2, <2>1, <2>2, <2>3 DEF IInv
  <1>4. CASE pc[t] = "using"
    <2> DEFINE c == lpfound[t]
    <2>1. c \in Clients /\ client_guard[c] = t
      BY <1>4 DEF IInv, PoolTypeOK, ScanSucceeds, ClientExclusion, Owns
    <2>2. client_guard' = [client_guard EXCEPT ![c] = None]
      BY <1>4 DEF DereferenceClient
    <2>3. PoolTypeOK'
      BY <1>4, <2>2 DEF IInv, PoolTypeOK, DereferenceClient
    <2>4. ClientExclusion'
      BY <1>4, <2>1, <2>2
         DEF IInv, PoolTypeOK, DereferenceClient, ClientExclusion, Owns
    <2>5. LocksAreOwned'
      BY <1>4, <2>1, <2>2
         DEF IInv, PoolTypeOK, DereferenceClient, LocksAreOwned, Owns
    <2>6. ScanHasClient'
      BY <1>4, <2>2 DEF IInv, PoolTypeOK, DereferenceClient, ScanHasClient, FreeAhead
    <2>7. QED
      BY <1>1, <1>2, <2>3, <2>4, <2>5, <2>6 DEF IInv
  <1>5. QED
    BY <1>3, <1>4 DEF DereferenceClient

LEMMA NextIInv == IInv /\ [PoolNext]_pool => IInv'
  <1> SUFFICES ASSUME IInv, [PoolNext]_pool PROVE IInv'
    OBVIOUS
  <1>1. ASSUME NEW t \in Callers, ReferenceClient(t) PROVE IInv'
    BY <1>1, WaitQuotaIInv, LockAllocatorIInv, FindClientIInv, SkipClientIInv,
       UnlockAllocatorIInv DEF ReferenceClient
  <1>2. ASSUME NEW t \in Callers, DereferenceClient(t) PROVE IInv'
    BY <1>2, DereferenceClientIInv
  <1>3. CASE UNCHANGED pool
    BY <1>3 DEF pool, IInv, PoolTypeOK, ClientExclusion, LocksAreOwned, Owns,
                ScanIsExclusive, ScanHasClient, FreeAhead, Steps, Tried,
                ScanSucceeds, TicketsAreConserved, Ticketed
  <1>4. QED
    BY <1>1, <1>2, <1>3 DEF PoolNext

\* Every reachable state of the pool satisfies the invariant.
THEOREM PoolInvariant == PoolSpec => []IInv
  BY InitIInv, NextIInv, PTL DEF PoolSpec

\* Two callers never use one client (reference_e3_api_client).
THEOREM ClientsAreExclusive == PoolSpec => []ClientExclusion
  <1>1. IInv => ClientExclusion
    BY DEF IInv
  <1>2. QED
    BY <1>1, PoolInvariant, PTL

\* The semaphore counts the callers that may scan, for any number of them.
THEOREM TicketsStayConserved == PoolSpec => []TicketsAreConserved
  <1>1. IInv => TicketsAreConserved
    BY DEF IInv
  <1>2. QED
    BY <1>1, PoolInvariant, PTL

\* The scan of reference_e3_api_client never comes back without a client.
THEOREM EveryTicketFindsClient == PoolSpec => []ScanSucceeds
  <1>1. IInv => ScanSucceeds
    BY DEF IInv
  <1>2. QED
    BY <1>1, PoolInvariant, PTL

(***************************************************************************)
(* The calls.                                                              *)
(***************************************************************************)
\* A call of a caller that has not decided its outcome.
Active(t) == step[t] \in {"call", "sent"}

\* Active callers make different calls, which are pending.
CallsArePending ==
  /\ \A t \in Callers : Active(t) => call[t] \in Calls /\ outcome[call[t]] = "pending"
  /\ \A s, t \in Callers : Active(s) /\ Active(t) /\ s # t => call[s] # call[t]

\* A caller between two steps of its stub is in step with its client.
StubFollowsPool ==
  \A t \in Callers :
    /\ step[t] = "none" => pc[t] = "idle"
    /\ step[t] = "sent" => pc[t] = "using" /\ socket[lpfound[t]] = "sent"

\* The message of a client is in one place.
OnePlace ==
  \A i \in Clients :
    /\ requests[i] # {} => replies[i] = {} /\ service.client # i
    /\ service.client = i => replies[i] = {}
    /\ \A m, n \in replies[i] : m = n

\* What is in flight was made, and a caller that waits waits for its own call.
MessagesAreAwaited ==
  \A i \in Clients : \A c \in InFlight(i) :
    /\ outcome[c] # "new"
    /\ \A t \in Callers : step[t] = "sent" /\ lpfound[t] = i => call[t] = c

\* No two clients carry the same call, and a call not sent yet is carried by none.
CallsAreApart ==
  /\ \A i, j \in Clients : \A c \in InFlight(i) : c \in InFlight(j) => i = j
  /\ \A t \in Callers, i \in Clients :
       step[t] = "call" => call[t] \notin InFlight(i)

\* The callback of a call runs when the service has its request.
EffectsFollow ==
  /\ \A c \in Calls : outcome[c] = "new" => effects[c] = 0
  /\ \A t \in Callers : step[t] = "call" => effects[call[t]] = 0
  /\ \A i \in Clients : \A c \in requests[i] : effects[c] = 0
  /\ service.at = "dispatch" => effects[service.call] = 0
  /\ service.at = "send" /\ service.status = "good" => effects[service.call] = 1
  /\ \A i \in Clients : \A m \in replies[i] : m.status = "good" => effects[m.call] = 1

RpcInv ==
  /\ TypeOK /\ CallsArePending /\ StubFollowsPool /\ OnePlace
  /\ MessagesAreAwaited /\ ReadySocketIsQuiet /\ CallsAreApart /\ EffectsFollow

----------------------------------------------------------------------------
(* The pool.                                                               *)

\* A step of one caller in the pool leaves the others where they are.
LEMMA PoolStepIsLocal ==
  ASSUME PoolTypeOK, NEW t \in Callers, ReferenceClient(t) \/ DereferenceClient(t),
         NEW s \in Callers, s # t
  PROVE  pc'[s] = pc[s] /\ lpfound'[s] = lpfound[s]
  BY DEF PoolTypeOK, ReferenceClient, WaitQuota, LockAllocator, FindClient,
         SkipClient, UnlockAllocator, DereferenceClient

\* Every step of a call is a step of the pool, or none.
LEMMA NextPool == [Next]_vars => [PoolNext]_pool
  BY DEF Next, CallerStep, Invoke, QuotaTimeOut, Acquire, SendRequest,
         RefuseRequest, ReceiveReply, PollTimeOut, Release, PollRequest,
         DispatchApi, SendResponse, Restart, PoolNext, vars

\* Calls use the pool as reference_e3_api_client and dereference_e3_api_client ask.
THEOREM CallsUseThePool == Spec => PoolSpec
  <1>1. Init => PoolInit
    BY DEF Init
  <1>2. QED
    BY <1>1, NextPool, PTL DEF Spec, PoolSpec

----------------------------------------------------------------------------
(* Messages in flight.                                                     *)

LEMMA InFlightFrame ==
  ASSUME UNCHANGED <<requests, replies, service>>, NEW i \in Clients
  PROVE  InFlight(i)' = InFlight(i)
  BY DEF InFlight

Busy == [at : {"dispatch", "send"}, client : Clients, call : Calls, status : Statuses]

LEMMA DispatchedService ==
  ASSUME TypeOK, service.at # "poll"
  PROVE  service \in Busy
  BY DEF TypeOK, Polling, Busy

Serve == PollRequest \/ DispatchApi \/ SendResponse \/ Restart

\* The service moves messages and loses them, but makes none.
LEMMA ServeInFlight ==
  ASSUME TypeOK, Serve, NEW i \in Clients
  PROVE  InFlight(i)' \subseteq InFlight(i)
  <1>1. CASE PollRequest
    <2>1. PICK j \in Clients : \E c \in requests[j] :
            /\ requests' = [requests EXCEPT ![j] = @ \ {c}]
            /\ service' = [at |-> "dispatch", client |-> j, call |-> c,
                           status |-> "empty"]
      BY <1>1 DEF PollRequest
    <2>2. requests'[i] \subseteq requests[i] /\ replies' = replies
      BY <1>1, <2>1 DEF TypeOK, PollRequest
    <2>3. service'.client = i => service'.call \in requests[i]
      BY <2>1
    <2>4. QED
      BY <2>2, <2>3 DEF InFlight
  <1>2. CASE DispatchApi
    <2>1. service'.client = service.client /\ service'.call = service.call
      BY <1>2, DispatchedService DEF DispatchApi, Busy
    <2>2. requests' = requests /\ replies' = replies
      BY <1>2 DEF DispatchApi
    <2>3. QED
      BY <2>1, <2>2 DEF InFlight
  <1>3. CASE SendResponse
    <2>1. requests' = requests /\ service'.client = None
      BY <1>3 DEF SendResponse, Polling
    <2>2. \A m \in replies'[i] :
            m \in replies[i] \/ (service.client = i /\ m.call = service.call)
      BY <1>3 DEF TypeOK, SendResponse
    <2>3. QED
      BY <2>1, <2>2, NoneAssumption DEF InFlight
  <1>4. CASE Restart
    BY <1>4, NoneAssumption DEF TypeOK, Restart, InFlight, Polling
  <1>5. QED
    BY <1>1, <1>2, <1>3, <1>4 DEF Serve

\* The service does not touch the client process.
LEMMA ServeFrame ==
  ASSUME Serve
  PROVE  UNCHANGED <<pool, step, call, outcome, answer, socket>>
  BY DEF Serve, PollRequest, DispatchApi, SendResponse, Restart, caller

LEMMA ServeTypeOK ==
  ASSUME TypeOK, Serve
  PROVE  TypeOK'
  <1>1. PoolTypeOK'
    BY ServeFrame DEF TypeOK, PoolTypeOK, pool
  <1>2. CASE PollRequest
    <2>1. PICK i \in Clients : \E c \in requests[i] :
            /\ requests' = [requests EXCEPT ![i] = @ \ {c}]
            /\ service' = [at |-> "dispatch", client |-> i, call |-> c,
                           status |-> "empty"]
      BY <1>2 DEF PollRequest
    <2>2. service' \in Busy
      BY <2>1 DEF TypeOK, Statuses, Busy
    <2>3. requests' \in [Clients -> SUBSET Calls]
      BY <2>1 DEF TypeOK
    <2>4. QED
      BY <1>1, <1>2, <2>2, <2>3 DEF Busy, TypeOK, PollRequest, caller
  <1>3. CASE DispatchApi
    <2>1. service \in Busy
      BY <1>3, DispatchedService DEF DispatchApi
    <2>2. service' \in Busy
      BY <1>3, <2>1 DEF DispatchApi, Statuses, Busy
    <2>3. effects' \in [Calls -> Nat]
      BY <1>3, <2>1 DEF TypeOK, DispatchApi, Busy
    <2>4. QED
      BY <1>1, <1>3, <2>2, <2>3 DEF Busy, TypeOK, DispatchApi, caller
  <1>4. CASE SendResponse
    <2>1. service \in Busy
      BY <1>4, DispatchedService DEF SendResponse
    <2>2. replies' \in [Clients -> SUBSET Reply]
      BY <1>4, <2>1 DEF TypeOK, SendResponse, Reply, Busy
    <2>3. QED
      BY <1>1, <1>4, <2>2 DEF TypeOK, SendResponse, caller
  <1>5. CASE Restart
    <2>1. requests' \in [Clients -> SUBSET Calls] /\ replies' \in [Clients -> SUBSET Reply]
      BY <1>5 DEF TypeOK, Restart
    <2>2. restarts' \in 0 .. MaxRestarts
      BY <1>5, MaxRestartsAssumption DEF TypeOK, Restart
    <2>3. QED
      BY <1>1, <1>5, <2>1, <2>2 DEF TypeOK, Restart, caller
  <1>6. QED
    BY <1>2, <1>3, <1>4, <1>5 DEF Serve

\* What is said of messages in flight stays true while they move or get lost.
LEMMA ServeKeepsMessages ==
  ASSUME RpcInv, Serve
  PROVE  /\ CallsArePending' /\ StubFollowsPool'
         /\ MessagesAreAwaited' /\ ReadySocketIsQuiet' /\ CallsAreApart'
  <1>1. \A i \in Clients : InFlight(i)' \subseteq InFlight(i)
    BY ServeInFlight DEF RpcInv
  <1>2. UNCHANGED <<pc, lpfound, step, call, outcome, socket>>
    BY ServeFrame DEF pool
  <1>3. CallsArePending' /\ StubFollowsPool'
    BY <1>2 DEF RpcInv, CallsArePending, StubFollowsPool, Active
  <1>4. MessagesAreAwaited'
    BY <1>1, <1>2 DEF RpcInv, MessagesAreAwaited
  <1>5. ReadySocketIsQuiet'
    BY <1>1, <1>2 DEF RpcInv, ReadySocketIsQuiet
  <1>6. CallsAreApart'
    BY <1>1, <1>2 DEF RpcInv, CallsAreApart
  <1>7. QED
    BY <1>3, <1>4, <1>5, <1>6

\* A request that is taken runs its callback once, for the message that follows.
LEMMA ServeEffects ==
  ASSUME RpcInv, Serve
  PROVE  OnePlace' /\ EffectsFollow'
  <1>1. UNCHANGED <<step, call, outcome>>
    BY ServeFrame
  <1> USE DEF RpcInv
  <1>2. CASE PollRequest
    <2>1. PICK j \in Clients : \E c \in requests[j] :
            /\ requests' = [requests EXCEPT ![j] = @ \ {c}]
            /\ service' = [at |-> "dispatch", client |-> j, call |-> c,
                           status |-> "empty"]
      BY <1>2 DEF PollRequest
    <2>2. replies' = replies /\ effects' = effects
      BY <1>2 DEF PollRequest
    <2>3. service'.call \in requests[j] /\ requests'[j] = {}
      <3>1. \A c \in requests[j] : c \in InFlight(j)
        BY DEF InFlight
      <3>2. \A c, d \in requests[j] : c = d
        BY <3>1 DEF ReadySocketIsQuiet
      <3>3. QED
        BY <2>1, <3>2 DEF TypeOK
    <2>4. \A i \in Clients : i # j => requests'[i] = requests[i]
      BY <2>1 DEF TypeOK
    <2>5. OnePlace'
      BY <2>1, <2>2, <2>3, <2>4 DEF OnePlace
    <2>6. EffectsFollow'
      BY <1>1, <2>1, <2>2, <2>3, <2>4 DEF EffectsFollow
    <2>7. QED
      BY <2>5, <2>6
  <1>3. CASE DispatchApi
    <2> DEFINE c == service.call
    <2>1. /\ service \in Busy /\ service'.client = service.client
          /\ service'.call = c /\ service'.at = "send"
      BY <1>3, DispatchedService DEF DispatchApi, Busy
    <2>2. requests' = requests /\ replies' = replies
      BY <1>3 DEF DispatchApi
    <2>3. OnePlace'
      BY <2>1, <2>2 DEF OnePlace
    <2>4. c \in Calls /\ effects[c] = 0 /\ c \in InFlight(service.client)
      BY <1>3, <2>1 DEF DispatchApi, EffectsFollow, Busy, InFlight
    <2>5. \A d \in Calls : d # c => effects'[d] = effects[d]
      BY <1>3 DEF DispatchApi, TypeOK
    <2>6. service'.status = "good" => effects'[c] = 1
      <3>1. CASE effects' = [effects EXCEPT ![c] = @ + 1]
        BY <1>3, <2>4, <3>1 DEF DispatchApi, TypeOK
      <3>2. CASE service' = [service EXCEPT !.at = "send", !.status = "empty"]
        BY <2>1, <3>2 DEF Busy
      <3>3. QED
        BY <1>3, <3>1, <3>2 DEF DispatchApi
    <2>7. \A d \in Calls : outcome[d] = "new" => effects'[d] = 0
      BY <2>1, <2>4, <2>5 DEF EffectsFollow, MessagesAreAwaited, Busy
    <2>8. \A t \in Callers : step[t] = "call" => call[t] # c /\ effects'[call[t]] = 0
      BY <2>1, <2>4, <2>5 DEF EffectsFollow, CallsAreApart, CallsArePending, Active, Busy
    <2>9. \A i \in Clients : \A d \in requests[i] : effects'[d] = 0
      <3> SUFFICES ASSUME NEW i \in Clients, NEW d \in requests[i] PROVE d # c /\ d \in Calls
        BY <2>5 DEF EffectsFollow
      <3>1. d \in InFlight(i) /\ i # service.client
        BY DEF InFlight, OnePlace
      <3>2. QED
        BY <2>1, <2>4, <3>1 DEF CallsAreApart, TypeOK, Busy
    <2>10. \A i \in Clients : \A m \in replies[i] : m.status = "good" => effects'[m.call] = 1
      <3> SUFFICES ASSUME NEW i \in Clients, NEW m \in replies[i]
                   PROVE m.call # c /\ m.call \in Calls
        BY <2>5 DEF EffectsFollow
      <3>1. m.call \in InFlight(i) /\ i # service.client
        BY DEF InFlight, OnePlace
      <3>2. QED
        BY <2>1, <2>4, <3>1 DEF CallsAreApart, TypeOK, Busy, Reply
    <2>11. EffectsFollow'
      BY <1>1, <2>1, <2>2, <2>6, <2>7, <2>8, <2>9, <2>10 DEF EffectsFollow
    <2>12. QED
      BY <2>3, <2>11
  <1>4. CASE SendResponse
    <2> DEFINE i == service.client
               r == [call |-> service.call, status |-> service.status]
    <2>1. i \in Clients /\ replies[i] = {} /\ requests[i] = {}
      BY <1>4, DispatchedService DEF SendResponse, Busy, OnePlace
    <2>2. replies'[i] = {r} /\ \A j \in Clients : j # i => replies'[j] = replies[j]
      BY <1>4, <2>1 DEF SendResponse, TypeOK
    <2>3. service'.client = None /\ service'.at = "poll"
      BY <1>4 DEF SendResponse, Polling
    <2>4. requests' = requests /\ effects' = effects
      BY <1>4 DEF SendResponse
    <2>5. OnePlace'
      BY <2>1, <2>2, <2>3, <2>4, NoneAssumption DEF OnePlace
    <2>6. service.status = "good" => effects[service.call] = 1
      BY <1>4 DEF SendResponse, EffectsFollow
    <2>7. EffectsFollow'
      BY <1>1, <2>2, <2>3, <2>4, <2>6 DEF EffectsFollow
    <2>8. QED
      BY <2>5, <2>7
  <1>5. CASE Restart
    <2>1. \A i \in Clients : /\ requests'[i] \subseteq requests[i]
                              /\ replies'[i] \subseteq replies[i]
      BY <1>5 DEF Restart, TypeOK
    <2>2. service'.client = None /\ service'.at = "poll" /\ effects' = effects
      BY <1>5 DEF Restart, Polling
    <2>3. OnePlace'
      BY <2>1, <2>2, NoneAssumption DEF OnePlace
    <2>4. EffectsFollow'
      BY <1>1, <2>1, <2>2 DEF EffectsFollow
    <2>5. QED
      BY <2>3, <2>4
  <1>6. QED
    BY <1>2, <1>3, <1>4, <1>5 DEF Serve

----------------------------------------------------------------------------
(* Callers.                                                                *)

\* The service and what is in flight are as before.
SameMessages == UNCHANGED <<requests, replies, service, effects, socket, restarts>>

LEMMA SameMessagesInv ==
  ASSUME RpcInv, SameMessages,
         \A c \in Calls : outcome'[c] = "new" => outcome[c] = "new",
         \A t \in Callers : step'[t] = "sent" =>
           step[t] = "sent" /\ call'[t] = call[t] /\ lpfound'[t] = lpfound[t],
         \A t \in Callers : step'[t] = "call" =>
           \/ step[t] = "call" /\ call'[t] = call[t]
           \/ call'[t] \in Calls /\ outcome[call'[t]] = "new"
  PROVE  OnePlace' /\ MessagesAreAwaited' /\ ReadySocketIsQuiet' /\ CallsAreApart'
         /\ EffectsFollow'
  <1> USE DEF RpcInv, SameMessages
  <1>1. \A i \in Clients : InFlight(i)' = InFlight(i)
    BY InFlightFrame
  <1>2. \A i \in Clients : InFlight(i) \subseteq Calls
    BY NoneAssumption DEF InFlight, TypeOK, Reply, Polling
  <1>3. OnePlace'
    BY DEF OnePlace
  <1>4. MessagesAreAwaited'
    BY <1>1, <1>2 DEF MessagesAreAwaited
  <1>5. ReadySocketIsQuiet'
    BY <1>1 DEF ReadySocketIsQuiet
  <1>6. CallsAreApart'
    BY <1>1, <1>2 DEF CallsAreApart, MessagesAreAwaited
  <1>7. EffectsFollow'
    BY DEF EffectsFollow, CallsArePending, Active
  <1>8. QED
    BY <1>3, <1>4, <1>5, <1>6, <1>7

LEMMA InvokeInv ==
  ASSUME RpcInv, NEW t \in Callers, NEW c \in Calls, Invoke(t, c)
  PROVE  RpcInv'
  <1> USE DEF RpcInv, Invoke, server
  <1>1. TypeOK'
    BY DEF TypeOK, PoolTypeOK, pool
  <1>2. CallsArePending'
    BY DEF CallsArePending, Active, TypeOK
  <1>3. StubFollowsPool'
    BY DEF StubFollowsPool, TypeOK, pool
  <1>4. OnePlace' /\ MessagesAreAwaited' /\ ReadySocketIsQuiet' /\ CallsAreApart'
        /\ EffectsFollow'
    BY SameMessagesInv DEF SameMessages, TypeOK, pool
  <1>5. QED
    BY <1>1, <1>2, <1>3, <1>4

LEMMA QuotaTimeOutInv ==
  ASSUME RpcInv, NEW t \in Callers, QuotaTimeOut(t)
  PROVE  RpcInv'
  <1> USE DEF RpcInv, QuotaTimeOut, server
  <1>1. call[t] \in Calls
    BY DEF CallsArePending, Active
  <1>2. TypeOK'
    BY <1>1 DEF TypeOK, PoolTypeOK, pool
  <1>3. CallsArePending'
    BY <1>1 DEF CallsArePending, Active, TypeOK
  <1>4. StubFollowsPool'
    BY DEF StubFollowsPool, TypeOK, pool
  <1>5. OnePlace' /\ MessagesAreAwaited' /\ ReadySocketIsQuiet' /\ CallsAreApart'
        /\ EffectsFollow'
    BY <1>1, SameMessagesInv DEF SameMessages, TypeOK, pool
  <1>6. QED
    BY <1>2, <1>3, <1>4, <1>5

LEMMA AcquireInv ==
  ASSUME RpcInv, PoolTypeOK', NEW t \in Callers, Acquire(t)
  PROVE  RpcInv'
  <1> USE DEF RpcInv, Acquire, caller, server
  <1>1. TypeOK'
    BY DEF TypeOK
  <1>2. CallsArePending'
    BY DEF CallsArePending, Active
  <1>3. \A s \in Callers : s # t => pc'[s] = pc[s] /\ lpfound'[s] = lpfound[s]
    BY PoolStepIsLocal DEF TypeOK
  <1>4. StubFollowsPool'
    BY <1>3 DEF StubFollowsPool
  <1>5. OnePlace' /\ MessagesAreAwaited' /\ ReadySocketIsQuiet' /\ CallsAreApart'
        /\ EffectsFollow'
    BY <1>3, SameMessagesInv DEF SameMessages
  <1>6. QED
    BY <1>1, <1>2, <1>4, <1>5

\* A caller that has its outcome, and has received nothing.
GivesUp(t) == RefuseRequest(t) \/ PollTimeOut(t)

LEMMA GivesUpInv ==
  ASSUME RpcInv, NEW t \in Callers, GivesUp(t)
  PROVE  RpcInv'
  <1> USE DEF RpcInv, GivesUp, RefuseRequest, PollTimeOut, Return, server
  <1>1. call[t] \in Calls
    BY DEF CallsArePending, Active
  <1>2. TypeOK'
    BY <1>1 DEF TypeOK, PoolTypeOK, pool
  <1>3. CallsArePending'
    BY <1>1 DEF CallsArePending, Active, TypeOK
  <1>4. StubFollowsPool'
    BY DEF StubFollowsPool, TypeOK, pool
  <1>5. OnePlace' /\ MessagesAreAwaited' /\ ReadySocketIsQuiet' /\ CallsAreApart'
        /\ EffectsFollow'
    BY <1>1, SameMessagesInv DEF SameMessages, TypeOK, pool
  <1>6. QED
    BY <1>2, <1>3, <1>4, <1>5

LEMMA ReleaseInv ==
  ASSUME RpcInv, PoolTypeOK', NEW t \in Callers, Release(t)
  PROVE  RpcInv'
  <1> USE DEF RpcInv, Release, server
  <1>1. TypeOK'
    BY DEF TypeOK
  <1>2. CallsArePending'
    BY DEF CallsArePending, Active, TypeOK
  <1>3. \A s \in Callers : s # t => pc'[s] = pc[s] /\ lpfound'[s] = lpfound[s]
    BY PoolStepIsLocal DEF TypeOK
  <1>4. StubFollowsPool'
    BY <1>3 DEF StubFollowsPool, TypeOK
  <1>5. OnePlace' /\ MessagesAreAwaited' /\ ReadySocketIsQuiet' /\ CallsAreApart'
        /\ EffectsFollow'
    BY <1>3, SameMessagesInv DEF SameMessages, TypeOK
  <1>6. QED
    BY <1>1, <1>2, <1>4, <1>5

\* The client is locked by the caller, and its socket has nothing in flight.
LEMMA SendRequestInv ==
  ASSUME RpcInv, IInv, NEW t \in Callers, SendRequest(t)
  PROVE  RpcInv'
  <1> DEFINE i == lpfound[t]
             c == call[t]
  <1> USE DEF RpcInv
  <1>1. /\ step[t] = "call" /\ pc[t] = "using" /\ CanSend(i)
        /\ socket' = [socket EXCEPT ![i] = "sent"]
        /\ requests' = [requests EXCEPT ![i] = @ \cup {c}]
        /\ step' = [step EXCEPT ![t] = "sent"]
        /\ UNCHANGED <<pool, call, outcome, answer, server, replies>>
    BY DEF SendRequest
  <1>2. i \in Clients /\ c \in Calls /\ outcome[c] = "pending" /\ effects[c] = 0
    BY <1>1 DEF IInv, ScanSucceeds, TypeOK, PoolTypeOK, CallsArePending, Active,
                EffectsFollow
  <1>3. \A s \in Callers : s # t /\ step[s] = "sent" => lpfound[s] # i
    BY <1>1, <1>2 DEF IInv, ClientExclusion, Owns, StubFollowsPool
  <1>4. InFlight(i) = {} /\ requests[i] = {} /\ replies[i] = {} /\ service.client # i
    <2>1. InFlight(i) = {}
      BY <1>1, <1>2 DEF ReadySocketIsQuiet, CanSend
    <2>2. requests[i] = {} /\ \A m \in replies[i] : FALSE
      BY <2>1 DEF InFlight
    <2>3. service.client # i
      BY <2>1 DEF InFlight
    <2>4. QED
      BY <2>1, <2>2, <2>3
  <1>5. /\ requests'[i] = {c}
        /\ \A j \in Clients : j # i => requests'[j] = requests[j] /\ socket'[j] = socket[j]
    BY <1>1, <1>2, <1>4 DEF TypeOK
  <1>6. replies' = replies /\ service' = service /\ effects' = effects
    BY <1>1 DEF server
  <1>7. \A j \in Clients : InFlight(j)' = IF j = i THEN {c} ELSE InFlight(j)
    BY <1>4, <1>5, <1>6 DEF InFlight
  <1>8. \A j \in Clients : c \notin InFlight(j)
    BY <1>1 DEF CallsAreApart
  <1>9. \A s \in Callers : s # t => step'[s] = step[s]
    BY <1>1 DEF TypeOK
  <1>10. step'[t] = "sent" /\ UNCHANGED <<pc, lpfound, call, outcome, answer>>
    BY <1>1 DEF TypeOK, pool
  <1>11. TypeOK'
    BY <1>1, <1>2 DEF TypeOK, PoolTypeOK, pool, server
  <1>12. CallsArePending'
    BY <1>1, <1>9, <1>10 DEF CallsArePending, Active
  <1>13. StubFollowsPool'
    <2>1. socket'[i] = "sent"
      BY <1>1, <1>2 DEF TypeOK
    <2>2. \A s \in Callers : step'[s] = "sent" => socket'[lpfound[s]] = "sent"
      BY <1>1, <1>9, <2>1 DEF StubFollowsPool, TypeOK
    <2>3. QED
      BY <1>1, <1>9, <1>10, <2>2 DEF StubFollowsPool
  <1>14. OnePlace'
    BY <1>4, <1>5, <1>6 DEF OnePlace
  <1>15. MessagesAreAwaited'
    BY <1>2, <1>3, <1>7, <1>9, <1>10 DEF MessagesAreAwaited
  <1>16. ReadySocketIsQuiet'
    BY <1>1, <1>2, <1>5, <1>7 DEF ReadySocketIsQuiet, TypeOK
  <1>17. CallsAreApart'
    <2>1. \A s \in Callers : step'[s] = "call" => call[s] # c
      BY <1>1, <1>9, <1>10 DEF CallsArePending, Active
    <2>2. QED
      BY <1>7, <1>8, <1>9, <1>10, <2>1 DEF CallsAreApart
  <1>18. EffectsFollow'
    BY <1>2, <1>5, <1>6, <1>9, <1>10 DEF EffectsFollow
  <1>19. QED
    BY <1>11, <1>12, <1>13, <1>14, <1>15, <1>16, <1>17, <1>18

\* The reply of a client that a caller waits for is the answer to its call, and
\* it was the only message of the client.
LEMMA ReplyIsOwn ==
  ASSUME RpcInv, IInv, NEW t \in Callers, step[t] = "sent",
         NEW m \in replies[lpfound[t]]
  PROVE  /\ lpfound[t] \in Clients
         /\ m.call = call[t] /\ call[t] \in Calls
         /\ requests[lpfound[t]] = {} /\ replies[lpfound[t]] = {m}
         /\ service.client # lpfound[t]
  <1> USE DEF RpcInv
  <1>1. lpfound[t] \in Clients /\ call[t] \in Calls
    BY DEF IInv, ScanSucceeds, StubFollowsPool, TypeOK, PoolTypeOK,
           CallsArePending, Active
  <1>2. m.call \in InFlight(lpfound[t])
    BY DEF InFlight
  <1>3. m.call = call[t]
    BY <1>1, <1>2 DEF MessagesAreAwaited
  <1>4. QED
    BY <1>1, <1>3 DEF OnePlace

LEMMA ReceiveReplyInv ==
  ASSUME RpcInv, IInv, NEW t \in Callers, ReceiveReply(t)
  PROVE  RpcInv'
  <1> DEFINE i == lpfound[t]
             c == call[t]
  <1> USE DEF RpcInv
  <1>1. PICK m \in replies[i] :
          /\ replies' = [replies EXCEPT ![i] = @ \ {m}]
          /\ Return(t, IF m.status = "good" THEN "ok" ELSE "failed")
          /\ answer' = [answer EXCEPT ![c] = IF m.status = "good" THEN m.call ELSE @]
    BY DEF ReceiveReply
  <1>2. /\ step[t] = "sent"
        /\ socket' = [socket EXCEPT ![i] = "ready"]
        /\ UNCHANGED <<pool, server, requests>>
    BY DEF ReceiveReply
  <1>3. /\ i \in Clients /\ c \in Calls /\ m.call = c
        /\ requests[i] = {} /\ replies[i] = {m} /\ service.client # i
    BY <1>2, ReplyIsOwn
  <1>4. replies'[i] = {} /\ \A j \in Clients : j # i => replies'[j] = replies[j]
    BY <1>1, <1>3 DEF TypeOK
  <1>5. requests' = requests /\ service' = service /\ effects' = effects /\ call' = call
    BY <1>1, <1>2 DEF server, Return
  <1>6. \A j \in Clients : InFlight(j)' = IF j = i THEN {} ELSE InFlight(j)
    BY <1>3, <1>4, <1>5 DEF InFlight
  <1>7. \A s \in Callers : s # t /\ step[s] = "sent" => lpfound[s] # i
    BY <1>2, <1>3 DEF IInv, ClientExclusion, Owns, StubFollowsPool
  <1>8. step'[t] = "return" /\ \A s \in Callers : s # t => step'[s] = step[s]
    BY <1>1 DEF TypeOK, Return
  <1>9. /\ outcome'[c] \in {"ok", "failed"}
        /\ \A d \in Calls : d # c => outcome'[d] = outcome[d]
    BY <1>1, <1>3 DEF TypeOK, Return
  <1>10. UNCHANGED <<pc, lpfound>>
    BY <1>2 DEF pool
  <1>11. TypeOK'
    <2>1. outcome' \in [Calls -> {"new", "pending", "ok", "failed"}]
      BY <1>1, <1>3 DEF TypeOK, Return
    <2>2. replies' \in [Clients -> SUBSET Reply] /\ answer' \in [Calls -> Calls \cup {None}]
      BY <1>1, <1>3 DEF TypeOK
    <2>3. QED
      BY <1>1, <1>2, <1>3, <1>5, <2>1, <2>2 DEF TypeOK, PoolTypeOK, pool, server, Return
  <1>12. CallsArePending'
    <2>1. \A s \in Callers : s # t /\ Active(s) => call[s] # c
      BY <1>2 DEF CallsArePending, Active
    <2>2. QED
      BY <1>5, <1>8, <1>9, <2>1 DEF CallsArePending, Active
  <1>13. StubFollowsPool'
    <2>1. \A s \in Callers : step'[s] = "sent" => lpfound[s] \in Clients
      BY <1>8, <1>10 DEF IInv, ScanSucceeds, StubFollowsPool, TypeOK, PoolTypeOK
    <2>2. \A s \in Callers : step'[s] = "sent" => socket'[lpfound[s]] = "sent"
      BY <1>2, <1>7, <1>8, <2>1 DEF StubFollowsPool, TypeOK
    <2>3. QED
      BY <1>8, <1>10, <2>2 DEF StubFollowsPool
  <1>14. OnePlace'
    BY <1>3, <1>4, <1>5 DEF OnePlace
  <1>15. \A j \in Clients : \A d \in InFlight(j)' :
           j # i /\ d \in InFlight(j) /\ d \in Calls /\ d # c
    <2>1. c \in InFlight(i)
      BY <1>3 DEF InFlight
    <2>2. \A j \in Clients : InFlight(j) \subseteq Calls
      BY NoneAssumption DEF InFlight, TypeOK, Reply, Polling
    <2>3. QED
      BY <1>3, <1>6, <2>1, <2>2 DEF CallsAreApart
  <1>16. MessagesAreAwaited'
    BY <1>5, <1>8, <1>9, <1>10, <1>15 DEF MessagesAreAwaited
  <1>17. ReadySocketIsQuiet'
    BY <1>2, <1>6 DEF ReadySocketIsQuiet, TypeOK
  <1>18. CallsAreApart'
    BY <1>5, <1>8, <1>15 DEF CallsAreApart
  <1>19. EffectsFollow'
    BY <1>4, <1>5, <1>8, <1>9 DEF EffectsFollow
  <1>20. QED
    BY <1>11, <1>12, <1>13, <1>14, <1>16, <1>17, <1>18, <1>19

----------------------------------------------------------------------------
(* The invariant.                                                          *)

LEMMA InitRpcInv == Init => RpcInv
  <1> SUFFICES ASSUME Init PROVE RpcInv
    OBVIOUS
  <1>1. TypeOK
    <2>1. PoolTypeOK
      BY InitIInv DEF Init, IInv
    <2>2. QED
      BY <2>1, MaxRestartsAssumption DEF Init, TypeOK
  <1>2. \A i \in Clients : InFlight(i) = {}
    BY NoneAssumption DEF Init, InFlight, Polling
  <1>3. CallsArePending /\ StubFollowsPool
    BY DEF Init, PoolInit, CallsArePending, StubFollowsPool, Active
  <1>4. OnePlace
    BY NoneAssumption DEF Init, OnePlace, Polling
  <1>5. MessagesAreAwaited /\ ReadySocketIsQuiet
    BY <1>2 DEF MessagesAreAwaited, ReadySocketIsQuiet
  <1>6. CallsAreApart
    BY <1>2 DEF CallsAreApart
  <1>7. EffectsFollow
    BY DEF Init, EffectsFollow, Polling
  <1>8. QED
    BY <1>1, <1>3, <1>4, <1>5, <1>6, <1>7 DEF RpcInv

LEMMA StutterRpcInv ==
  ASSUME RpcInv, UNCHANGED vars
  PROVE  RpcInv'
  <1> USE DEF RpcInv, vars, pool, caller, server
  <1>1. TypeOK'
    BY DEF TypeOK, PoolTypeOK
  <1>2. CallsArePending' /\ StubFollowsPool'
    BY DEF CallsArePending, StubFollowsPool, Active
  <1>3. OnePlace' /\ MessagesAreAwaited' /\ ReadySocketIsQuiet' /\ CallsAreApart'
        /\ EffectsFollow'
    BY SameMessagesInv DEF SameMessages, TypeOK
  <1>4. QED
    BY <1>1, <1>2, <1>3

LEMMA NextRpcInv == RpcInv /\ IInv /\ IInv' /\ [Next]_vars => RpcInv'
  <1> SUFFICES ASSUME RpcInv, IInv, IInv', [Next]_vars PROVE RpcInv'
    OBVIOUS
  <1>1. PoolTypeOK'
    BY DEF IInv
  <1>2. ASSUME NEW t \in Callers, CallerStep(t) PROVE RpcInv'
    BY <1>1, <1>2, QuotaTimeOutInv, AcquireInv, SendRequestInv, GivesUpInv,
       ReceiveReplyInv, ReleaseInv DEF CallerStep, GivesUp
  <1>3. ASSUME NEW t \in Callers, NEW c \in Calls, Invoke(t, c) PROVE RpcInv'
    BY <1>3, InvokeInv
  <1>4. CASE Serve
    BY <1>4, ServeTypeOK, ServeKeepsMessages, ServeEffects DEF RpcInv
  <1>5. CASE UNCHANGED vars
    BY <1>5, StutterRpcInv
  <1>6. QED
    BY <1>2, <1>3, <1>4, <1>5 DEF Next, Serve

\* The pool's invariant and RpcInv hold together.
THEOREM RpcInvariant == Spec => [](RpcInv /\ IInv)
  <1>1. Spec => []IInv
    BY CallsUseThePool, PoolInvariant, PTL
  <1>2. QED
    BY <1>1, InitRpcInv, NextRpcInv, PTL DEF Spec

\* A client's socket that may send has nothing in flight, so the next call on it
\* cannot take a late answer (issue_e3_api_request, E3_API_CLIENT_TIMEOUT_MS).
THEOREM ReadySocketsAreQuiet == Spec => []ReadySocketIsQuiet
  <1>1. RpcInv => ReadySocketIsQuiet
    BY DEF RpcInv
  <1>2. QED
    BY <1>1, RpcInvariant, PTL

\* The type invariant of the transport.
THEOREM RpcTypes == Spec => []TypeOK
  <1>1. RpcInv => TypeOK
    BY DEF RpcInv
  <1>2. QED
    BY <1>1, RpcInvariant, PTL

----------------------------------------------------------------------------
(* The refinement.                                                         *)

LEMMA InitRemote == Init => Remote!Init
  BY DEF Init, Remote!Init

\* A caller that decides nothing, and every step of the service but one, is a
\* stutter of RemoteCall.
LEMMA QuietStep ==
  ASSUME UNCHANGED <<outcome, effects, answer>>
  PROVE  [Remote!Next]_Remote!vars
  BY DEF Remote!vars

LEMMA FailStep ==
  ASSUME RpcInv, NEW t \in Callers, QuotaTimeOut(t) \/ GivesUp(t)
  PROVE  [Remote!Next]_Remote!vars
  <1>1. Active(t) /\ outcome' = [outcome EXCEPT ![call[t]] = "failed"]
        /\ UNCHANGED <<effects, answer>>
    BY DEF QuotaTimeOut, GivesUp, RefuseRequest, PollTimeOut, Return, Active, server
  <1>2. call[t] \in Calls /\ outcome[call[t]] = "pending"
    BY <1>1 DEF RpcInv, CallsArePending
  <1>3. Remote!Fail(call[t])
    BY <1>1, <1>2 DEF Remote!Fail
  <1>4. QED
    BY <1>2, <1>3 DEF Remote!Next

LEMMA ReplyStep ==
  ASSUME RpcInv, IInv, NEW t \in Callers, ReceiveReply(t)
  PROVE  [Remote!Next]_Remote!vars
  <1> DEFINE c == call[t]
  <1>1. PICK m \in replies[lpfound[t]] :
          /\ Return(t, IF m.status = "good" THEN "ok" ELSE "failed")
          /\ answer' = [answer EXCEPT ![c] = IF m.status = "good" THEN m.call ELSE @]
    BY DEF ReceiveReply
  <1>2. step[t] = "sent" /\ effects' = effects
    BY DEF ReceiveReply, server
  <1>3. lpfound[t] \in Clients /\ c \in Calls /\ m.call = c
    BY <1>2, ReplyIsOwn
  <1>4. outcome[c] = "pending"
    BY <1>2 DEF RpcInv, CallsArePending, Active
  <1>5. CASE m.status = "good"
    <2>1. effects[c] = 1
      BY <1>3, <1>5 DEF RpcInv, EffectsFollow
    <2>2. Remote!Succeed(c)
      BY <1>1, <1>2, <1>3, <1>4, <1>5, <2>1 DEF Remote!Succeed, Return
    <2>3. QED
      BY <1>3, <2>2 DEF Remote!Next
  <1>6. CASE m.status # "good"
    <2>1. answer' = answer
      BY <1>1, <1>6 DEF RpcInv, TypeOK
    <2>2. Remote!Fail(c)
      BY <1>1, <1>2, <1>4, <1>6, <2>1 DEF Remote!Fail, Return
    <2>3. QED
      BY <1>3, <2>2 DEF Remote!Next
  <1>7. QED
    BY <1>5, <1>6

\* The callback of a known API is the one step of the service that shows.
LEMMA ServeStep ==
  ASSUME RpcInv, Serve
  PROVE  [Remote!Next]_Remote!vars
  <1>1. UNCHANGED <<outcome, answer>>
    BY ServeFrame
  <1>2. CASE effects' = effects
    BY <1>1, <1>2, QuietStep
  <1>3. CASE effects' # effects
    <2> DEFINE c == service.call
    <2>1. /\ service.at = "dispatch"
          /\ effects' = [effects EXCEPT ![c] = @ + 1]
      BY <1>3 DEF Serve, PollRequest, DispatchApi, SendResponse, Restart
    <2>2. service \in Busy
      BY <2>1, DispatchedService DEF RpcInv
    <2>3. c \in Calls /\ effects[c] = 0
      BY <2>1, <2>2 DEF RpcInv, EffectsFollow, Busy
    <2>4. service.client \in Clients /\ c \in InFlight(service.client)
      BY <2>2 DEF InFlight, Busy
    <2>5. outcome[c] # "new"
      BY <2>4 DEF RpcInv, MessagesAreAwaited
    <2>6. Remote!Execute(c)
      BY <1>1, <2>1, <2>3, <2>5 DEF Remote!Execute
    <2>7. QED
      BY <2>3, <2>6 DEF Remote!Next
  <1>4. QED
    BY <1>2, <1>3

LEMMA NextRemote == RpcInv /\ IInv /\ [Next]_vars => [Remote!Next]_Remote!vars
  <1> SUFFICES ASSUME RpcInv, IInv, [Next]_vars PROVE [Remote!Next]_Remote!vars
    OBVIOUS
  <1>1. ASSUME NEW t \in Callers, CallerStep(t) PROVE [Remote!Next]_Remote!vars
    <2>1. CASE QuotaTimeOut(t) \/ GivesUp(t)
      BY <2>1, FailStep
    <2>2. CASE ReceiveReply(t)
      BY <2>2, ReplyStep
    <2>3. CASE Acquire(t) \/ SendRequest(t) \/ Release(t)
      BY <2>3, QuietStep DEF Acquire, SendRequest, Release, caller, server
    <2>4. QED
      BY <1>1, <2>1, <2>2, <2>3 DEF CallerStep, GivesUp
  <1>2. ASSUME NEW t \in Callers, NEW c \in Calls, Invoke(t, c)
        PROVE [Remote!Next]_Remote!vars
    <2>1. Remote!Invoke(c)
      BY <1>2 DEF Invoke, Remote!Invoke, server
    <2>2. QED
      BY <2>1 DEF Remote!Next
  <1>3. CASE Serve
    BY <1>3, ServeStep
  <1>4. CASE UNCHANGED vars
    BY <1>4, QuietStep DEF vars, caller, server
  <1>5. QED
    BY <1>1, <1>2, <1>3, <1>4 DEF Next, Serve

\* An exported API is an at-most-once call: a success has run once and returns its
\* own answer, whatever is lost, late or restarted (e3-api-wrapper.c).
THEOREM CallsAreRemoteCalls == Spec => ImplementsRemoteCall
  <1>1. Spec => Remote!Spec
    BY RpcInvariant, InitRemote, NextRemote, PTL DEF Spec, Remote!Spec
  <1>2. QED
    BY <1>1 DEF ImplementsRemoteCall
=============================================================================
