------------------------------- MODULE ApiRpc -------------------------------
(***************************************************************************)
(* An API call of the client process, from the generated stub of           *)
(* e3-api-export.c through a pooled client (ApiClientPool), its ZMQ_REQ    *)
(* socket, the ZMQ_REP socket of the API node and the callback, back to    *)
(* the caller.  A message is the call it belongs to; a reply also carries  *)
(* its status.  The datapath process may restart between any two steps.    *)
(***************************************************************************)
EXTENDS ApiClientPool

CONSTANTS
  Calls,        \* calls of exported APIs
  KnownCalls,   \* those whose declaration the service has with equal arguments
  MaxRestarts   \* bound on the restarts of the datapath process

ASSUME CallsAssumption == None \notin Calls /\ KnownCalls \subseteq Calls
ASSUME MaxRestartsAssumption == MaxRestarts \in Nat

VARIABLES
  step,      \* where each caller is in its stub
  call,      \* the call each caller makes
  outcome,   \* what is known of each call, as in RemoteCall
  effects,   \* how often the callback has run for each call
  answer,    \* the call whose answer each call has returned
  socket,    \* state of each client's ZMQ_REQ socket
  requests,  \* requests sent by each client that the service has not received
  replies,   \* replies each client has not received
  service,   \* the API node: what it does and for which client and call
  restarts   \* number of restarts so far

caller == <<step, call, outcome, answer>>
server == <<effects, service, restarts>>
vars == <<pool, caller, server, socket, requests, replies>>

Statuses == {"good", "empty"}
Reply == [call : Calls, status : Statuses]
Polling == [at |-> "poll", client |-> None, call |-> None, status |-> "empty"]

TypeOK ==
  /\ PoolTypeOK
  /\ step \in [Callers -> {"none", "call", "sent", "return"}]
  /\ call \in [Callers -> Calls \cup {None}]
  /\ outcome \in [Calls -> {"new", "pending", "ok", "failed"}]
  /\ effects \in [Calls -> Nat]
  /\ answer \in [Calls -> Calls \cup {None}]
  /\ socket \in [Clients -> {"ready", "sent"}]
  /\ requests \in [Clients -> SUBSET Calls]
  /\ replies \in [Clients -> SUBSET Reply]
  /\ service \in {Polling} \cup [at : {"dispatch", "send"}, client : Clients,
                                 call : Calls, status : Statuses]
  /\ restarts \in 0 .. MaxRestarts

Init ==
  /\ PoolInit
  /\ step = [t \in Callers |-> "none"]
  /\ call = [t \in Callers |-> None]
  /\ outcome = [c \in Calls |-> "new"]
  /\ effects = [c \in Calls |-> 0]
  /\ answer = [c \in Calls |-> None]
  /\ socket = [i \in Clients |-> "ready"]
  /\ requests = [i \in Clients |-> {}]
  /\ replies = [i \in Clients |-> {}]
  /\ service = Polling
  /\ restarts = 0

----------------------------------------------------------------------------
(* The client process.                                                     *)

\* A thread enters the stub of an exported API.
Invoke(t, c) ==
  /\ step[t] = "none" /\ outcome[c] = "new"
  /\ step' = [step EXCEPT ![t] = "call"]
  /\ call' = [call EXCEPT ![t] = c]
  /\ outcome' = [outcome EXCEPT ![c] = "pending"]
  /\ UNCHANGED <<pool, answer, server, socket, requests, replies>>

\* sem_timedwait gives up: reference_e3_api_client returns NULL and the stub -1.
QuotaTimeOut(t) ==
  /\ step[t] = "call" /\ pc[t] = "idle"
  /\ step' = [step EXCEPT ![t] = "none"]
  /\ call' = [call EXCEPT ![t] = None]
  /\ outcome' = [outcome EXCEPT ![call[t]] = "failed"]
  /\ UNCHANGED <<pool, answer, server, socket, requests, replies>>

Acquire(t) ==
  /\ step[t] = "call" /\ ReferenceClient(t)
  /\ UNCHANGED <<caller, server, socket, requests, replies>>

Return(t, result) ==
  /\ step' = [step EXCEPT ![t] = "return"]
  /\ outcome' = [outcome EXCEPT ![call[t]] = result]
  /\ UNCHANGED call

\* Mutant: a socket that lets a new request overtake an unanswered one.
AlwaysCanSend(i) == socket[i] \in {"ready", "sent"}

\* zmq_send on a ZMQ_REQ socket that has no request outstanding.
CanSend(i) == socket[i] = "ready"

\* encode_e3_api_request and zmq_send of issue_e3_api_request.
SendRequest(t) ==
  LET i == lpfound[t]
  IN  /\ step[t] = "call" /\ pc[t] = "using"
      /\ CanSend(i)
      /\ socket' = [socket EXCEPT ![i] = "sent"]
      /\ requests' = [requests EXCEPT ![i] = @ \cup {call[t]}]
      /\ step' = [step EXCEPT ![t] = "sent"]
      /\ UNCHANGED <<pool, call, outcome, answer, server, replies>>

\* zmq_send fails with EFSM.
RefuseRequest(t) ==
  /\ step[t] = "call" /\ pc[t] = "using"
  /\ ~CanSend(lpfound[t])
  /\ Return(t, "failed")
  /\ UNCHANGED <<pool, answer, server, socket, requests, replies>>

\* zmq_recv and client_e3_api_tlv_callback_func; an empty reply fails recv_length>0.
ReceiveReply(t) ==
  LET i == lpfound[t]
  IN  /\ step[t] = "sent"
      /\ \E m \in replies[i] :
           /\ replies' = [replies EXCEPT ![i] = @ \ {m}]
           /\ Return(t, IF m.status = "good" THEN "ok" ELSE "failed")
           /\ answer' = [answer EXCEPT ![call[t]] =
                           IF m.status = "good" THEN m.call ELSE @]
      /\ socket' = [socket EXCEPT ![i] = "ready"]
      /\ UNCHANGED <<pool, server, requests>>

\* Mutant: zmq_poll without a timeout.
PollForever(t) == FALSE

\* zmq_poll returns after E3_API_CLIENT_TIMEOUT_MS without ZMQ_POLLIN.
PollTimeOut(t) ==
  /\ step[t] = "sent" /\ replies[lpfound[t]] = {}
  /\ Return(t, "failed")
  /\ UNCHANGED <<pool, answer, server, socket, requests, replies>>

\* dereference_e3_api_client, after which the stub returns.
Release(t) ==
  /\ step[t] = "return" /\ DereferenceClient(t)
  /\ step' = [step EXCEPT ![t] = IF pc'[t] = "idle" THEN "none" ELSE @]
  /\ call' = [call EXCEPT ![t] = IF pc'[t] = "idle" THEN None ELSE @]
  /\ UNCHANGED <<outcome, answer, server, socket, requests, replies>>

----------------------------------------------------------------------------
(* api_node_process_fun of the datapath process.                           *)

\* e3_api_service_try_to_poll_request; ZMQ_REP takes a request of any client.
PollRequest ==
  /\ service.at = "poll"
  /\ \E i \in Clients : \E c \in requests[i] :
       /\ requests' = [requests EXCEPT ![i] = @ \ {c}]
       /\ service' = [at |-> "dispatch", client |-> i, call |-> c, status |-> "empty"]
  /\ UNCHANGED <<pool, caller, effects, socket, replies, restarts>>

\* Mutant: the callback runs again while the response is outstanding.
DispatchAgain ==
  LET c == service.call
  IN  /\ service.at = "dispatch"
      /\ \/ c \in KnownCalls /\ effects[c] = 0 /\ UNCHANGED service
            /\ effects' = [effects EXCEPT ![c] = 1]
         \/ c \in KnownCalls /\ effects' = [effects EXCEPT ![c] = @ + 1]
            /\ service' = [service EXCEPT !.at = "send", !.status = "good"]
         \/ c \notin KnownCalls /\ UNCHANGED effects
            /\ service' = [service EXCEPT !.at = "send"]
      /\ UNCHANGED <<pool, caller, socket, requests, replies, restarts>>

\* e3_api_service_dispatch_apis: the walk over the TLVs ends in
\* do_api_callback_func.  The call may not be known or its output may not fit in
\* send_mbuf, and then the callback does not run; when it has run, the rest of
\* the response may not fit.  send_length is zero after each of these.
DispatchApi ==
  LET c == service.call
  IN  /\ service.at = "dispatch"
      /\ \/ /\ c \in KnownCalls
            /\ effects' = [effects EXCEPT ![c] = @ + 1]
            /\ \E status \in {"good", "empty"} :
                 service' = [service EXCEPT !.at = "send", !.status = status]
         \/ /\ c \notin KnownCalls
            /\ service' = [service EXCEPT !.at = "send", !.status = "empty"]
            /\ UNCHANGED effects
      /\ UNCHANGED <<pool, caller, socket, requests, replies, restarts>>

\* e3_api_service_send_reponse.
SendResponse ==
  /\ service.at = "send"
  /\ replies' = [replies EXCEPT ![service.client] =
                   @ \cup {[call |-> service.call, status |-> service.status]}]
  /\ service' = Polling
  /\ UNCHANGED <<pool, caller, effects, socket, requests, restarts>>

\* The process restarts: what it was doing is lost, and so are the requests and
\* replies of any clients that it held.  The clients' sockets reconnect.
Restart ==
  /\ restarts < MaxRestarts
  /\ restarts' = restarts + 1
  /\ service' = Polling
  /\ \E unread, unsent \in SUBSET Clients :
       /\ requests' = [i \in Clients |-> IF i \in unread THEN {} ELSE requests[i]]
       /\ replies' = [i \in Clients |-> IF i \in unsent THEN {} ELSE replies[i]]
  /\ UNCHANGED <<pool, caller, effects, socket>>

CallerStep(t) ==
  \/ QuotaTimeOut(t) \/ Acquire(t) \/ SendRequest(t) \/ RefuseRequest(t)
  \/ ReceiveReply(t) \/ PollTimeOut(t) \/ Release(t)

Next ==
  \/ \E t \in Callers : CallerStep(t) \/ \E c \in Calls : Invoke(t, c)
  \/ PollRequest \/ DispatchApi \/ SendResponse \/ Restart

Spec == Init /\ [][Next]_vars

\* Threads of the client process run; the service may be down for ever.
FairSpec == Spec /\ \A t \in Callers : WF_vars(CallerStep(t))

----------------------------------------------------------------------------
(* Properties.                                                             *)

\* Messages of a client that are anywhere between its socket and the service.
InFlight(i) ==
  requests[i] \cup {m.call : m \in replies[i]}
    \cup (IF service.client = i THEN {service.call} ELSE {})

\* A client that may send has nothing in flight, so an answer that comes late is
\* never there for the next call of that client to take.
ReadySocketIsQuiet ==
  \A i \in Clients :
    /\ \A c, d \in InFlight(i) : c = d
    /\ socket[i] = "ready" => InFlight(i) = {}

\* A call runs at most once, and returns ok only with its own answer after it ran,
\* whatever is lost and whenever the caller gives up.
Remote == INSTANCE RemoteCall
ImplementsRemoteCall == Remote!Spec

\* Every call returns, even if the datapath process never answers.
EveryCallReturns ==
  \A t \in Callers : (step[t] # "none") ~> (step[t] = "none")

\* A client that nobody uses can be used by the next call: a timeout is handled
\* (e3-api-wrapper.h:53).
PooledClientIsReady ==
  \A i \in Clients : client_guard[i] = None => socket[i] = "ready"
=============================================================================
