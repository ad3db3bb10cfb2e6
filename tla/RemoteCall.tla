----------------------------- MODULE RemoteCall -----------------------------
(***************************************************************************)
(* What the API transport promises of a call: its callback runs at most    *)
(* once, a call that succeeds has run and returns the answer to itself,    *)
(* and a call that failed may still run later.                             *)
(***************************************************************************)
EXTENDS Naturals

CONSTANTS Calls, None

VARIABLES
  outcome,  \* what the caller knows of each call
  effects,  \* how often the callback has run for each call
  answer    \* the call whose answer each call has returned

vars == <<outcome, effects, answer>>

Init ==
  /\ outcome = [c \in Calls |-> "new"]
  /\ effects = [c \in Calls |-> 0]
  /\ answer = [c \in Calls |-> None]

Invoke(c) ==
  /\ outcome[c] = "new"
  /\ outcome' = [outcome EXCEPT ![c] = "pending"]
  /\ UNCHANGED <<effects, answer>>

Execute(c) ==
  /\ outcome[c] # "new" /\ effects[c] = 0
  /\ effects' = [effects EXCEPT ![c] = 1]
  /\ UNCHANGED <<outcome, answer>>

Succeed(c) ==
  /\ outcome[c] = "pending" /\ effects[c] = 1
  /\ outcome' = [outcome EXCEPT ![c] = "ok"]
  /\ answer' = [answer EXCEPT ![c] = c]
  /\ UNCHANGED effects

Fail(c) ==
  /\ outcome[c] = "pending"
  /\ outcome' = [outcome EXCEPT ![c] = "failed"]
  /\ UNCHANGED <<effects, answer>>

Next == \E c \in Calls : Invoke(c) \/ Execute(c) \/ Succeed(c) \/ Fail(c)

Spec == Init /\ [][Next]_vars
=============================================================================
