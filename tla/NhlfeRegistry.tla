--------------------------- MODULE NhlfeRegistry ---------------------------
(***************************************************************************)
(* What e3net/common-nhlfe.c promises its callers, with no slots and no    *)
(* counters: a directory of named neighbors with their MAC addresses, and  *)
(* a set of routes <interface, neighbor name>.  A name in a route stays in *)
(* the directory and a route in use stays in the set.                      *)
(***************************************************************************)
EXTENDS Naturals

CONSTANTS Names, Macs, Ifaces, Free

VARIABLES
  mac,     \* the MAC of each registered name, Free for the others
  routes,  \* the routes that exist
  uses     \* how many uses of each route the clients have recorded

vars == <<mac, routes, uses>>

Init ==
  /\ mac = [name \in Names |-> Free]
  /\ routes = {}
  /\ uses = [route \in Ifaces \X Names |-> 0]

\* A name enters the directory, or a name in it gets another MAC.
SetMac(name, m) ==
  /\ mac' = [mac EXCEPT ![name] = m]
  /\ UNCHANGED <<routes, uses>>

Forget(name) ==
  /\ \A iface \in Ifaces : <<iface, name>> \notin routes
  /\ mac' = [mac EXCEPT ![name] = Free]
  /\ UNCHANGED <<routes, uses>>

AddRoute(iface, name) ==
  /\ mac[name] # Free
  /\ <<iface, name>> \notin routes
  /\ routes' = routes \cup {<<iface, name>>}
  /\ UNCHANGED <<mac, uses>>

DropRoute(route) ==
  /\ uses[route] = 0
  /\ routes' = routes \ {route}
  /\ UNCHANGED <<mac, uses>>

Use(route) ==
  /\ uses' = [uses EXCEPT ![route] = @ + 1]
  /\ UNCHANGED <<mac, routes>>

Release(route) ==
  /\ uses[route] > 0
  /\ uses' = [uses EXCEPT ![route] = @ - 1]
  /\ UNCHANGED <<mac, routes>>

Next ==
  \/ \E name \in Names : Forget(name) \/ \E m \in Macs : SetMac(name, m)
  \/ \E iface \in Ifaces, name \in Names : AddRoute(iface, name)
  \/ \E route \in routes : DropRoute(route) \/ Use(route) \/ Release(route)

Spec == Init /\ [][Next]_vars
============================================================================
