---------------------------- MODULE ServiceClient ----------------------------
(***************************************************************************)
(* A client that waits for a service, uses it and drops it                 *)
(* (CppBackendShim::waitForService, src/libs/binder/IServiceManager.cpp).  *)
(***************************************************************************)
EXTENDS ServiceManager

VARIABLES
  at,    \* Clients -> where the client is
  wants  \* Clients -> the name it waits for, or None

clientVars == <<at, wants>>

Places == {"idle", "asked", "waiting", "retrying", "returning", "using", "dead"}

InitClients ==
  /\ at = [c \in Clients |-> "idle"]
  /\ wants = [c \in Clients |-> None]
  /\ mBinder = [c \in Clients |-> None]
  /\ out = [c \in Clients |-> None]

Goes(c, place) == at' = [at EXCEPT ![c] = place]

\* The first getService: no Waiter exists when it finds the service.
waitForService(c, n) ==
  /\ at[c] = "idle"
  /\ getService(c, n)
  /\ wants' = [wants EXCEPT ![c] = IF out'[c] # None THEN None ELSE n]
  /\ Goes(c, IF out'[c] # None THEN "using" ELSE "asked")

StartWaiting(c) ==
  /\ at[c] = "asked"
  /\ registerForNotifications(c, wants[c])
  /\ Goes(c, "waiting")
  /\ UNCHANGED wants

\* onRegistration ended the wait.
Wakes(c) ==
  /\ at[c] = "waiting"
  /\ mBinder[c] # None
  /\ out' = [out EXCEPT ![c] = mBinder[c]]
  /\ Goes(c, "returning")
  /\ UNCHANGED <<smVars, mBinder, server, inbox, deaths, requested, wants>>

\* The second is over.  An onRegistration that was sent may still be on its way.
TimesOut(c) ==
  /\ at[c] = "waiting"
  /\ Goes(c, "retrying")
  /\ UNCHANGED <<smVars, mBinder, out, server, inbox, deaths, requested, wants>>

\* Fault: it only waits on.
waitsOn(c) ==
  /\ at[c] = "retrying"
  /\ Goes(c, "waiting")
  /\ UNCHANGED <<smVars, mBinder, out, server, inbox, deaths, requested, wants>>

\* "we need to request service again to get it to start".
Retries(c) ==
  /\ at[c] = "retrying"
  /\ getService(c, wants[c])
  /\ Goes(c, IF out'[c] # None THEN "returning" ELSE "waiting")
  /\ UNCHANGED wants

\* The Waiter is unregistered and destroyed on the way out.
Returns(c) ==
  /\ at[c] = "returning"
  /\ unregisterForNotifications(c, wants[c])
  /\ mBinder' = [mBinder EXCEPT ![c] = None]
  /\ wants' = [wants EXCEPT ![c] = None]
  /\ Goes(c, "using")
  /\ UNCHANGED out

\* The client has no more use for the service.
Drops(c) ==
  /\ at[c] = "using"
  /\ out' = [out EXCEPT ![c] = None]
  /\ Goes(c, "idle")
  /\ UNCHANGED <<smVars, mBinder, server, inbox, deaths, requested, wants>>

\* The client is killed: the driver drops its references and owes servicemanager
\* the death of its Waiter.
Dies(c) ==
  /\ at[c] \notin {"idle", "dead"}
  /\ out' = [out EXCEPT ![c] = None]
  /\ mBinder' = [mBinder EXCEPT ![c] = None]
  /\ deaths' = IF \E n \in Names : c \in mNameToRegistrationCallback[n]
               THEN deaths \union {<<"waiter", c>>} ELSE deaths
  /\ wants' = [wants EXCEPT ![c] = None]
  /\ Goes(c, "dead")
  /\ UNCHANGED <<smVars, server, inbox, requested>>

\* It runs again; its new Waiters are not the ones that died.
Restarts(c) ==
  /\ at[c] = "dead"
  /\ \A n \in Names : c \notin mNameToRegistrationCallback[n]
  /\ Goes(c, "idle")
  /\ UNCHANGED <<smVars, mBinder, out, server, inbox, deaths, requested, wants>>

=============================================================================
