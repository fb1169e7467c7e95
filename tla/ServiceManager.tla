--------------------------- MODULE ServiceManager ---------------------------
(***************************************************************************)
(* servicemanager: the table of services, the clients that wait for one to *)
(* be registered, and the callbacks that tell a lazy service whether it is *)
(* in use (src/cmds/servicemanager/ServiceManager.cpp).  It has one        *)
(* thread: each call is handled to its end before the next is looked at.   *)
(*                                                                         *)
(* A binder is the pair of a name and the process that serves it.  The     *)
(* onClients calls about one name arrive in the order they were made; of   *)
(* calls about two names either may arrive first.  The                     *)
(* caller's permissions, the validity of names and isolated users are left *)
(* out: every caller here is one the access checks let through.            *)
(***************************************************************************)
EXTENDS Naturals, Sequences, FiniteSets

CONSTANTS
  Names,      \* the names the services are registered under
  Processes,  \* identities of the successive processes that serve them
  Clients,    \* the processes that use the services
  None        \* nullptr

VARIABLES
  mNameToService,              \* Names -> the registered Service, or None
  mNameToRegistrationCallback, \* Names -> the clients waiting for the name
  mNameToClientCallback,       \* Names -> the processes told of clients
  mBinder,    \* Clients -> the binder its Waiter received, or None
  out,        \* Clients -> the binder getService gave it, or None
  server,     \* the process that runs, or None
  inbox,      \* Names -> the onClients calls on their way to that process
  deaths,     \* the death notices the driver has still to deliver
  requested   \* whether init has a ctl.interface_start to look at

smVars == <<mNameToService, mNameToRegistrationCallback, mNameToClientCallback>>

Binders == Names \X Processes

Service == [process: Processes, hasClients: BOOLEAN, guaranteeClient: BOOLEAN]

\* nullptr is neither a process nor a name, a binder or an entry of the table.
ASSUME NoneAssumption ==
  None \notin Processes /\ None \notin Names /\ None \notin Binders /\ None \notin Service

Notices ==
  ({"service"} \X Names \X Processes) \union ({"callback"} \X Processes)
    \union ({"waiter"} \X Clients)

InitServiceManager ==
  /\ mNameToService = [n \in Names |-> None]
  /\ mNameToRegistrationCallback = [n \in Names |-> {}]
  /\ mNameToClientCallback = [n \in Names |-> {}]
  /\ deaths = {}
  /\ requested = FALSE

Registered(n) == mNameToService[n] # None

\* The binder registered under the name.
binder(n) == <<n, mNameToService[n].process>>

Uses(c, b) == b \in {mBinder[c], out[c]}

\* Whether the driver's count of strong references to the node exceeds the ones
\* the code knows of: its own, and that of the call being served.
hasKernelReportedClients(b) == \E c \in Clients : Uses(c, b)

-----------------------------------------------------------------------------
(***************************************************************************)
(* What the service manager believes about clients.                        *)
(***************************************************************************)

\* handleServiceClientCallback with callbacks registered, in three parts: whether
\* the service has been told of clients once the guarantee and the driver's count
\* were looked at, the entry it leaves, and the calls it makes on the way.
Told(service, reported) ==
  service.hasClients \/ service.guaranteeClient \/ reported

\* Fault: the guarantee is not temporary.
keepsGuarantee(service, reported, onInterval) ==
  [service EXCEPT !.hasClients = Told(service, reported) /\ (onInterval => reported)]

Handled(service, reported, onInterval) ==
  [service EXCEPT !.hasClients = Told(service, reported) /\ (onInterval => reported),
                  !.guaranteeClient = FALSE]

Notify(before, after) == IF before = after THEN <<>> ELSE <<after>>

Notified(service, reported, onInterval) ==
  Notify(service.hasClients, Told(service, reported))
    \o Notify(Told(service, reported), Handled(service, reported, onInterval).hasClients)

\* handleServiceClientCallback for a name whose entry is service, when callbacks
\* is the set of processes to tell: without callbacks it does nothing.
AfterCallback(n, service, callbacks, onInterval) ==
  IF callbacks = {} THEN service
  ELSE Handled(service, hasKernelReportedClients(<<n, service.process>>), onInterval)

Calls(n, service, callbacks, onInterval) ==
  IF server \notin callbacks THEN <<>>
  ELSE Notified(service, hasKernelReportedClients(<<n, service.process>>), onInterval)

\* "Force onClients to get sent, and then make sure the timerfd won't clear it".
WithGuarantee(service) == [service EXCEPT !.guaranteeClient = TRUE]

-----------------------------------------------------------------------------
(***************************************************************************)
(* The calls of clients.                                                   *)
(***************************************************************************)

\* tryGetBinder: the client gets the binder and the service hears of it at once;
\* a name that is not registered is asked of init.
getService(c, n) ==
  /\ IF Registered(n)
     THEN LET service == WithGuarantee(mNameToService[n])
              callbacks == mNameToClientCallback[n]
          IN /\ mNameToService' = [mNameToService EXCEPT
                   ![n] = WithGuarantee(AfterCallback(n, service, callbacks, FALSE))]
             /\ inbox' = [inbox EXCEPT ![n] = @ \o Calls(n, service, callbacks, FALSE)]
             /\ out' = [out EXCEPT ![c] = binder(n)]
             /\ UNCHANGED requested
     ELSE /\ requested' = TRUE
          /\ out' = [out EXCEPT ![c] = None]
          /\ UNCHANGED <<mNameToService, inbox>>
  /\ UNCHANGED <<mNameToRegistrationCallback, mNameToClientCallback, mBinder,
                 server, deaths>>

\* registerForNotifications: a service that is registered already is announced
\* to the new waiter alone.
registerForNotifications(c, n) ==
  /\ mNameToRegistrationCallback' =
       [mNameToRegistrationCallback EXCEPT ![n] = @ \union {c}]
  /\ mBinder' = IF Registered(n) THEN [mBinder EXCEPT ![c] = binder(n)] ELSE mBinder
  /\ UNCHANGED <<mNameToService, mNameToClientCallback, out, server, inbox,
                 deaths, requested>>

unregisterForNotifications(c, n) ==
  /\ mNameToRegistrationCallback' =
       [mNameToRegistrationCallback EXCEPT ![n] = @ \ {c}]
  /\ UNCHANGED <<mNameToService, mNameToClientCallback, server, inbox, deaths,
                 requested>>

-----------------------------------------------------------------------------
(***************************************************************************)
(* The calls of the process that serves the names.                         *)
(***************************************************************************)

\* addService: a name registered before keeps what its callbacks were told.
addService(p, n) ==
  /\ LET prevClients == IF Registered(n) THEN mNameToService[n].hasClients ELSE FALSE
         service == [process |-> p, hasClients |-> prevClients, guaranteeClient |-> FALSE]
         waiting == mNameToRegistrationCallback[n]
         callbacks == mNameToClientCallback[n]
     IN IF waiting = {}
        THEN /\ mNameToService' = [mNameToService EXCEPT ![n] = service]
             /\ UNCHANGED <<inbox, mBinder>>
        ELSE /\ mNameToService' = [mNameToService EXCEPT ![n] =
                  WithGuarantee(AfterCallback(n, WithGuarantee(service), callbacks, FALSE))]
             /\ inbox' = [inbox EXCEPT ![n] = @ \o Calls(n, WithGuarantee(service), callbacks, FALSE)]
             /\ mBinder' = [c \in Clients |->
                  IF c \in waiting /\ <<"waiter", c>> \notin deaths THEN <<n, p>> ELSE mBinder[c]]
  /\ UNCHANGED <<mNameToRegistrationCallback, mNameToClientCallback, out, server,
                 deaths, requested>>

\* Fault: a new callback is not told what the others were.
toldNothing(service) == <<>>

\* "Make sure all callbacks have been told about a consistent state".
FirstTold(service) == Notify(FALSE, service.hasClients)

\* registerClientCallback, for the process and the binder that are registered:
\* the new callback first hears what the others were told, then all hear news.
registerClientCallback(p, n) ==
  /\ Registered(n) /\ binder(n) = <<n, p>>
  /\ LET service == mNameToService[n]
         callbacks == mNameToClientCallback[n] \union {p}
     IN /\ mNameToClientCallback' = [mNameToClientCallback EXCEPT ![n] = callbacks]
        /\ mNameToService' =
             [mNameToService EXCEPT ![n] = AfterCallback(n, service, callbacks, FALSE)]
        /\ inbox' = [inbox EXCEPT
             ![n] = @ \o FirstTold(service) \o Calls(n, service, callbacks, FALSE)]
  /\ UNCHANGED <<mNameToRegistrationCallback, mBinder, out, server, deaths,
                 requested>>

\* Fault: what the callbacks were told is taken for the state of affairs.
inUseIfTold(n) == mNameToService[n].hasClients

\* handleServiceClientCallback returns whether there are clients, and that there
\* are when nobody is to be told.
InUse(n) ==
  \/ mNameToClientCallback[n] = {}
  \/ AfterCallback(n, mNameToService[n], mNameToClientCallback[n], FALSE).hasClients

\* The condition under which tryUnregisterService removes the entry.
CanUnregister(p, n) ==
  /\ Registered(n) /\ binder(n) = <<n, p>>
  /\ ~mNameToService[n].guaranteeClient
  /\ ~InUse(n)

\* tryUnregisterService that returns ok.
Unregister(p, n) ==
  /\ CanUnregister(p, n)
  /\ mNameToService' = [mNameToService EXCEPT ![n] = None]
  /\ UNCHANGED <<mNameToRegistrationCallback, mNameToClientCallback, mBinder, out,
                 server, inbox, deaths, requested>>

\* tryUnregisterService that returns an error: for a pending client at once, for
\* a known client after the callbacks heard of it.
RefuseUnregister(p, n) ==
  /\ ~CanUnregister(p, n)
  /\ IF /\ Registered(n) /\ binder(n) = <<n, p>>
        /\ ~mNameToService[n].guaranteeClient
     THEN LET service == mNameToService[n]
              callbacks == mNameToClientCallback[n]
          IN /\ mNameToService' = [mNameToService EXCEPT
                   ![n] = WithGuarantee(AfterCallback(n, service, callbacks, FALSE))]
             /\ inbox' = [inbox EXCEPT ![n] = @ \o Calls(n, service, callbacks, FALSE)]
     ELSE UNCHANGED <<mNameToService, inbox>>
  /\ UNCHANGED <<mNameToRegistrationCallback, mNameToClientCallback, mBinder, out,
                 server, deaths, requested>>

-----------------------------------------------------------------------------
(***************************************************************************)
(* The timer and the death notices.                                        *)
(***************************************************************************)

\* The five-second timer: handleClientCallbacks looks at every name.
handleClientCallbacks ==
  LET names == {n \in Names : Registered(n)}
  IN /\ mNameToService' = [n \in Names |->
          IF n \in names
          THEN AfterCallback(n, mNameToService[n], mNameToClientCallback[n], TRUE)
          ELSE mNameToService[n]]
     /\ inbox' = [n \in Names |->
          IF n \in names
          THEN inbox[n] \o Calls(n, mNameToService[n], mNameToClientCallback[n], TRUE)
          ELSE inbox[n]]
     /\ UNCHANGED <<mNameToRegistrationCallback, mNameToClientCallback, mBinder, out, server,
                    deaths, requested>>

\* Fault: the entry is found by its name alone.
removesName(who, n) == who[1] = "service" /\ who[2] = n

Removes(who, n) == who = <<"service", n, mNameToService[n].process>>

\* binderDied: the dead binder leaves every table it is in.
binderDied(who) ==
  /\ who \in deaths
  /\ deaths' = deaths \ {who}
  /\ mNameToService' = [n \in Names |->
       IF Registered(n) /\ Removes(who, n) THEN None ELSE mNameToService[n]]
  /\ mNameToRegistrationCallback' = [n \in Names |->
       {c \in mNameToRegistrationCallback[n] : who # <<"waiter", c>>}]
  /\ mNameToClientCallback' = [n \in Names |->
       {p \in mNameToClientCallback[n] : who # <<"callback", p>>}]
  /\ UNCHANGED <<mBinder, out, server, inbox, requested>>

=============================================================================
