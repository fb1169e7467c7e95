------------------------ MODULE LazyServiceRegistrar ------------------------
(***************************************************************************)
(* A process that serves names only while they are in use                  *)
(* (src/libs/binder/LazyServiceRegistrar.cpp), and init, which starts it.  *)
(* The main thread registers each name once; binder threads receive        *)
(* onClients.  Both hold mMutex for a whole operation, but the operation   *)
(* calls servicemanager several times and everyone else runs between two   *)
(* of those calls: phase is where the holder of mMutex is.                 *)
(*                                                                         *)
(* The active-services callback is not set: it is code of the application. *)
(***************************************************************************)
EXTENDS ServiceManager

VARIABLES
  mRegisteredServices, \* Names -> [clients, registered], or None
  mForcePersist,
  phase,       \* what the holder of mMutex is doing, "free" when nobody holds it
  remaining,   \* the names its loop has still to look at
  initRunning  \* whether init believes the process runs

lazyVars ==
  <<mRegisteredServices, mForcePersist, phase, remaining, initRunning>>

Entry == [clients: BOOLEAN, registered: BOOLEAN]

ASSUME EntryAssumption == None \notin Entry

InitRegistrar ==
  /\ mRegisteredServices = [n \in Names |-> None]
  /\ mForcePersist = FALSE
  /\ phase = "free"
  /\ remaining = {}
  /\ initRunning = FALSE
  /\ server = None
  /\ inbox = [n \in Names |-> <<>>]

\* A thread of the running process may take mMutex.
Unlocked == server # None /\ phase = "free"

\* The names in mRegisteredServices.
Known == {n \in Names : mRegisteredServices[n] # None}

\* mNumConnectedServices is zero.
NoneConnected(services) == \A n \in Known : ~services[n].clients

Unlock == phase' = "free" /\ remaining' = {}

\* maybeTryShutdownLocked, up to the first call of tryUnregisterLocked.
maybeTryShutdownLocked(services, persist) ==
  IF ~persist /\ NoneConnected(services)
  THEN phase' = "unregistering" /\ remaining' = Known
  ELSE Unlock

-----------------------------------------------------------------------------
(***************************************************************************)
(* Registration.                                                           *)
(***************************************************************************)

\* registerServiceLocked for a new name: first it is added ...
registerService(n) ==
  /\ Unlocked
  /\ n \notin Known
  /\ addService(server, n)
  /\ phase' = "adding"
  /\ remaining' = {n}
  /\ UNCHANGED <<mRegisteredServices, mForcePersist, initRunning>>

\* ... then the client callback is registered, and only then is it recorded.
RegisterCallback(n) ==
  /\ phase = "adding" /\ n \in remaining
  /\ registerClientCallback(server, n)
  /\ mRegisteredServices' =
       [mRegisteredServices EXCEPT ![n] = [clients |-> FALSE, registered |-> TRUE]]
  /\ Unlock
  /\ UNCHANGED <<mForcePersist, initRunning>>

-----------------------------------------------------------------------------
(***************************************************************************)
(* Shutting down.                                                          *)
(***************************************************************************)

\* The two LOG_ALWAYS_FATALs of onClients: a service it does not know, and a
\* notification that repeats what it was told before.
Aborts(n, clients) ==
  n \notin Known \/ mRegisteredServices[n].clients = clients

onClients(n) ==
  /\ Unlocked
  /\ inbox[n] # <<>>
  /\ LET clients == Head(inbox[n])
     IN /\ ~Aborts(n, clients)
        /\ mRegisteredServices' = [mRegisteredServices EXCEPT ![n].clients = clients]
  /\ inbox' = [inbox EXCEPT ![n] = Tail(@)]
  /\ maybeTryShutdownLocked(mRegisteredServices', mForcePersist)
  /\ UNCHANGED <<smVars, mBinder, out, server, deaths, requested>>
  /\ UNCHANGED <<mForcePersist, initRunning>>

forcePersist(persist) ==
  /\ Unlocked
  /\ mForcePersist' = persist
  /\ maybeTryShutdownLocked(mRegisteredServices, persist)
  /\ UNCHANGED <<smVars, mBinder, out, server, inbox, deaths, requested>>
  /\ UNCHANGED <<mRegisteredServices, initRunning>>

\* tryUnregisterLocked: one turn of its loop that succeeds.
UnregisterNext(n) ==
  /\ phase = "unregistering" /\ n \in remaining
  /\ Unregister(server, n)
  /\ mRegisteredServices' = [mRegisteredServices EXCEPT ![n].registered = FALSE]
  /\ remaining' = remaining \ {n}
  /\ UNCHANGED <<phase, mForcePersist, initRunning>>

\* One that fails ends the loop: reRegisterLocked adds the others again.
UnregisterFails(n) ==
  /\ phase = "unregistering" /\ n \in remaining
  /\ RefuseUnregister(server, n)
  /\ remaining' = {m \in Known : ~mRegisteredServices[m].registered}
  /\ IF remaining' = {} THEN phase' = "free" ELSE phase' = "reregistering"
  /\ UNCHANGED <<mRegisteredServices, mForcePersist, initRunning>>

\* reRegisterLocked: one turn of its loop.
ReRegisterNext(n) ==
  /\ phase = "reregistering" /\ n \in remaining
  /\ addService(server, n)
  /\ mRegisteredServices' = [mRegisteredServices EXCEPT ![n].registered = TRUE]
  /\ remaining' = remaining \ {n}
  /\ phase' = IF remaining' = {} THEN "free" ELSE phase
  /\ UNCHANGED <<mForcePersist, initRunning>>

\* The process is gone.  The driver drops the calls on their way to it and owes
\* servicemanager a notice for each of its binders that is linked to death.
ProcessStops ==
  /\ server' = None
  /\ inbox' = [n \in Names |-> <<>>]
  /\ deaths' = deaths
       \union {<<"service", n, server>> :
                 n \in {m \in Names : Registered(m) /\ mNameToService[m].process = server}}
       \union {<<"callback", p>> :
                 p \in {q \in {server} : \E m \in Names : q \in mNameToClientCallback[m]}}
  /\ mRegisteredServices' = [n \in Names |-> None]
  /\ mForcePersist' = FALSE
  /\ Unlock
  /\ UNCHANGED <<smVars, mBinder, out, requested, initRunning>>

\* exit(EXIT_SUCCESS), once every name is unregistered.
Exit ==
  /\ phase = "unregistering" /\ remaining = {}
  /\ ProcessStops

\* The process is killed.
Crash ==
  /\ server # None
  /\ ProcessStops

-----------------------------------------------------------------------------
(***************************************************************************)
(* init, as waitForService describes it.                                   *)
(***************************************************************************)

\* No table and no client refers to a binder of the process any more.
Unused(p) ==
  /\ \A n \in Names : /\ ~(Registered(n) /\ mNameToService[n].process = p)
                      /\ p \notin mNameToClientCallback[n]
                      /\ <<"service", n, p>> \notin deaths
                      /\ ~hasKernelReportedClients(<<n, p>>)
  /\ <<"callback", p>> \notin deaths

InitStarts ==
  /\ requested /\ ~initRunning
  /\ \E p \in Processes : Unused(p)
  /\ requested' = FALSE
  /\ initRunning' = TRUE
  /\ server' = CHOOSE p \in Processes : Unused(p)
  /\ UNCHANGED <<smVars, mBinder, out, inbox, deaths>>
  /\ UNCHANGED <<mRegisteredServices, mForcePersist, phase, remaining>>

\* "init gets the start signal, but the service already appears started, so it
\* does nothing".
InitIgnores ==
  /\ requested /\ initRunning
  /\ requested' = FALSE
  /\ UNCHANGED <<smVars, mBinder, out, server, inbox, deaths, lazyVars>>

\* "init gets death signal, but doesn't know it needs to restart the service".
InitReaps ==
  /\ initRunning /\ server = None
  /\ initRunning' = FALSE
  /\ UNCHANGED <<smVars, mBinder, out, server, inbox, deaths, requested>>
  /\ UNCHANGED <<mRegisteredServices, mForcePersist, phase, remaining>>

=============================================================================
