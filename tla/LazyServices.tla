---------------------------- MODULE LazyServices ----------------------------
(***************************************************************************)
(* servicemanager, a process of lazy services, init and clients together.  *)
(***************************************************************************)
EXTENDS LazyServiceRegistrar, ServiceClient

CONSTANTS
  Wanted,     \* the names clients ask for
  MaxInbox,   \* bound on the onClients calls about a name that are under way
  MaxCrashes  \* bound on how often a client or the process is killed

ASSUME WantedAssumption == Wanted \subseteq Names

ASSUME BoundsAssumption == MaxInbox \in Nat /\ MaxCrashes \in Nat

VARIABLE
  crashes  \* how often a client or the process was killed

vars ==
  <<mNameToService, mNameToRegistrationCallback, mNameToClientCallback, mBinder,
    out, server, inbox, deaths, requested, mRegisteredServices, mForcePersist, phase,
    remaining, crashes, initRunning, at, wants>>

Init == InitServiceManager /\ InitRegistrar /\ InitClients /\ crashes = 0

ClientStep(c) ==
  \/ \E n \in Wanted : waitForService(c, n)
  \/ StartWaiting(c)
  \/ Wakes(c)
  \/ TimesOut(c)
  \/ Retries(c)
  \/ Returns(c)
  \/ Drops(c)
  \/ Restarts(c)

\* The holder of mMutex makes its next call.
Continues(n) ==
  \/ RegisterCallback(n)
  \/ UnregisterNext(n)
  \/ UnregisterFails(n)
  \/ ReRegisterNext(n)

ProcessStep ==
  \/ \E n \in Names : registerService(n)
  \/ \E n \in Names : Continues(n)
  \/ \E n \in Names : onClients(n)
  \/ \E persist \in BOOLEAN : forcePersist(persist)
  \/ Exit
  \/ InitStarts
  \/ InitIgnores
  \/ InitReaps

ManagerStep ==
  \/ handleClientCallbacks
  \/ \E who \in deaths : binderDied(who)

\* A process is killed.
Killed ==
  /\ crashes < MaxCrashes
  /\ crashes' = crashes + 1
  /\ \/ Crash /\ UNCHANGED clientVars
     \/ \E c \in Clients : Dies(c) /\ UNCHANGED lazyVars

\* The bound is on those who make the process lag behind, clients and the timer.
Bounded == \A n \in Names : Len(inbox'[n]) <= MaxInbox

ByClient == UNCHANGED <<lazyVars, crashes>> /\ Bounded
ByProcess == UNCHANGED <<clientVars, crashes>>
ByManager == UNCHANGED <<lazyVars, clientVars, crashes>> /\ Bounded

Next ==
  \/ (\E c \in Clients : ClientStep(c)) /\ ByClient
  \/ ProcessStep /\ ByProcess
  \/ ManagerStep /\ ByManager
  \/ Killed

Spec == Init /\ [][Next]_vars

\* Every thread that can run does: a client's calls and its one-second retries,
\* the process's threads, init, and servicemanager's timer and death notices.  An
\* onRegistration that was sent arrives, and a thread that waits for mMutex gets
\* it, however often others hold it.  Nothing obliges a client to ask, to drop a
\* service or to die, nor the process to call forcePersist or to be killed.
FairSpec ==
  /\ Spec
  /\ \A c \in Clients :
       /\ WF_vars((StartWaiting(c) \/ TimesOut(c) \/ Retries(c) \/ Returns(c)) /\ ByClient)
       /\ SF_vars(Wakes(c) /\ ByClient)
  /\ \A n \in Names : SF_vars(registerService(n) /\ ByProcess)
  /\ SF_vars((\E n \in Names : onClients(n)) /\ ByProcess)
  /\ WF_vars(((\E n \in Names : Continues(n)) \/ Exit \/ InitReaps \/ InitStarts) /\ ByProcess)
  /\ WF_vars(ManagerStep /\ ByManager)

-----------------------------------------------------------------------------
\* The types of the variables.
TypeOK ==
  /\ mNameToService \in [Names -> Service \union {None}]
  /\ mNameToRegistrationCallback \in [Names -> SUBSET Clients]
  /\ mNameToClientCallback \in [Names -> SUBSET Processes]
  /\ mBinder \in [Clients -> Binders \union {None}]
  /\ out \in [Clients -> Binders \union {None}]
  /\ server \in Processes \union {None}
  /\ inbox \in [Names -> Seq(BOOLEAN)]
  /\ deaths \subseteq Notices
  /\ requested \in BOOLEAN
  /\ mRegisteredServices \in [Names -> Entry \union {None}]
  /\ mForcePersist \in BOOLEAN
  /\ phase \in {"free", "adding", "unregistering", "reregistering"}
  /\ remaining \subseteq Names
  /\ crashes \in 0 .. MaxCrashes
  /\ initRunning \in BOOLEAN
  /\ at \in [Clients -> Places]
  /\ wants \in [Clients -> Names \union {None}]

\* onClients never meets one of its two fatal errors: whatever is under way when
\* processes die and start, names are dropped and registered again and several
\* notifications overlap, the process hears each change of hasClients once.
NeverAborts ==
  \A n \in Names : (Unlocked /\ inbox[n] # <<>>) => ~Aborts(n, Head(inbox[n]))

\* When tryUnregisterLocked has taken every name back and exit is next, no client
\* holds a binder of the process and none can get one any more.
ExitsUnused ==
  (phase = "unregistering" /\ remaining = {}) =>
    \A n \in Names : /\ ~hasKernelReportedClients(<<n, server>>)
                     /\ ~(Registered(n) /\ binder(n) = <<n, server>>)

\* registerClientCallback never refuses the process that just called addService:
\* the late death notice of its predecessor does not take the new entry away.
RegistrationAccepted ==
  phase = "adding" => \A n \in remaining : Registered(n) /\ binder(n) = <<n, server>>

Waits(c) == at[c] \in {"asked", "waiting", "retrying"}

\* waitForService returns, although init may ignore a start request because it
\* has not seen the process die, and though the process may stop in between.
WaitersServed == \A c \in Clients : Waits(c) ~> ~Waits(c)

NoDemand == ~mForcePersist /\ \A c \in Clients : at[c] \in {"idle", "dead"}

\* A process that was told of clients stops once they are gone, unless another
\* one comes.
IdleServiceStops ==
  ((\E n \in Known : mRegisteredServices[n].clients) /\ NoDemand)
    ~> (server = None \/ ~NoDemand)

=============================================================================
