------------------------- MODULE LazyServicesProofs -------------------------
(***************************************************************************)
(* Why onClients never aborts and a process exits only when it is unused,  *)
(* for any number of names, processes and clients.                         *)
(***************************************************************************)
EXTENDS LazyServicesFacts

-----------------------------------------------------------------------------
(***************************************************************************)
(* The process.                                                            *)
(***************************************************************************)

\* What addService does for the running process: the entry becomes its own, and
\* a process that had taken the name back hears of the clients that wait for it.
LEMMA AddServiceEffect ==
  ASSUME Inv, server # None, NEW m \in Names, addService(server, m),
         m \in Known => /\ ~Registered(m)
                        /\ mRegisteredServices'[m] # None
                        /\ mRegisteredServices'[m].clients = mRegisteredServices[m].clients
  PROVE  /\ mNameToService' \in [Names -> Service \union {None}]
         /\ mNameToService'[m] \in Service /\ mNameToService'[m].process = server
         /\ inbox' \in [Names -> Seq(BOOLEAN)]
         /\ mBinder' \in [Clients -> Binders \union {None}]
         /\ \A n \in Names \ {m} :
              mNameToService'[n] = mNameToService[n] /\ inbox'[n] = inbox[n]
         /\ m \in Known => Told1(m)'
         /\ m \notin Known => inbox'[m] = inbox[m]
         /\ \A n \in Names \ {m} : hasKernelReportedClients(<<n, server>>)'
                                     => hasKernelReportedClients(<<n, server>>)
         /\ UNCHANGED <<mNameToRegistrationCallback, mNameToClientCallback, out, server,
                        deaths, requested>>
<1> USE DEF Inv
<1> DEFINE prevClients == IF Registered(m) THEN mNameToService[m].hasClients ELSE FALSE
           service == [process |-> server, hasClients |-> prevClients, guaranteeClient |-> FALSE]
           waiting == mNameToRegistrationCallback[m]
           callbacks == mNameToClientCallback[m]
           after == AfterCallback(m, WithGuarantee(service), callbacks, FALSE)
<1>1. UNCHANGED <<mNameToRegistrationCallback, mNameToClientCallback, out, server,
                  deaths, requested>>
  BY DEF addService
<1>2. /\ waiting = {} => /\ mNameToService' = [mNameToService EXCEPT ![m] = service]
                         /\ UNCHANGED <<inbox, mBinder>>
      /\ waiting # {} =>
           /\ mNameToService' = [mNameToService EXCEPT ![m] = WithGuarantee(after)]
           /\ inbox' = [inbox EXCEPT ![m] = @ \o Calls(m, WithGuarantee(service), callbacks, FALSE)]
           /\ mBinder' = [c \in Clients |->
                IF c \in waiting /\ <<"waiter", c>> \notin deaths THEN <<m, server>> ELSE mBinder[c]]
  BY Zenon DEF addService
<1>3. prevClients \in BOOLEAN /\ server \in Processes
  BY Zenon DEF TypeOK, Registered, Service
<1> HIDE DEF prevClients
<1>4. service \in Service /\ service.process = server /\ service.hasClients = prevClients
  BY <1>3 DEF Service
<1>5. hasClients(m) <=> prevClients
  BY DEF hasClients, prevClients
<1> HIDE DEF service
<1> DEFINE guaranteed == WithGuarantee(service)
<1>6. /\ guaranteed \in Service /\ guaranteed.process = server
      /\ guaranteed.hasClients = prevClients
  BY <1>4, Zenon DEF Service, WithGuarantee
<1> HIDE DEF guaranteed
<1>7. after \in Service /\ after.process = server
  BY <1>6, AfterCallbackType, Zenon DEF guaranteed
<1> DEFINE left == WithGuarantee(after)
<1> HIDE DEF after
<1>8. left \in Service /\ left.process = server /\ left.hasClients = after.hasClients
  BY <1>7, Zenon DEF Service, WithGuarantee
<1> HIDE DEF left
<1>9. CASE waiting = {}
  <2>1. mNameToService' = [mNameToService EXCEPT ![m] = service] /\ UNCHANGED <<inbox, mBinder>>
    BY <1>2, <1>9
  <2>2. mNameToService'[m] = service /\ \A n \in Names \ {m} : mNameToService'[n] = mNameToService[n]
    BY <2>1 DEF TypeOK
  <2>3. mNameToService' \in [Names -> Service \union {None}]
    BY <1>4, <2>1 DEF TypeOK
  <2>4. ASSUME m \in Known PROVE Told1(m)'
    <3>1. Told1(m)
      BY <2>4, Zenon DEF NameInv
    <3>2. hasClients(m)' = hasClients(m)
      <4>1. ~hasClients(m) /\ ~prevClients
        BY <1>5, <2>4 DEF hasClients
      <4>2. ~hasClients(m)'
        BY <1>4, <2>2, <4>1 DEF hasClients
      <4>3. hasClients(m) \in BOOLEAN /\ hasClients(m)' \in BOOLEAN
        BY <1>3, <1>4, <2>2 DEF hasClients, TypeOK, Registered, Service
      <4> QED
        BY <4>1, <4>2, <4>3
    <3> QED
      BY <2>1, <2>4, <3>1, <3>2 DEF Told1
  <2>5. \A n \in Names : hasKernelReportedClients(<<n, server>>)'
                           => hasKernelReportedClients(<<n, server>>)
    BY <1>1, <2>1 DEF hasKernelReportedClients, Uses
  <2> QED
    BY <1>1, <1>4, <2>1, <2>2, <2>3, <2>4, <2>5 DEF TypeOK
<1>10. CASE waiting # {}
  <2>1. /\ mNameToService' = [mNameToService EXCEPT ![m] = left]
        /\ inbox' = [inbox EXCEPT ![m] = @ \o Calls(m, guaranteed, callbacks, FALSE)]
        /\ mBinder' = [c \in Clients |->
             IF c \in waiting /\ <<"waiter", c>> \notin deaths THEN <<m, server>> ELSE mBinder[c]]
    BY <1>2, <1>10, Zenon DEF left, guaranteed
  <2>2. /\ mNameToService'[m] = left
        /\ inbox'[m] = inbox[m] \o Calls(m, guaranteed, callbacks, FALSE)
        /\ \A n \in Names \ {m} : mNameToService'[n] = mNameToService[n] /\ inbox'[n] = inbox[n]
    BY <2>1, Zenon DEF TypeOK
  <2>3. mNameToService' \in [Names -> Service \union {None}]
    BY <1>8, <2>1 DEF TypeOK
  <2>4. /\ inbox'[m] \in Seq(BOOLEAN)
        /\ m \in Known => Told1(m)'
        /\ m \notin Known => inbox'[m] = inbox[m]
    <3>1. m \in Known => (hasClients(m) <=> guaranteed.hasClients)
      BY <1>5, <1>6
    <3>2. /\ mNameToService'[m] \in Service
          /\ mNameToService'[m].hasClients = AfterCallback(m, guaranteed, callbacks, FALSE).hasClients
      BY <1>8, <2>2, Zenon DEF after, guaranteed
    <3>3. CASE m \in Known
      BY <1>6, <2>2, <3>1, <3>2, <3>3, Heard, Zenon
    <3>4. CASE m \notin Known
      <4>1. server \notin callbacks
        BY <3>4, Zenon DEF NameInv
      <4>2. Calls(m, guaranteed, callbacks, FALSE) = <<>>
        BY <1>6, <4>1, CallsType, Zenon
      <4> QED
        BY <2>2, <3>4, <4>2, ConcatEmptySeq, Zenon DEF TypeOK
    <3> QED
      BY <3>3, <3>4
  <2>5. inbox' \in [Names -> Seq(BOOLEAN)]
    BY <2>1, <2>4, Zenon DEF TypeOK
  <2>6. mBinder' \in [Clients -> Binders \union {None}]
    <3>1. <<m, server>> \in Binders
      BY <1>3 DEF Binders
    <3> QED
      BY <2>1, <3>1 DEF TypeOK
  <2>7. ASSUME NEW n \in Names \ {m}, hasKernelReportedClients(<<n, server>>)'
        PROVE  hasKernelReportedClients(<<n, server>>)
    <3>1. PICK c \in Clients : <<n, server>> \in {mBinder'[c], out'[c]}
      BY <1>1, <2>7 DEF hasKernelReportedClients, Uses
    <3>2. mBinder'[c] \in {<<m, server>>, mBinder[c]}
      BY <2>1
    <3>3. <<n, server>> # <<m, server>>
      BY <2>7
    <3> QED
      BY <1>1, <3>1, <3>2, <3>3 DEF hasKernelReportedClients, Uses
  <2> QED
    BY <1>1, <1>8, <2>2, <2>3, <2>4, <2>5, <2>6, <2>7, Zenon
<1> QED
  BY <1>9, <1>10

\* registerServiceLocked's first call.
LEMMA RegisterPreserves ==
  ASSUME Inv, NEW m \in Names, registerService(m), UNCHANGED <<clientVars, crashes>>
  PROVE  Inv'
<1> USE DEF Inv
<1>1. /\ server # None /\ phase = "free" /\ m \notin Known /\ addService(server, m)
      /\ phase' = "adding" /\ remaining' = {m}
      /\ UNCHANGED <<mRegisteredServices, mForcePersist, initRunning, at, wants, crashes>>
  BY DEF registerService, Unlocked, clientVars
<1>2. /\ mNameToService' \in [Names -> Service \union {None}]
      /\ mNameToService'[m] \in Service /\ mNameToService'[m].process = server
      /\ inbox' \in [Names -> Seq(BOOLEAN)]
      /\ mBinder' \in [Clients -> Binders \union {None}]
      /\ \A n \in Names \ {m} :
           mNameToService'[n] = mNameToService[n] /\ inbox'[n] = inbox[n]
      /\ inbox'[m] = inbox[m]
      /\ \A n \in Names \ {m} : hasKernelReportedClients(<<n, server>>)'
                                  => hasKernelReportedClients(<<n, server>>)
      /\ UNCHANGED <<mNameToRegistrationCallback, mNameToClientCallback, out, server,
                     deaths, requested>>
  BY <1>1, AddServiceEffect
<1>3. TypeOK'
  BY <1>1, <1>2 DEF TypeOK
<1>4. LockInv' /\ ClientInv'
  BY <1>1, <1>2 DEF LockInv, ClientInv
<1>5. Known' = Known
  BY <1>1 DEF Known
<1>6. NameInv(m)'
  <2>1. Mine(m)'
    BY <1>2, NoneAssumption DEF Mine, Registered
  <2>2. Agrees(m)'
    BY <1>1, <1>5, <2>1 DEF Agrees
  <2>3. NameInv(m)
    OBVIOUS
  <2> QED
    BY <1>1, <1>2, <1>5, <2>1, <2>2, <2>3 DEF NameInv
<1>7. ASSUME NEW n \in Names \ {m} PROVE NameInv(n)'
  <2>1. NameInv(n)
    OBVIOUS
  <2>2. /\ Mine(n)' <=> Mine(n)
        /\ Registered(n)' <=> Registered(n)
        /\ Told1(n)' <=> Told1(n)
    BY <1>1, <1>2, NameUntouched
  <2>3. Agrees(n)'
    BY <1>1, <1>5, <2>1, <2>2 DEF Agrees, NameInv
  <2> QED
    BY <1>1, <1>2, <1>5, <2>1, <2>2, <2>3 DEF NameInv
<1> QED
  BY <1>3, <1>4, <1>6, <1>7

\* reRegisterLocked.
LEMMA ReRegisterPreserves ==
  ASSUME Inv, NEW m \in Names, ReRegisterNext(m), UNCHANGED <<clientVars, crashes>>
  PROVE  Inv'
<1> USE DEF Inv
<1>1. /\ phase = "reregistering" /\ m \in remaining /\ addService(server, m)
      /\ mRegisteredServices' = [mRegisteredServices EXCEPT ![m].registered = TRUE]
      /\ remaining' = remaining \ {m}
      /\ phase' = IF remaining' = {} THEN "free" ELSE phase
      /\ UNCHANGED <<mForcePersist, initRunning, at, wants, crashes>>
  BY DEF ReRegisterNext, clientVars
<1>2. server # None
  BY <1>1 DEF LockInv
<1>3. Agrees(m) /\ m \in Known
  BY <1>1, <1>2, Zenon DEF NameInv, Agrees
<1>4. ~Registered(m)
  BY <1>1, <1>3 DEF Agrees
<1>5. mRegisteredServices[m] \in Entry
  BY <1>3 DEF TypeOK, Known
<1>6. /\ mRegisteredServices'[m] \in Entry /\ mRegisteredServices'[m].registered = TRUE
      /\ mRegisteredServices'[m].clients = mRegisteredServices[m].clients
      /\ mRegisteredServices' \in [Names -> Entry \union {None}]
      /\ \A n \in Names \ {m} : mRegisteredServices'[n] = mRegisteredServices[n]
  BY <1>1, <1>5, Zenon DEF TypeOK, Entry
<1>7. Known' = Known
  BY <1>3, <1>6, EntryAssumption DEF Known
<1>8. /\ mNameToService' \in [Names -> Service \union {None}]
      /\ mNameToService'[m] \in Service /\ mNameToService'[m].process = server
      /\ inbox' \in [Names -> Seq(BOOLEAN)]
      /\ mBinder' \in [Clients -> Binders \union {None}]
      /\ \A n \in Names \ {m} :
           mNameToService'[n] = mNameToService[n] /\ inbox'[n] = inbox[n]
      /\ Told1(m)'
      /\ \A n \in Names \ {m} : hasKernelReportedClients(<<n, server>>)'
                                  => hasKernelReportedClients(<<n, server>>)
      /\ UNCHANGED <<mNameToRegistrationCallback, mNameToClientCallback, out, server,
                     deaths, requested>>
  BY <1>1, <1>2, <1>3, <1>4, <1>6, EntryAssumption, AddServiceEffect, Zenon
<1>9. TypeOK'
  BY <1>1, <1>6, <1>8 DEF TypeOK
<1>10. LockInv' /\ ClientInv'
  BY <1>1, <1>2, <1>8 DEF LockInv, ClientInv
<1>11. NameInv(m)'
  <2>1. Mine(m)'
    BY <1>8, NoneAssumption DEF Mine, Registered
  <2>2. Agrees(m)'
    BY <1>1, <1>3, <1>6, <1>7, <2>1 DEF Agrees
  <2>3. NameInv(m)
    OBVIOUS
  <2> QED
    BY <1>2, <1>3, <1>7, <1>8, <2>1, <2>2, <2>3 DEF NameInv
<1>12. ASSUME NEW n \in Names \ {m} PROVE NameInv(n)'
  <2>1. NameInv(n)
    OBVIOUS
  <2>2. /\ Mine(n)' <=> Mine(n)
        /\ Registered(n)' <=> Registered(n)
        /\ Told1(n)' <=> Told1(n)
    BY <1>6, <1>8, NameUntouched
  <2>3. Agrees(n)'
    BY <1>1, <1>2, <1>6, <1>7, <2>1, <2>2 DEF Agrees, NameInv
  <2> QED
    BY <1>2, <1>7, <1>8, <2>1, <2>2, <2>3 DEF NameInv
<1> QED
  BY <1>9, <1>10, <1>11, <1>12

\* registerServiceLocked's second call: the process hears what was told before it
\* came, from the state in which it records the name.
LEMMA RegisterCallbackPreserves ==
  ASSUME Inv, NEW m \in Names, RegisterCallback(m), UNCHANGED <<clientVars, crashes>>
  PROVE  Inv'
<1> USE DEF Inv
<1> DEFINE service == mNameToService[m]
           callbacks == mNameToClientCallback[m] \union {server}
           after == AfterCallback(m, service, callbacks, FALSE)
<1>1. /\ phase = "adding" /\ m \in remaining /\ Registered(m)
      /\ mRegisteredServices' =
           [mRegisteredServices EXCEPT ![m] = [clients |-> FALSE, registered |-> TRUE]]
      /\ phase' = "free" /\ remaining' = {}
      /\ UNCHANGED <<mForcePersist, initRunning, at, wants, crashes>>
  BY DEF RegisterCallback, Unlock, clientVars, registerClientCallback
<1>2. /\ mNameToClientCallback' = [mNameToClientCallback EXCEPT ![m] = callbacks]
      /\ mNameToService' = [mNameToService EXCEPT ![m] = after]
      /\ inbox' = [inbox EXCEPT ![m] = @ \o FirstTold(service) \o Calls(m, service, callbacks, FALSE)]
      /\ UNCHANGED <<mNameToRegistrationCallback, mBinder, out, server, deaths, requested>>
  BY Zenon DEF RegisterCallback, registerClientCallback
<1>3. server # None /\ server \in Processes
  BY <1>1 DEF LockInv, TypeOK
<1>4. Agrees(m) /\ m \notin Known /\ Mine(m) /\ remaining = {m}
  BY <1>1, <1>3, Zenon DEF NameInv, Agrees, LockInv
<1>5. service \in Service /\ service.process = server /\ inbox[m] = <<>>
  BY <1>1, <1>4, Zenon DEF TypeOK, Registered, Mine, NameInv
<1>6. after \in Service /\ after.process = server
  BY <1>5, AfterCallbackType, Zenon
<1> HIDE DEF after
<1> DEFINE entry == [clients |-> FALSE, registered |-> TRUE]
<1>7. /\ entry \in Entry /\ entry.clients = FALSE /\ entry.registered = TRUE
  BY DEF Entry
<1> HIDE DEF entry
<1>8. /\ mRegisteredServices'[m] = entry
      /\ mRegisteredServices' \in [Names -> Entry \union {None}]
      /\ \A n \in Names \ {m} : mRegisteredServices'[n] = mRegisteredServices[n]
  BY <1>1, <1>7 DEF TypeOK, entry
<1>9. Known' = Known \union {m}
  BY <1>7, <1>8, EntryAssumption DEF Known
<1>10. /\ mNameToService'[m] = after
       /\ mNameToService' \in [Names -> Service \union {None}]
       /\ inbox'[m] = inbox[m] \o FirstTold(service) \o Calls(m, service, callbacks, FALSE)
       /\ mNameToClientCallback'[m] = callbacks
       /\ \A n \in Names \ {m} : /\ mNameToService'[n] = mNameToService[n]
                                 /\ inbox'[n] = inbox[n]
                                 /\ mNameToClientCallback'[n] = mNameToClientCallback[n]
  BY <1>2, <1>6, Zenon DEF TypeOK
<1>11. inbox'[m] \in Seq(BOOLEAN) /\ Told1(m)'
  <2> DEFINE first == inbox[m] \o FirstTold(service)
             more == first \o Calls(m, service, callbacks, FALSE)
  <2>1. FALSE \in BOOLEAN /\ service.hasClients \in BOOLEAN /\ <<>> \in Seq(BOOLEAN)
    BY <1>5 DEF Service
  <2>2. Alternates(FALSE, <<>>) /\ End(FALSE, <<>>) = FALSE
    BY DEF Alternates, End
  <2>3. /\ <<>> \o FirstTold(service) \in Seq(BOOLEAN)
        /\ Alternates(FALSE, <<>> \o FirstTold(service))
        /\ End(FALSE, <<>> \o FirstTold(service)) = service.hasClients
    BY <2>1, <2>2, NotifyExtends, Zenon DEF FirstTold
  <2>4. /\ first \in Seq(BOOLEAN) /\ Alternates(FALSE, first)
        /\ End(FALSE, first) = service.hasClients
    BY <1>5, <2>3, Zenon
  <2> HIDE DEF first
  <2>5. /\ more \in Seq(BOOLEAN) /\ Alternates(FALSE, more)
        /\ End(FALSE, more) = AfterCallback(m, service, callbacks, FALSE).hasClients
    <3>1. server \in callbacks
      OBVIOUS
    <3> HIDE DEF callbacks, service
    <3>2. ASSUME NEW v \in BOOLEAN, NEW onInterval \in BOOLEAN, Alternates(v, first),
                 End(v, first) = service.hasClients
          PROVE  LET all == first \o Calls(m, service, callbacks, onInterval)
                 IN /\ all \in Seq(BOOLEAN) /\ Alternates(v, all)
                    /\ End(v, all) = AfterCallback(m, service, callbacks, onInterval).hasClients
      BY <1>5, <2>4, <3>1, <3>2, CallsExtend
    <3> QED
      BY <2>1, <2>4, <3>2, Zenon
  <2> HIDE DEF more
  <2>6. inbox'[m] = more /\ mRegisteredServices'[m].clients = FALSE
    BY <1>7, <1>8, <1>10 DEF more, first
  <2>7. hasClients(m)' = after.hasClients
    BY <1>6, <1>10, NoneAssumption DEF hasClients, Registered, Service
  <2> QED
    BY <2>5, <2>6, <2>7, Zenon DEF Told1, after
<1>12. TypeOK'
  <2>1. inbox' \in [Names -> Seq(BOOLEAN)]
    BY <1>2, <1>11, Zenon DEF TypeOK
  <2>2. mNameToClientCallback' \in [Names -> SUBSET Processes]
    BY <1>2, <1>3 DEF TypeOK
  <2> QED
    BY <1>1, <1>2, <1>8, <1>10, <2>1, <2>2, Zenon DEF TypeOK
<1>13. LockInv' /\ ClientInv'
  BY <1>1, <1>2, <1>3 DEF LockInv, ClientInv
<1>14. \A n \in Names : hasKernelReportedClients(<<n, server>>)'
                          => hasKernelReportedClients(<<n, server>>)
  BY <1>2 DEF hasKernelReportedClients, Uses
<1>15. NameInv(m)'
  <2>1. Mine(m)'
    BY <1>2, <1>6, <1>10, NoneAssumption DEF Mine, Registered
  <2>2. Agrees(m)'
    BY <1>1, <1>7, <1>8, <1>9, <2>1 DEF Agrees
  <2>3. NameInv(m)
    OBVIOUS
  <2> QED
    BY <1>2, <1>3, <1>9, <1>10, <1>11, <2>1, <2>2, <2>3 DEF NameInv
<1>16. ASSUME NEW n \in Names \ {m} PROVE NameInv(n)'
  <2>1. NameInv(n)
    OBVIOUS
  <2>2. /\ Mine(n)' <=> Mine(n)
        /\ Registered(n)' <=> Registered(n)
        /\ Told1(n)' <=> Told1(n)
    BY <1>2, <1>8, <1>10, NameUntouched, Zenon
  <2>3. Agrees(n)'
    BY <1>1, <1>3, <1>4, <1>8, <1>9, <2>1, <2>2 DEF Agrees, NameInv
  <2> QED
    BY <1>2, <1>3, <1>9, <1>10, <1>14, <2>1, <2>2, <2>3 DEF NameInv
<1> QED
  BY <1>12, <1>13, <1>15, <1>16

\* maybeTryShutdownLocked: a name is known and registered in either outcome.
LEMMA ShutdownAgrees ==
  ASSUME Inv, server # None, phase = "free",
         NEW services, NEW persist \in BOOLEAN, maybeTryShutdownLocked(services, persist),
         UNCHANGED <<mNameToService, server>>, Known' = Known,
         \A n \in Known : mRegisteredServices'[n].registered = mRegisteredServices[n].registered
  PROVE  /\ \A n \in Names : Agrees(n)'
         /\ phase' \in {"free", "unregistering"} /\ remaining' \subseteq Names
         /\ phase' = "free" => remaining' = {}
<1> USE DEF Inv
<1>1. \/ phase' = "unregistering" /\ remaining' = Known
      \/ phase' = "free" /\ remaining' = {}
  BY DEF maybeTryShutdownLocked, Unlock
<1>2. ASSUME NEW n \in Names PROVE Agrees(n)'
  <2>1. /\ Mine(n)' <=> Mine(n)
        /\ Registered(n)' <=> Registered(n)
    BY DEF Mine, Registered
  <2>2. Agrees(n)
    BY Zenon DEF NameInv
  <2> QED
    BY <1>1, <2>1, <2>2 DEF Agrees
<1> QED
  BY <1>1, <1>2 DEF Known

\* onClients: the process catches up by one call.
LEMMA OnClientsPreserves ==
  ASSUME Inv, NEW m \in Names, onClients(m), UNCHANGED <<clientVars, crashes>>
  PROVE  Inv'
<1> USE DEF Inv
<1> DEFINE clients == Head(inbox[m])
<1>1. /\ server # None /\ phase = "free" /\ inbox[m] # <<>> /\ m \in Known
      /\ mRegisteredServices' = [mRegisteredServices EXCEPT ![m].clients = clients]
      /\ inbox' = [inbox EXCEPT ![m] = Tail(@)]
      /\ maybeTryShutdownLocked(mRegisteredServices', mForcePersist)
      /\ UNCHANGED <<mNameToService, mNameToRegistrationCallback, mNameToClientCallback, mBinder,
                     out, server, deaths, requested, mForcePersist, initRunning, at, wants,
                     crashes>>
  BY DEF onClients, Unlocked, Aborts, smVars, clientVars
<1>2. mRegisteredServices[m] \in Entry /\ inbox[m] \in Seq(BOOLEAN)
  BY <1>1 DEF TypeOK, Known
<1>3. mRegisteredServices[m].clients \in BOOLEAN
  BY <1>2 DEF Entry
<1>4. Told1(m)
  BY <1>1, Zenon DEF NameInv
<1>5. /\ clients \in BOOLEAN
      /\ Tail(inbox[m]) \in Seq(BOOLEAN)
      /\ Alternates(clients, Tail(inbox[m]))
      /\ End(clients, Tail(inbox[m])) = hasClients(m)
  <2>1. /\ Alternates(mRegisteredServices[m].clients, inbox[m])
        /\ End(mRegisteredServices[m].clients, inbox[m]) = hasClients(m)
    BY <1>4 DEF Told1
  <2> QED
    BY <1>1, <1>2, <1>3, <2>1, TailAlternates, Zenon
<1> HIDE DEF clients
<1>6. /\ mRegisteredServices'[m] \in Entry /\ mRegisteredServices'[m].clients = clients
      /\ mRegisteredServices'[m].registered = mRegisteredServices[m].registered
      /\ mRegisteredServices' \in [Names -> Entry \union {None}]
      /\ \A n \in Names \ {m} : mRegisteredServices'[n] = mRegisteredServices[n]
  BY <1>1, <1>2, <1>5, Zenon DEF TypeOK, Entry
<1>7. Known' = Known
  BY <1>1, <1>6, EntryAssumption DEF Known
<1>8. /\ \A n \in Names : Agrees(n)'
      /\ phase' \in {"free", "unregistering"} /\ remaining' \subseteq Names
      /\ phase' = "free" => remaining' = {}
  <2>1. mForcePersist \in BOOLEAN
    BY DEF TypeOK
  <2>2. \A n \in Known : mRegisteredServices'[n].registered = mRegisteredServices[n].registered
    BY <1>6 DEF Known
  <2> QED
    BY <1>1, <1>7, <2>1, <2>2, ShutdownAgrees
<1>9. /\ inbox'[m] = Tail(inbox[m]) /\ \A n \in Names \ {m} : inbox'[n] = inbox[n]
      /\ inbox' \in [Names -> Seq(BOOLEAN)]
  BY <1>1, <1>5 DEF TypeOK
<1>10. TypeOK'
  BY <1>1, <1>6, <1>8, <1>9 DEF TypeOK
<1>11. LockInv' /\ ClientInv'
  BY <1>1, <1>8 DEF LockInv, ClientInv
<1>12. \A n \in Names : (hasKernelReportedClients(<<n, server>>)'
                           => hasKernelReportedClients(<<n, server>>)) /\ (Mine(n)' <=> Mine(n))
  BY <1>1 DEF hasKernelReportedClients, Uses, Mine, Registered
<1>13. Told1(m)'
  <2>1. hasClients(m)' = hasClients(m)
    BY <1>1 DEF hasClients, Registered
  <2> QED
    BY <1>5, <1>6, <1>9, <2>1 DEF Told1
<1>14. ASSUME NEW n \in Names PROVE NameInv(n)'
  <2>1. NameInv(n)
    OBVIOUS
  <2>2. n \in Known => Told1(n)'
    <3>1. CASE n = m
      BY <1>13, <3>1
    <3>2. CASE n # m
      BY <1>1, <1>6, <1>9, <2>1, <3>2, NameUntouched DEF NameInv
    <3> QED
      BY <3>1, <3>2
  <2>3. n \notin Known => inbox'[n] = inbox[n]
    BY <1>1, <1>9
  <2> QED
    BY <1>1, <1>7, <1>8, <1>12, <2>1, <2>2, <2>3 DEF NameInv
<1> QED
  BY <1>10, <1>11, <1>14

\* forcePersist.
LEMMA ForcePersistPreserves ==
  ASSUME Inv, NEW persist \in BOOLEAN, forcePersist(persist), UNCHANGED <<clientVars, crashes>>
  PROVE  Inv'
<1> USE DEF Inv
<1>1. /\ server # None /\ phase = "free" /\ mForcePersist' = persist
      /\ maybeTryShutdownLocked(mRegisteredServices, persist)
      /\ UNCHANGED <<mNameToService, mNameToRegistrationCallback, mNameToClientCallback, mBinder,
                     out, server, inbox, deaths, requested, mRegisteredServices, initRunning, at,
                     wants, crashes>>
  BY DEF forcePersist, Unlocked, smVars, clientVars
<1>2. Known' = Known
  BY <1>1 DEF Known
<1>3. /\ \A n \in Names : Agrees(n)'
      /\ phase' \in {"free", "unregistering"} /\ remaining' \subseteq Names
      /\ phase' = "free" => remaining' = {}
  BY <1>1, <1>2, ShutdownAgrees
<1>4. TypeOK' /\ LockInv' /\ ClientInv'
  BY <1>1, <1>3 DEF TypeOK, LockInv, ClientInv
<1>5. ASSUME NEW n \in Names PROVE NameInv(n)'
  <2>1. /\ Mine(n)' <=> Mine(n)
        /\ Told1(n)' <=> Told1(n)
    BY <1>1, NameUntouched, Zenon
  <2>2. hasKernelReportedClients(<<n, server>>)' => hasKernelReportedClients(<<n, server>>)
    BY <1>1 DEF hasKernelReportedClients, Uses
  <2>3. NameInv(n)
    OBVIOUS
  <2> QED
    BY <1>1, <1>2, <1>3, <2>1, <2>2, <2>3 DEF NameInv
<1> QED
  BY <1>4, <1>5

\* tryUnregisterService lets a name go only when nobody uses it and the callbacks
\* were told so.
LEMMA CanUnregisterMeans ==
  ASSUME Inv, server # None, NEW m \in Known, CanUnregister(server, m)
  PROVE  ~hasClients(m) /\ ~hasKernelReportedClients(<<m, server>>)
<1> USE DEF Inv
<1> DEFINE service == mNameToService[m]
           reported == hasKernelReportedClients(<<m, server>>)
<1>1. m \in Names /\ server \in mNameToClientCallback[m] /\ Registered(m)
  BY Zenon DEF Known, NameInv, CanUnregister
<1>2. service \in Service /\ service.process = server
  BY <1>1 DEF CanUnregister, binder, TypeOK, Registered
<1>3. ~AfterCallback(m, service, mNameToClientCallback[m], FALSE).hasClients
  BY Zenon DEF CanUnregister, InUse
<1>4. AfterCallback(m, service, mNameToClientCallback[m], FALSE)
        = Handled(service, hasKernelReportedClients(<<m, server>>), FALSE)
  BY <1>1, <1>2, Zenon DEF AfterCallback
<1>5. \A r \in BOOLEAN : Handled(service, r, FALSE).hasClients <=> Told(service, r)
  BY <1>2 DEF Handled, Service, Told
<1>6. hasKernelReportedClients(<<m, server>>) \in BOOLEAN
  BY DEF hasKernelReportedClients
<1>7. ~Told(service, hasKernelReportedClients(<<m, server>>))
  BY <1>3, <1>4, <1>5, <1>6, Zenon
<1> QED
  BY <1>7, Zenon DEF Told, hasClients

\* tryUnregisterLocked, the turns that succeed.
LEMMA UnregisterPreserves ==
  ASSUME Inv, NEW m \in Names, UnregisterNext(m), UNCHANGED <<clientVars, crashes>>
  PROVE  Inv'
<1> USE DEF Inv
<1>1. /\ phase = "unregistering" /\ m \in remaining /\ CanUnregister(server, m)
      /\ mNameToService' = [mNameToService EXCEPT ![m] = None]
      /\ mRegisteredServices' = [mRegisteredServices EXCEPT ![m].registered = FALSE]
      /\ remaining' = remaining \ {m}
      /\ UNCHANGED <<mNameToRegistrationCallback, mNameToClientCallback, mBinder, out, server,
                     inbox, deaths, requested, phase, mForcePersist, initRunning, at, wants,
                     crashes>>
  BY DEF UnregisterNext, Unregister, clientVars
<1>2. server # None
  BY <1>1 DEF LockInv
<1>3. m \in Known
  BY <1>1, <1>2, Zenon DEF NameInv, Agrees
<1>4. ~hasClients(m) /\ ~hasKernelReportedClients(<<m, server>>)
  BY <1>1, <1>2, <1>3, CanUnregisterMeans
<1>5. mRegisteredServices[m] \in Entry
  BY <1>3 DEF TypeOK, Known
<1>6. /\ mRegisteredServices'[m] \in Entry /\ mRegisteredServices'[m].registered = FALSE
      /\ mRegisteredServices'[m].clients = mRegisteredServices[m].clients
      /\ mRegisteredServices' \in [Names -> Entry \union {None}]
      /\ \A n \in Names \ {m} : mRegisteredServices'[n] = mRegisteredServices[n]
  BY <1>1, <1>5, Zenon DEF TypeOK, Entry
<1>7. Known' = Known
  BY <1>3, <1>6, EntryAssumption DEF Known
<1>8. /\ mNameToService'[m] = None
      /\ mNameToService' \in [Names -> Service \union {None}]
      /\ \A n \in Names \ {m} : mNameToService'[n] = mNameToService[n]
  BY <1>1 DEF TypeOK
<1>9. TypeOK' /\ LockInv' /\ ClientInv'
  BY <1>1, <1>2, <1>6, <1>8 DEF TypeOK, LockInv, ClientInv
<1>10. \A n \in Names : hasKernelReportedClients(<<n, server>>)'
                          => hasKernelReportedClients(<<n, server>>)
  BY <1>1 DEF hasKernelReportedClients, Uses
<1>11. NameInv(m)'
  <2>1. ~Mine(m)' /\ ~Registered(m)'
    BY <1>8 DEF Mine, Registered
  <2>2. Agrees(m)'
    BY <1>1, <1>3, <1>6, <1>7, <2>1 DEF Agrees
  <2>3. NameInv(m) /\ Told1(m)
    BY <1>3 DEF NameInv
  <2>4. hasClients(m)' = hasClients(m)
    BY <1>4, <2>1 DEF hasClients
  <2>5. Told1(m)'
    BY <1>1, <1>6, <2>3, <2>4 DEF Told1
  <2> QED
    BY <1>1, <1>2, <1>3, <1>4, <1>7, <1>10, <2>2, <2>3, <2>5 DEF NameInv
<1>12. ASSUME NEW n \in Names \ {m} PROVE NameInv(n)'
  <2>1. NameInv(n)
    OBVIOUS
  <2>2. /\ Mine(n)' <=> Mine(n)
        /\ Registered(n)' <=> Registered(n)
        /\ Told1(n)' <=> Told1(n)
    BY <1>1, <1>6, <1>8, NameUntouched
  <2>3. Agrees(n)'
    BY <1>1, <1>2, <1>6, <1>7, <2>1, <2>2 DEF Agrees, NameInv
  <2> QED
    BY <1>1, <1>2, <1>7, <1>10, <2>1, <2>2, <2>3 DEF NameInv
<1> QED
  BY <1>9, <1>11, <1>12

\* tryUnregisterLocked, the turn that fails.
LEMMA UnregisterFailsPreserves ==
  ASSUME Inv, NEW m \in Names, UnregisterFails(m), UNCHANGED <<clientVars, crashes>>
  PROVE  Inv'
<1> USE DEF Inv
<1> DEFINE service == mNameToService[m]
           callbacks == mNameToClientCallback[m]
           after == AfterCallback(m, service, callbacks, FALSE)
           heard == /\ Registered(m) /\ binder(m) = <<m, server>>
                    /\ ~service.guaranteeClient
<1>1. /\ phase = "unregistering" /\ m \in remaining
      /\ remaining' = {n \in Known : ~mRegisteredServices[n].registered}
      /\ phase' = IF remaining' = {} THEN "free" ELSE "reregistering"
      /\ UNCHANGED <<mNameToRegistrationCallback, mNameToClientCallback, mBinder, out, server,
                     deaths, requested, mRegisteredServices, mForcePersist, initRunning, at,
                     wants, crashes>>
  BY DEF UnregisterFails, RefuseUnregister, clientVars
<1>2. /\ heard => /\ mNameToService' = [mNameToService EXCEPT ![m] = WithGuarantee(after)]
                  /\ inbox' = [inbox EXCEPT ![m] = @ \o Calls(m, service, callbacks, FALSE)]
      /\ ~heard => UNCHANGED <<mNameToService, inbox>>
  BY Zenon DEF UnregisterFails, RefuseUnregister
<1>3. server # None
  BY <1>1 DEF LockInv
<1>4. m \in Known
  BY <1>1, <1>3, Zenon DEF NameInv, Agrees
<1>5. Known' = Known /\ remaining' \subseteq Names
  BY <1>1 DEF Known
<1>6. /\ mNameToService' \in [Names -> Service \union {None}]
      /\ inbox' \in [Names -> Seq(BOOLEAN)]
      /\ Told1(m)'
      /\ Registered(m)' <=> Registered(m)
      /\ Registered(m) => mNameToService'[m].process = mNameToService[m].process
      /\ \A n \in Names \ {m} : mNameToService'[n] = mNameToService[n] /\ inbox'[n] = inbox[n]
  <2>1. CASE ~heard
    <3>1. UNCHANGED <<mNameToService, inbox>>
      BY <1>2, <2>1
    <3>2. Told1(m)
      BY <1>4, Zenon DEF NameInv
    <3> QED
      BY <1>1, <3>1, <3>2, NameUntouched DEF TypeOK, Registered
  <2>2. CASE heard
    <3>1. /\ mNameToService' = [mNameToService EXCEPT ![m] = WithGuarantee(after)]
          /\ inbox' = [inbox EXCEPT ![m] = @ \o Calls(m, service, callbacks, FALSE)]
      BY <1>2, <2>2, Zenon
    <3>2. Registered(m) /\ service \in Service
      BY <2>2 DEF TypeOK, Registered
    <3>3. after \in Service /\ after.process = service.process
      BY <3>2, AfterCallbackType, Zenon
    <3> HIDE DEF after
    <3>4. /\ WithGuarantee(after) \in Service
          /\ WithGuarantee(after).process = service.process
          /\ WithGuarantee(after).hasClients = after.hasClients
      BY <3>3, Zenon DEF Service, WithGuarantee
    <3>5. /\ mNameToService' \in [Names -> Service \union {None}]
          /\ mNameToService'[m] = WithGuarantee(after)
          /\ inbox'[m] = inbox[m] \o Calls(m, service, callbacks, FALSE)
          /\ \A n \in Names \ {m} : mNameToService'[n] = mNameToService[n] /\ inbox'[n] = inbox[n]
      BY <3>1, <3>4, Zenon DEF TypeOK
    <3>6. hasClients(m) <=> service.hasClients
      BY <3>2 DEF hasClients
    <3>7. inbox'[m] \in Seq(BOOLEAN) /\ Told1(m)'
      <4>1. mRegisteredServices'[m] # None /\ mNameToService'[m] \in Service
        BY <1>1, <1>4, <3>4, <3>5 DEF Known
      <4>2. mNameToService'[m].hasClients = AfterCallback(m, service, callbacks, FALSE).hasClients
        BY <3>4, <3>5, Zenon DEF after
      <4> QED
        BY <1>1, <1>4, <3>2, <3>5, <3>6, <4>1, <4>2, Heard, Zenon
    <3>8. inbox' \in [Names -> Seq(BOOLEAN)]
      BY <3>1, <3>7, Zenon DEF TypeOK
    <3>9. Registered(m)'
      BY <3>4, <3>5, NoneAssumption DEF Registered
    <3> QED
      BY <3>2, <3>4, <3>5, <3>7, <3>8, <3>9
  <2> HIDE DEF heard
  <2> QED
    BY <2>1, <2>2
<1>7. TypeOK'
  BY <1>1, <1>5, <1>6 DEF TypeOK
<1>8. LockInv' /\ ClientInv'
  BY <1>1, <1>3, Zenon DEF LockInv, ClientInv
<1>9. \A n \in Names : hasKernelReportedClients(<<n, server>>)'
                         => hasKernelReportedClients(<<n, server>>)
  BY <1>1 DEF hasKernelReportedClients, Uses
<1>10. ASSUME NEW n \in Names PROVE NameInv(n)'
  <2>1. NameInv(n)
    OBVIOUS
  <2>2. /\ Mine(n)' <=> Mine(n)
        /\ Registered(n)' <=> Registered(n)
        /\ n \in Known => Told1(n)'
        /\ n \notin Known => inbox'[n] = inbox[n]
    <3>1. CASE n = m
      <4>1. Mine(n)' <=> Mine(n)
        BY <1>1, <1>6, <3>1 DEF Mine
      <4> QED
        BY <1>4, <1>6, <3>1, <4>1
    <3>2. CASE n # m
      <4>1. /\ Mine(n)' <=> Mine(n)
            /\ Registered(n)' <=> Registered(n)
            /\ Told1(n)' <=> Told1(n)
        BY <1>1, <1>6, <3>2, NameUntouched
      <4> QED
        BY <1>6, <2>1, <3>2, <4>1 DEF NameInv
    <3> QED
      BY <3>1, <3>2
  <2>3. Agrees(n)'
    <3>1. Agrees(n)
      BY <1>3, <2>1 DEF NameInv
    <3> QED
      BY <1>1, <1>5, <2>2, <3>1 DEF Agrees
  <2> QED
    BY <1>1, <1>3, <1>5, <1>9, <2>1, <2>2, <2>3, Zenon DEF NameInv
<1> QED
  BY <1>7, <1>8, <1>10

\* A process that stops leaves nothing behind but death notices.
LEMMA StopPreserves ==
  ASSUME Inv, server # None, ProcessStops, UNCHANGED clientVars, crashes' \in 0 .. MaxCrashes
  PROVE  Inv'
<1> USE DEF Inv
<1>1. /\ server' = None /\ inbox' = [n \in Names |-> <<>>]
      /\ mRegisteredServices' = [n \in Names |-> None] /\ mForcePersist' = FALSE
      /\ phase' = "free" /\ remaining' = {}
      /\ UNCHANGED <<mNameToService, mNameToRegistrationCallback, mNameToClientCallback, mBinder,
                     out, requested, initRunning, at, wants>>
  BY DEF ProcessStops, Unlock, smVars, clientVars
<1>2. deaths' \subseteq Notices
  <2>1. server \in Processes
    BY DEF TypeOK
  <2>2. /\ \A n \in Names : <<"service", n, server>> \in Notices
        /\ <<"callback", server>> \in Notices
    BY <2>1 DEF Notices
  <2> QED
    BY <2>2, Zenon DEF ProcessStops, TypeOK
<1>3. inbox' \in [Names -> Seq(BOOLEAN)]
  BY <1>1
<1>4. TypeOK'
  BY <1>1, <1>2, <1>3, Zenon DEF TypeOK
<1>5. LockInv' /\ ClientInv'
  BY <1>1 DEF LockInv, ClientInv
<1>6. \A n \in Names : NameInv(n)'
  BY <1>1 DEF NameInv, Known
<1> QED
  BY <1>4, <1>5, <1>6

\* init starts a process no one has heard of, or does nothing.
LEMMA InitStepPreserves ==
  ASSUME Inv, InitStarts \/ InitIgnores \/ InitReaps, UNCHANGED <<clientVars, crashes>>
  PROVE  Inv'
<1> USE DEF Inv
<1>1. ASSUME InitStarts PROVE Inv'
  <2>1. /\ ~initRunning /\ initRunning' = TRUE /\ requested' = FALSE
        /\ server' \in Processes /\ Unused(server')
        /\ UNCHANGED <<mNameToService, mNameToRegistrationCallback, mNameToClientCallback,
                       mBinder, out, inbox, deaths, mRegisteredServices, mForcePersist, phase,
                       remaining, at, wants, crashes>>
    BY <1>1 DEF InitStarts, smVars, clientVars
  <2>2. server = None /\ phase = "free" /\ remaining = {}
    BY <2>1 DEF LockInv
  <2>3. TypeOK' /\ ClientInv'
    BY <2>1, Zenon DEF TypeOK, ClientInv
  <2>4. LockInv'
    BY <2>1, <2>2 DEF LockInv, Unused
  <2>5. ASSUME NEW n \in Names PROVE NameInv(n)'
    <3>1. NameInv(n) /\ Known' = Known /\ n \notin Known
      BY <2>1, <2>2 DEF NameInv, Known
    <3>2. ~Mine(n)' /\ server' \notin mNameToClientCallback'[n] /\ <<"service", n, server'>> \notin deaths'
      BY <2>1, Zenon DEF Unused, Mine, Registered
    <3>3. ~hasKernelReportedClients(<<n, server>>)'
      BY <2>1, Zenon DEF Unused, hasKernelReportedClients, Uses
    <3>4. Agrees(n)'
      BY <2>1, <2>2, <3>1, <3>2 DEF Agrees
    <3> QED
      BY <2>1, <3>1, <3>2, <3>3, <3>4 DEF NameInv
  <2> QED
    BY <2>3, <2>4, <2>5
<1>2. ASSUME InitIgnores \/ InitReaps PROVE Inv'
  <2>1. /\ UNCHANGED <<mNameToService, mNameToRegistrationCallback, mNameToClientCallback,
                       mBinder, out, server, inbox, deaths, mRegisteredServices, mForcePersist,
                       phase, remaining, at, wants, crashes>>
        /\ requested' \in BOOLEAN /\ initRunning' \in BOOLEAN
        /\ server # None => initRunning' = initRunning
    BY <1>2, Zenon DEF InitIgnores, InitReaps, smVars, lazyVars, clientVars, TypeOK
  <2>2. TypeOK' /\ LockInv' /\ ClientInv'
    BY <2>1 DEF TypeOK, LockInv, ClientInv
  <2>3. ASSUME NEW n \in Names PROVE NameInv(n)'
    <3>1. NameInv(n) /\ Known' = Known
      BY <2>1 DEF Known
    <3>2. /\ Mine(n)' <=> Mine(n)
          /\ Registered(n)' <=> Registered(n)
          /\ Told1(n)' <=> Told1(n)
      BY <2>1, NameUntouched
    <3>3. hasKernelReportedClients(<<n, server>>)' <=> hasKernelReportedClients(<<n, server>>)
      BY <2>1 DEF hasKernelReportedClients, Uses
    <3>4. Agrees(n)' <=> Agrees(n)
      BY <2>1, <3>1, <3>2 DEF Agrees
    <3> QED
      BY <2>1, <3>1, <3>2, <3>3, <3>4 DEF NameInv
  <2> QED
    BY <2>2, <2>3
<1> QED
  BY <1>1, <1>2

\* A step that changes nothing.
LEMMA StutterPreserves ==
  ASSUME Inv, UNCHANGED vars
  PROVE  Inv'
<1>1. UNCHANGED <<mNameToService, mNameToRegistrationCallback, mNameToClientCallback, mBinder,
                  out, server, inbox, deaths, requested, mRegisteredServices, mForcePersist,
                  phase, remaining, crashes, initRunning, at, wants>>
  BY DEF vars
<1>2. TypeOK' /\ LockInv' /\ ClientInv'
  BY <1>1 DEF Inv, TypeOK, LockInv, ClientInv
<1>3. ASSUME NEW n \in Names PROVE NameInv(n)'
  <2>1. NameInv(n) /\ Known' = Known
    BY <1>1 DEF Inv, Known
  <2>2. /\ Mine(n)' <=> Mine(n)
        /\ Registered(n)' <=> Registered(n)
        /\ Told1(n)' <=> Told1(n)
    BY <1>1, NameUntouched
  <2>3. hasKernelReportedClients(<<n, server>>)' <=> hasKernelReportedClients(<<n, server>>)
    BY <1>1 DEF hasKernelReportedClients, Uses
  <2>4. Agrees(n)' <=> Agrees(n)
    BY <1>1, <2>1, <2>2 DEF Agrees
  <2> QED
    BY <1>1, <2>1, <2>2, <2>3, <2>4, Zenon DEF NameInv
<1> QED
  BY <1>2, <1>3 DEF Inv

-----------------------------------------------------------------------------
(***************************************************************************)
(* The theorems.                                                           *)
(***************************************************************************)

\* Inv is an invariant of LazyServices, for any names, processes and clients and
\* whatever the bounds.
THEOREM InvHolds == Spec => []Inv
<1>1. Init => Inv
  <2> SUFFICES ASSUME Init PROVE Inv
    OBVIOUS
  <2> USE DEF Init, InitServiceManager, InitRegistrar, InitClients
  <2>1. inbox \in [Names -> Seq(BOOLEAN)]
    OBVIOUS
  <2>2. TypeOK
    <3>1. crashes \in 0 .. MaxCrashes
      BY BoundsAssumption
    <3>2. /\ mNameToService \in [Names -> Service \union {None}]
          /\ mNameToRegistrationCallback \in [Names -> SUBSET Clients]
          /\ mNameToClientCallback \in [Names -> SUBSET Processes]
      OBVIOUS
    <3>3. /\ mRegisteredServices \in [Names -> Entry \union {None}]
          /\ mBinder \in [Clients -> Binders \union {None}]
          /\ out \in [Clients -> Binders \union {None}]
      OBVIOUS
    <3>4. at \in [Clients -> Places] /\ wants \in [Clients -> Names \union {None}]
      BY DEF Places
    <3>5. /\ server \in Processes \union {None} /\ deaths \subseteq Notices
          /\ requested \in BOOLEAN /\ mForcePersist \in BOOLEAN /\ initRunning \in BOOLEAN
          /\ phase \in {"free", "adding", "unregistering", "reregistering"}
          /\ remaining \subseteq Names
      BY Zenon
    <3> QED
      BY <2>1, <3>1, <3>2, <3>3, <3>4, <3>5 DEF TypeOK
  <2>3. LockInv /\ ClientInv
    BY DEF LockInv, ClientInv
  <2>4. \A n \in Names : NameInv(n)
    BY DEF NameInv, Known
  <2> QED
    BY <2>2, <2>3, <2>4 DEF Inv
<1>2. Inv /\ [Next]_vars => Inv'
  <2> SUFFICES ASSUME Inv, [Next]_vars PROVE Inv'
    OBVIOUS
  <2>1. crashes \in 0 .. MaxCrashes
    BY DEF Inv, TypeOK
  <2>2. ASSUME NEW c \in Clients, ClientStep(c), ByClient PROVE Inv'
    BY <2>1, <2>2, ClientPreserves DEF ByClient
  <2>3. ASSUME ProcessStep, ByProcess PROVE Inv'
    <3>1. UNCHANGED <<clientVars, crashes>>
      BY <2>3 DEF ByProcess
    <3>2. ASSUME NEW n \in Names, registerService(n) PROVE Inv'
      BY <3>1, <3>2, RegisterPreserves
    <3>3. ASSUME NEW n \in Names, Continues(n) PROVE Inv'
      BY <3>1, <3>3, RegisterCallbackPreserves, UnregisterPreserves, UnregisterFailsPreserves,
         ReRegisterPreserves DEF Continues
    <3>4. ASSUME NEW n \in Names, onClients(n) PROVE Inv'
      BY <3>1, <3>4, OnClientsPreserves
    <3>5. ASSUME NEW persist \in BOOLEAN, forcePersist(persist) PROVE Inv'
      BY <3>1, <3>5, ForcePersistPreserves
    <3>6. ASSUME Exit PROVE Inv'
      <4>1. server # None /\ ProcessStops
        BY <3>6 DEF Exit, Inv, LockInv
      <4> QED
        BY <2>1, <3>1, <4>1, StopPreserves
    <3>7. ASSUME InitStarts \/ InitIgnores \/ InitReaps PROVE Inv'
      BY <3>1, <3>7, InitStepPreserves
    <3> QED
      BY <2>3, <3>2, <3>3, <3>4, <3>5, <3>6, <3>7 DEF ProcessStep
  <2>4. ASSUME ManagerStep, ByManager PROVE Inv'
    BY <2>4, ManagerPreserves DEF ByManager
  <2>5. ASSUME Killed PROVE Inv'
    <3>1. crashes' \in 0 .. MaxCrashes
      BY <2>1, <2>5, BoundsAssumption DEF Killed
    <3>2. ASSUME Crash, UNCHANGED clientVars PROVE Inv'
      BY <3>1, <3>2, StopPreserves DEF Crash
    <3>3. ASSUME NEW c \in Clients, Dies(c), UNCHANGED lazyVars PROVE Inv'
      BY <3>1, <3>3, ClientPreserves
    <3> QED
      BY <2>5, <3>2, <3>3 DEF Killed
  <2> QED
    BY <2>2, <2>3, <2>4, <2>5, StutterPreserves DEF Next
<1> QED
  BY <1>1, <1>2, PTL DEF Spec

\* onClients meets neither of its fatal errors.
THEOREM NeverAbortsHolds == Spec => []NeverAborts
<1>1. Inv => NeverAborts
  <2> SUFFICES ASSUME Inv, NEW n \in Names, Unlocked, inbox[n] # <<>>
               PROVE  ~Aborts(n, Head(inbox[n]))
    BY DEF NeverAborts
  <2>1. n \in Known /\ Told1(n)
    BY Zenon DEF Inv, NameInv
  <2>2. /\ mRegisteredServices[n].clients \in BOOLEAN
        /\ inbox[n] \in Seq(BOOLEAN)
    BY <2>1 DEF Inv, TypeOK, Entry, Known
  <2>3. Head(inbox[n]) # mRegisteredServices[n].clients
    <3>1. Alternates(mRegisteredServices[n].clients, inbox[n])
      BY <2>1 DEF Told1
    <3> QED
      BY <2>2, <3>1, TailAlternates
  <2> QED
    BY <2>1, <2>3 DEF Aborts
<1> QED
  BY <1>1, InvHolds, PTL

\* A process that exits is unused.
THEOREM ExitsUnusedHolds == Spec => []ExitsUnused
<1>1. Inv => ExitsUnused
  <2> SUFFICES ASSUME Inv, phase = "unregistering", remaining = {}, NEW n \in Names
               PROVE  /\ ~hasKernelReportedClients(<<n, server>>)
                      /\ ~(Registered(n) /\ binder(n) = <<n, server>>)
    BY DEF ExitsUnused
  <2>1. server # None
    BY DEF Inv, LockInv
  <2>2. ~Mine(n)
    BY <2>1, Zenon DEF Inv, NameInv, Agrees
  <2> QED
    BY <2>1, <2>2, Zenon DEF Inv, NameInv, Mine, binder
<1> QED
  BY <1>1, InvHolds, PTL

\* registerClientCallback finds the service that was just added.
THEOREM RegistrationAcceptedHolds == Spec => []RegistrationAccepted
<1>1. Inv => RegistrationAccepted
  <2> SUFFICES ASSUME Inv, phase = "adding", NEW n \in remaining
               PROVE  Registered(n) /\ binder(n) = <<n, server>>
    BY DEF RegistrationAccepted
  <2>1. server # None /\ n \in Names
    BY DEF Inv, LockInv, TypeOK
  <2>2. Mine(n)
    BY <2>1, Zenon DEF Inv, NameInv, Agrees
  <2> QED
    BY <2>2 DEF Mine, binder
<1> QED
  BY <1>1, InvHolds, PTL

=============================================================================
