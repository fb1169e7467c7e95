------------------------- MODULE LazyServicesFacts -------------------------
(***************************************************************************)
(* The inductive invariant behind the theorems of LazyServicesProofs, and  *)
(* that the steps of clients and of servicemanager preserve it.            *)
(***************************************************************************)
EXTENDS LazyServices, SequenceTheorems, TLAPS

-----------------------------------------------------------------------------
(***************************************************************************)
(* What is under way about one name.                                       *)
(***************************************************************************)

\* What a process that believes v will believe once it received the calls.
End(v, calls) == IF calls = <<>> THEN v ELSE calls[Len(calls)]

\* Each of the calls changes what a process that believes v believes.
Alternates(v, calls) ==
  /\ calls # <<>> => calls[1] # v
  /\ \A i \in 1 .. Len(calls) - 1 : calls[i + 1] # calls[i]

\* What servicemanager told the callbacks of a name.
hasClients(n) == Registered(n) /\ mNameToService[n].hasClients

\* The running process is registered under the name.
Mine(n) == Registered(n) /\ mNameToService[n].process = server

\* The names servicemanager knows the process by are those it has registered and
\* not taken back, or is registering now.
Agrees(n) ==
  IF n \in Known
  THEN /\ Mine(n) <=> mRegisteredServices[n].registered
       /\ Registered(n) => Mine(n)
       /\ mRegisteredServices[n].registered <=>
            /\ phase = "unregistering" => n \in remaining
            /\ phase = "reregistering" => n \notin remaining
       /\ phase = "adding" => n \notin remaining
  ELSE /\ Mine(n) <=> phase = "adding" /\ n \in remaining
       /\ phase \in {"unregistering", "reregistering"} => n \notin remaining

\* The calls under way bring the process from what it believes to what
\* servicemanager told it.
Told1(n) ==
  LET clients == mRegisteredServices[n].clients
  IN Alternates(clients, inbox[n]) /\ End(clients, inbox[n]) = hasClients(n)

NameInv(n) ==
  /\ n \notin Known => inbox[n] = <<>>
  /\ server = None => n \notin Known
  /\ server # None =>
       /\ Agrees(n)
       /\ n \in Known => Told1(n)
       /\ server \in mNameToClientCallback[n] <=> n \in Known
       /\ hasKernelReportedClients(<<n, server>>) => Mine(n)
       /\ <<"service", n, server>> \notin deaths

LockInv ==
  /\ server = None => phase = "free"
  /\ phase = "free" => remaining = {}
  /\ phase = "adding" => \E n \in Names : remaining = {n}
  /\ server # None => initRunning /\ <<"callback", server>> \notin deaths

\* A client that is in waitForService knows what it waits for.
ClientInv ==
  \A c \in Clients :
    at[c] \in {"asked", "waiting", "retrying", "returning"} => wants[c] \in Names

Inv == TypeOK /\ LockInv /\ ClientInv /\ \A n \in Names : NameInv(n)

-----------------------------------------------------------------------------
(***************************************************************************)
(* The calls handleServiceClientCallback makes.                            *)
(***************************************************************************)

\* A notification of a change keeps the calls under way alternating and brings
\* the process to the new state.
LEMMA NotifyExtends ==
  ASSUME NEW v \in BOOLEAN, NEW calls \in Seq(BOOLEAN), NEW after \in BOOLEAN,
         Alternates(v, calls)
  PROVE  LET all == calls \o Notify(End(v, calls), after)
         IN /\ Notify(End(v, calls), after) \in Seq(BOOLEAN)
            /\ all \in Seq(BOOLEAN)
            /\ Alternates(v, all)
            /\ End(v, all) = after
<1>1. CASE End(v, calls) = after
  <2>1. Notify(End(v, calls), after) = <<>> /\ calls \o <<>> = calls
    BY <1>1, ConcatEmptySeq DEF Notify
  <2> QED
    BY <1>1, <2>1
<1>2. CASE End(v, calls) # after
  <2>1. Notify(End(v, calls), after) = <<after>>
    BY <1>2 DEF Notify
  <2> DEFINE more == Append(calls, after)
  <2>2. calls \o <<after>> = more
    BY AppendIsConcat
  <2>3. /\ more \in Seq(BOOLEAN) /\ more # <<>>
        /\ Len(more) = Len(calls) + 1 /\ Len(calls) \in Nat
        /\ more[Len(calls) + 1] = after
        /\ \A i \in 1 .. Len(calls) : more[i] = calls[i]
    BY AppendProperties, LenProperties
  <2>4. End(v, more) = after
    BY <2>3 DEF End
  <2>5. Alternates(v, more)
    <3> HIDE DEF more
    <3>1. CASE calls = <<>>
      BY <1>2, <2>3, <3>1 DEF End, Alternates
    <3>2. CASE calls # <<>>
      <4>1. Len(calls) >= 1
        BY <3>2, EmptySeq, LenProperties
      <4>2. more[1] # v
        BY <2>3, <3>2, <4>1 DEF Alternates
      <4>3. ASSUME NEW i \in 1 .. Len(more) - 1
            PROVE  more[i + 1] # more[i]
        BY <1>2, <2>3, <3>2, <4>1 DEF Alternates, End
      <4> QED
        BY <4>2, <4>3 DEF Alternates
    <3> QED
      BY <3>1, <3>2
  <2>6. calls \o Notify(End(v, calls), after) = more /\ <<after>> \in Seq(BOOLEAN)
    BY <2>1, <2>2
  <2> HIDE DEF more
  <2> QED
    BY <2>1, <2>3, <2>4, <2>5, <2>6, Zenon
<1> QED
  BY <1>1, <1>2

\* The entry handleServiceClientCallback leaves is one of the same process.
LEMMA HandledType ==
  ASSUME NEW service \in Service, NEW reported \in BOOLEAN, NEW onInterval \in BOOLEAN
  PROVE  /\ Handled(service, reported, onInterval) \in Service
         /\ Handled(service, reported, onInterval).process = service.process
         /\ Handled(service, reported, onInterval).hasClients \in BOOLEAN
         /\ Handled(service, reported, onInterval).hasClients
              <=> Told(service, reported) /\ (onInterval => reported)
         /\ Told(service, reported) \in BOOLEAN
         /\ WithGuarantee(service) \in Service
         /\ WithGuarantee(service).process = service.process
         /\ WithGuarantee(service).hasClients = service.hasClients
         /\ WithGuarantee(service).guaranteeClient = TRUE
  BY Zenon DEF Service, Handled, Told, WithGuarantee

\* The calls it makes are those that bring the process from what it was told to
\* what the entry now says.
LEMMA NotifiedExtends ==
  ASSUME NEW v \in BOOLEAN, NEW calls \in Seq(BOOLEAN), Alternates(v, calls),
         NEW service \in Service, NEW reported \in BOOLEAN, NEW onInterval \in BOOLEAN,
         End(v, calls) = service.hasClients
  PROVE  LET more == calls \o Notified(service, reported, onInterval)
         IN /\ more \in Seq(BOOLEAN)
            /\ Alternates(v, more)
            /\ End(v, more) = Handled(service, reported, onInterval).hasClients
<1> DEFINE told == Told(service, reported)
           first == Notify(service.hasClients, told)
           has == Handled(service, reported, onInterval).hasClients
           second == Notify(told, has)
<1>1. told \in BOOLEAN /\ has \in BOOLEAN
  BY HandledType, Zenon
<1> HIDE DEF told, has
<1>2. /\ first \in Seq(BOOLEAN) /\ calls \o first \in Seq(BOOLEAN)
      /\ Alternates(v, calls \o first) /\ End(v, calls \o first) = told
  BY <1>1, NotifyExtends
<1> DEFINE middle == calls \o first
<1> HIDE DEF first
<1>3. middle \in Seq(BOOLEAN) /\ Alternates(v, middle) /\ End(v, middle) = told
  BY <1>2
<1> HIDE DEF middle
<1>4. /\ second \in Seq(BOOLEAN) /\ middle \o second \in Seq(BOOLEAN)
      /\ Alternates(v, middle \o second) /\ End(v, middle \o second) = has
  BY <1>1, <1>3, NotifyExtends
<1>5. middle \o second = calls \o (first \o second)
  BY <1>2, <1>4, ConcatAssociative DEF middle
<1>6. Notified(service, reported, onInterval) = first \o second
  BY DEF Notified, first, told, has
<1> QED
  BY <1>4, <1>5, <1>6 DEF has

\* handleServiceClientCallback as a whole, for a process whose callback is
\* registered.
LEMMA CallsExtend ==
  ASSUME NEW v \in BOOLEAN, NEW calls \in Seq(BOOLEAN), Alternates(v, calls),
         NEW n, NEW service \in Service, NEW callbacks, NEW onInterval \in BOOLEAN,
         End(v, calls) = service.hasClients, server \in callbacks
  PROVE  LET more == calls \o Calls(n, service, callbacks, onInterval)
         IN /\ more \in Seq(BOOLEAN)
            /\ Alternates(v, more)
            /\ End(v, more) = AfterCallback(n, service, callbacks, onInterval).hasClients
<1>1. hasKernelReportedClients(<<n, service.process>>) \in BOOLEAN
  BY DEF hasKernelReportedClients
<1>2. callbacks # {}
  OBVIOUS
<1> QED
  BY <1>1, <1>2, NotifiedExtends DEF Calls, AfterCallback

\* The entry it leaves is one of the same process.
LEMMA AfterCallbackType ==
  ASSUME NEW n, NEW service \in Service, NEW callbacks, NEW onInterval \in BOOLEAN
  PROVE  /\ AfterCallback(n, service, callbacks, onInterval) \in Service
         /\ AfterCallback(n, service, callbacks, onInterval).process = service.process
<1>1. hasKernelReportedClients(<<n, service.process>>) \in BOOLEAN
  BY DEF hasKernelReportedClients
<1>2. \A b \in BOOLEAN : /\ Handled(service, b, onInterval) \in Service
                         /\ Handled(service, b, onInterval).process = service.process
  BY Zenon DEF Handled, Service, Told
<1> QED
  BY <1>1, <1>2, Zenon DEF AfterCallback

\* The calls are Booleans, and a process without a callback gets none.
LEMMA CallsType ==
  ASSUME NEW n, NEW service \in Service, NEW callbacks, NEW onInterval \in BOOLEAN
  PROVE  /\ Calls(n, service, callbacks, onInterval) \in Seq(BOOLEAN)
         /\ server \notin callbacks => Calls(n, service, callbacks, onInterval) = <<>>
<1>1. \A b, a \in BOOLEAN : Notify(b, a) \in Seq(BOOLEAN)
  <2>1. \A a \in BOOLEAN : <<a>> \in Seq(BOOLEAN)
    OBVIOUS
  <2>2. <<>> \in Seq(BOOLEAN)
    OBVIOUS
  <2> QED
    BY <2>1, <2>2, Zenon DEF Notify
<1>2. service.hasClients \in BOOLEAN
  BY DEF Service
<1>3. ASSUME NEW reported \in BOOLEAN
      PROVE  Notified(service, reported, onInterval) \in Seq(BOOLEAN)
  <2>1. /\ Told(service, reported) \in BOOLEAN
        /\ Handled(service, reported, onInterval).hasClients \in BOOLEAN
    BY HandledType, Zenon
  <2>2. /\ Notify(service.hasClients, Told(service, reported)) \in Seq(BOOLEAN)
        /\ Notify(Told(service, reported),
                  Handled(service, reported, onInterval).hasClients) \in Seq(BOOLEAN)
    BY <1>1, <1>2, <2>1
  <2> QED
    BY <2>2, ConcatProperties DEF Notified
<1>4. hasKernelReportedClients(<<n, service.process>>) \in BOOLEAN
  BY DEF hasKernelReportedClients
<1>5. <<>> \in Seq(BOOLEAN)
  OBVIOUS
<1> QED
  BY <1>3, <1>4, <1>5, Zenon DEF Calls

\* Receiving the first of the calls leaves the rest alternating.
LEMMA TailAlternates ==
  ASSUME NEW v \in BOOLEAN, NEW calls \in Seq(BOOLEAN), Alternates(v, calls), calls # <<>>
  PROVE  /\ Head(calls) \in BOOLEAN /\ Head(calls) # v
         /\ Tail(calls) \in Seq(BOOLEAN)
         /\ Alternates(Head(calls), Tail(calls))
         /\ End(Head(calls), Tail(calls)) = End(v, calls)
<1> DEFINE rest == Tail(calls)
<1>1. Len(calls) \in Nat /\ Len(calls) >= 1
  BY EmptySeq, LenProperties
<1>2. /\ Head(calls) \in BOOLEAN /\ Head(calls) = calls[1]
      /\ rest \in Seq(BOOLEAN) /\ Len(rest) = Len(calls) - 1
      /\ \A i \in 1 .. Len(rest) : rest[i] = calls[i + 1]
      /\ rest = <<>> <=> Len(calls) = 1
  <2>1. /\ Head(calls) \in BOOLEAN /\ rest \in Seq(BOOLEAN) /\ Len(rest) = Len(calls) - 1
        /\ \A i \in 1 .. Len(rest) : rest[i] = calls[i + 1]
    BY HeadTailProperties
  <2>2. Head(calls) = calls[1]
    OBVIOUS
  <2>3. rest = <<>> <=> Len(rest) = 0
    BY <2>1, EmptySeq, Zenon
  <2> QED
    BY <1>1, <2>1, <2>2, <2>3
<1> HIDE DEF rest
<1>3. Alternates(Head(calls), rest)
  <2>1. ASSUME rest # <<>> PROVE rest[1] # Head(calls)
    BY <1>1, <1>2, <2>1 DEF Alternates
  <2>2. ASSUME NEW i \in 1 .. Len(rest) - 1 PROVE rest[i + 1] # rest[i]
    <3>1. /\ i \in 1 .. Len(rest) /\ i + 1 \in 1 .. Len(rest)
          /\ i + 1 \in 1 .. Len(calls) - 1
      BY <1>1, <1>2
    <3> QED
      BY <1>2, <3>1 DEF Alternates
  <2> QED
    BY <2>1, <2>2 DEF Alternates
<1>4. End(Head(calls), rest) = End(v, calls)
  <2>1. CASE rest = <<>>
    BY <1>1, <1>2, <2>1 DEF End
  <2>2. CASE rest # <<>>
    BY <1>1, <1>2, <2>2 DEF End
  <2> QED
    BY <2>1, <2>2
<1> QED
  BY <1>2, <1>3, <1>4 DEF Alternates, rest

-----------------------------------------------------------------------------
(***************************************************************************)
(* What a step does to one name.                                           *)
(***************************************************************************)

\* A name's entry after handleServiceClientCallback: a process that knows the
\* name is on its way to what the entry says, any other gets no call.
LEMMA Heard ==
  ASSUME Inv, NEW n \in Names, NEW service \in Service, NEW onInterval \in BOOLEAN,
         n \in Known => (hasClients(n) <=> service.hasClients),
         mRegisteredServices'[n] # None =>
           mRegisteredServices'[n].clients = mRegisteredServices[n].clients,
         mNameToService'[n] \in Service,
         mNameToService'[n].hasClients =
           AfterCallback(n, service, mNameToClientCallback[n], onInterval).hasClients,
         inbox'[n] = inbox[n] \o Calls(n, service, mNameToClientCallback[n], onInterval)
  PROVE  /\ inbox'[n] \in Seq(BOOLEAN)
         /\ n \in Known /\ mRegisteredServices'[n] # None => Told1(n)'
         /\ n \notin Known => inbox'[n] = inbox[n]
<1> DEFINE callbacks == mNameToClientCallback[n]
           more == inbox[n] \o Calls(n, service, callbacks, onInterval)
<1>1. inbox[n] \in Seq(BOOLEAN) /\ callbacks \subseteq Processes
  BY DEF Inv, TypeOK
<1>2. Calls(n, service, callbacks, onInterval) \in Seq(BOOLEAN)
  BY CallsType
<1>3. more \in Seq(BOOLEAN)
  BY <1>1, <1>2, ConcatProperties
<1>4. ASSUME n \notin Known PROVE more = inbox[n]
  <2>1. server \notin callbacks
    BY <1>1, <1>4, NoneAssumption, Zenon DEF Inv, NameInv
  <2>2. Calls(n, service, callbacks, onInterval) = <<>>
    BY <2>1, CallsType
  <2> QED
    BY <1>1, <2>2, ConcatEmptySeq
<1>5. ASSUME n \in Known, mRegisteredServices'[n] # None PROVE Told1(n)'
  <2> DEFINE v == mRegisteredServices[n].clients
             after == AfterCallback(n, service, callbacks, onInterval)
  <2>1. v \in BOOLEAN
    BY <1>5 DEF Inv, TypeOK, Entry, Known
  <2>2. server \in callbacks /\ Told1(n)
    BY <1>5, Zenon DEF Inv, NameInv
  <2>3. /\ Alternates(v, inbox[n])
        /\ End(v, inbox[n]) = hasClients(n)
    BY <2>2 DEF Told1
  <2>4. service.hasClients \in BOOLEAN /\ hasClients(n) \in BOOLEAN
    BY DEF Service, hasClients, Registered, Inv, TypeOK
  <2>5. End(v, inbox[n]) = service.hasClients
    BY <1>5, <2>3, <2>4
  <2>6. Alternates(v, more) /\ End(v, more) = after.hasClients
    BY <1>1, <2>1, <2>2, <2>3, <2>5, CallsExtend
  <2>7. hasClients(n)' = mNameToService'[n].hasClients
    <3>1. mNameToService'[n] # None
      BY NoneAssumption
    <3>2. mNameToService'[n].hasClients \in BOOLEAN
      BY DEF Service
    <3> QED
      BY <3>1, <3>2 DEF hasClients, Registered
  <2> HIDE DEF more
  <2>8. inbox'[n] = more /\ mRegisteredServices'[n].clients = v
    BY <1>5 DEF more
  <2> QED
    BY <2>6, <2>7, <2>8 DEF Told1
<1> QED
  BY <1>3, <1>4, <1>5, Zenon

\* A step of a client or of servicemanager, which leaves the process's own
\* state alone, keeps what the process relies on about a name.
LEMMA ProcessUntouched ==
  ASSUME Inv, NEW n \in Names, UNCHANGED <<lazyVars, server>>,
         server # None => (Mine(n)' <=> Mine(n)),
         n \in Known => (Registered(n)' => Registered(n)),
         n \notin Known => inbox'[n] = inbox[n],
         n \in Known => Told1(n)',
         server \in mNameToClientCallback'[n] <=> server \in mNameToClientCallback[n],
         server # None /\ hasKernelReportedClients(<<n, server>>)' =>
           hasKernelReportedClients(<<n, server>>) \/ Mine(n),
         server # None => <<"service", n, server>> \notin deaths'
  PROVE  NameInv(n)'
<1>1. /\ server' = server /\ phase' = phase /\ remaining' = remaining
      /\ mRegisteredServices' = mRegisteredServices
  BY DEF lazyVars
<1>2. NameInv(n) /\ Known' = Known
  BY <1>1 DEF Inv, Known
<1>3. ASSUME server # None PROVE Agrees(n)'
  BY <1>1, <1>2, <1>3 DEF Agrees, NameInv
<1> QED
  BY <1>1, <1>2, <1>3 DEF NameInv

\* The state about a name that the step does not touch.
LEMMA NameUntouched ==
  ASSUME NEW n \in Names, mNameToService'[n] = mNameToService[n], server' = server,
         mRegisteredServices'[n] = mRegisteredServices[n], inbox'[n] = inbox[n]
  PROVE  /\ Mine(n)' <=> Mine(n)
         /\ Registered(n)' <=> Registered(n)
         /\ Told1(n)' <=> Told1(n)
<1>1. Registered(n)' <=> Registered(n)
  BY DEF Registered
<1>2. Mine(n)' <=> Mine(n)
  BY <1>1 DEF Mine
<1>3. hasClients(n)' = hasClients(n)
  BY DEF Registered, hasClients
<1>4. Told1(n)' <=> Told1(n)
  BY <1>3 DEF Told1
<1> QED
  BY <1>1, <1>2, <1>4

\* A client that gets no new binder adds no use of the process.
LEMMA NoNewUse ==
  ASSUME TypeOK, server # None, NEW n \in Names,
         \A c \in Clients : {mBinder'[c], out'[c]} \subseteq {mBinder[c], out[c], None}
  PROVE  \A b : b = <<n, server>> /\ (\E c \in Clients : b \in {mBinder'[c], out'[c]})
           => hasKernelReportedClients(b)
<1>1. <<n, server>> \in Binders
  BY DEF TypeOK, Binders
<1>2. <<n, server>> # None
  BY <1>1, NoneAssumption
<1> QED
  BY <1>2 DEF hasKernelReportedClients, Uses

\* getService keeps the invariant: the client that gets the process's binder
\* gets it while it is registered.
LEMMA GetServicePreserves ==
  ASSUME Inv, NEW c \in Clients, NEW m \in Names, getService(c, m), UNCHANGED lazyVars
  PROVE  /\ mNameToService' \in [Names -> Service \union {None}]
         /\ inbox' \in [Names -> Seq(BOOLEAN)]
         /\ out' \in [Clients -> Binders \union {None}]
         /\ requested' \in BOOLEAN
         /\ LockInv'
         /\ \A n \in Names : NameInv(n)'
<1> USE DEF Inv
<1>1. CASE ~Registered(m)
  <2>1. /\ requested' = TRUE /\ out' = [out EXCEPT ![c] = None]
        /\ UNCHANGED <<mNameToService, inbox, mNameToRegistrationCallback,
                       mNameToClientCallback, mBinder, server, deaths>>
    BY <1>1 DEF getService
  <2>2. LockInv'
    BY <2>1 DEF LockInv, lazyVars
  <2>3. ASSUME NEW n \in Names PROVE NameInv(n)'
    <3>1. server # None /\ hasKernelReportedClients(<<n, server>>)'
            => hasKernelReportedClients(<<n, server>>)
      <4>1. \A d \in Clients : {mBinder'[d], out'[d]} \subseteq {mBinder[d], out[d], None}
        BY <2>1 DEF TypeOK
      <4> QED
        BY <2>1, <4>1, NoNewUse, Zenon DEF hasKernelReportedClients, Uses
    <3>2. /\ Mine(n)' <=> Mine(n)
          /\ Registered(n)' <=> Registered(n)
          /\ Told1(n)' <=> Told1(n)
      BY <2>1, NameUntouched DEF lazyVars
    <3>3. /\ n \in Known => Told1(n)
          /\ server # None => <<"service", n, server>> \notin deaths
      BY Zenon DEF NameInv
    <3> QED
      BY <2>1, <3>1, <3>2, <3>3, ProcessUntouched
  <2> QED
    BY <2>1, <2>2, <2>3 DEF TypeOK
<1>2. CASE Registered(m)
  <2> DEFINE service == WithGuarantee(mNameToService[m])
             callbacks == mNameToClientCallback[m]
             after == AfterCallback(m, service, callbacks, FALSE)
  <2>1. /\ mNameToService' = [mNameToService EXCEPT ![m] = WithGuarantee(after)]
        /\ inbox' = [inbox EXCEPT ![m] = @ \o Calls(m, service, callbacks, FALSE)]
        /\ out' = [out EXCEPT ![c] = binder(m)]
        /\ UNCHANGED <<requested, mNameToRegistrationCallback,
                       mNameToClientCallback, mBinder, server, deaths>>
    BY <1>2, Zenon DEF getService
  <2>2. mNameToService[m] \in Service
    BY <1>2 DEF TypeOK, Registered
  <2>3. /\ service \in Service /\ service.hasClients = mNameToService[m].hasClients
        /\ service.process = mNameToService[m].process
    BY <2>2, Zenon DEF Service, WithGuarantee
  <2> HIDE DEF service
  <2>4. after \in Service /\ after.process = mNameToService[m].process
    BY <2>3, AfterCallbackType, Zenon
  <2> HIDE DEF after
  <2>5. /\ WithGuarantee(after) \in Service
        /\ WithGuarantee(after).process = mNameToService[m].process
        /\ WithGuarantee(after).hasClients = after.hasClients
    BY <2>4, Zenon DEF Service, WithGuarantee
  <2>6. /\ mNameToService' \in [Names -> Service \union {None}]
        /\ mNameToService'[m] = WithGuarantee(after)
        /\ \A n \in Names \ {m} : mNameToService'[n] = mNameToService[n]
    BY <2>1, <2>5 DEF TypeOK
  <2>7. /\ inbox'[m] = inbox[m] \o Calls(m, service, callbacks, FALSE)
        /\ \A n \in Names \ {m} : inbox'[n] = inbox[n]
    BY <2>1, Zenon DEF TypeOK
  <2>8. hasClients(m) <=> service.hasClients
    BY <1>2, <2>3 DEF hasClients
  <2>9. /\ inbox'[m] \in Seq(BOOLEAN)
        /\ m \in Known => Told1(m)'
        /\ m \notin Known => inbox'[m] = inbox[m]
    <3>1. mRegisteredServices' = mRegisteredServices /\ mNameToService'[m] \in Service
      BY <2>5, <2>6 DEF lazyVars
    <3>2. mNameToService'[m].hasClients = AfterCallback(m, service, callbacks, FALSE).hasClients
      BY <2>5, <2>6, Zenon DEF after
    <3>3. m \in Known => mRegisteredServices'[m] # None
      BY <3>1 DEF Known
    <3> QED
      BY <2>3, <2>7, <2>8, <3>1, <3>2, <3>3, Heard, Zenon
  <2>10. inbox' \in [Names -> Seq(BOOLEAN)]
    BY <2>1, <2>9, Zenon DEF TypeOK
  <2>11. binder(m) \in Binders
    BY <2>2 DEF binder, Binders, Service
  <2>12. LockInv'
    BY <2>1 DEF LockInv, lazyVars
  <2>13. ASSUME NEW n \in Names PROVE NameInv(n)'
    <3>1. hasKernelReportedClients(<<n, server>>)' =>
            hasKernelReportedClients(<<n, server>>) \/ Mine(n)
      BY <1>2, <2>1, Zenon DEF hasKernelReportedClients, Uses, TypeOK, binder, Mine
    <3>2. CASE n = m
      <4>1. Registered(n)' /\ Registered(n)
        BY <1>2, <2>5, <2>6, <3>2, NoneAssumption DEF Registered
      <4>2. Mine(n)' <=> Mine(n)
        BY <2>1, <2>5, <2>6, <3>2, <4>1 DEF Mine
      <4>3. server # None => <<"service", n, server>> \notin deaths
        BY Zenon DEF NameInv
      <4> QED
        BY <2>1, <2>9, <3>1, <3>2, <4>1, <4>2, <4>3, ProcessUntouched, Zenon
    <3>3. CASE n # m
      <4>1. /\ Mine(n)' <=> Mine(n)
            /\ Registered(n)' <=> Registered(n)
            /\ Told1(n)' <=> Told1(n)
        BY <2>1, <2>6, <2>7, <3>3, NameUntouched, Zenon DEF lazyVars
      <4>2. /\ n \in Known => Told1(n)
            /\ server # None => <<"service", n, server>> \notin deaths
        BY Zenon DEF NameInv
      <4> QED
        BY <2>1, <2>7, <3>1, <3>3, <4>1, <4>2, ProcessUntouched, Zenon
    <3> QED
      BY <3>2, <3>3
  <2> QED
    BY <2>1, <2>6, <2>10, <2>11, <2>12, <2>13, Zenon DEF TypeOK
<1> QED
  BY <1>1, <1>2

\* A client's step that changes neither the table nor what the process is told:
\* any binder the client gets is one that is registered.
LEMMA QuietClient ==
  ASSUME Inv, UNCHANGED <<mNameToService, mNameToClientCallback, server, inbox, lazyVars>>,
         \A c \in Clients : \A b \in {mBinder'[c], out'[c]} :
           \/ b \in {mBinder[c], out[c], None}
           \/ \E m \in Names : Registered(m) /\ b = binder(m),
         deaths' \subseteq deaths \union ({"waiter"} \X Clients)
  PROVE  LockInv' /\ \A n \in Names : NameInv(n)'
<1> USE DEF Inv
<1>2. LockInv'
  <2>1. ASSUME server # None PROVE <<"callback", server>> \notin deaths'
    <3>1. \A x \in {"waiter"} \X Clients : x[1] = "waiter"
      OBVIOUS
    <3>2. <<"callback", server>> [1] = "callback"
      OBVIOUS
    <3>3. <<"callback", server>> \notin deaths
      BY <2>1 DEF LockInv
    <3> QED
      BY <3>1, <3>2, <3>3
  <2> QED
    BY <2>1 DEF LockInv, lazyVars
<1>3. ASSUME NEW n \in Names PROVE NameInv(n)'
  <2>1. ASSUME server # None, hasKernelReportedClients(<<n, server>>)'
        PROVE  hasKernelReportedClients(<<n, server>>) \/ Mine(n)
    <3>1. <<n, server>> # None
      BY <2>1, NoneAssumption DEF TypeOK, Binders
    <3>2. PICK c \in Clients : <<n, server>> \in {mBinder'[c], out'[c]}
      BY <2>1 DEF hasKernelReportedClients, Uses
    <3>3. CASE <<n, server>> \in {mBinder[c], out[c]}
      BY <3>3 DEF hasKernelReportedClients, Uses
    <3>4. CASE \E m \in Names : Registered(m) /\ <<n, server>> = binder(m)
      BY <3>4 DEF binder, Mine
    <3> QED
      BY <3>1, <3>2, <3>3, <3>4
  <2>2. /\ Mine(n)' <=> Mine(n)
        /\ Registered(n)' <=> Registered(n)
        /\ Told1(n)' <=> Told1(n)
    BY NameUntouched DEF lazyVars
  <2>3. /\ n \in Known => Told1(n)
        /\ server # None => <<"service", n, server>> \notin deaths
    BY Zenon DEF NameInv
  <2>4. ASSUME server # None PROVE <<"service", n, server>> \notin deaths'
    <3>1. \A x \in {"waiter"} \X Clients : x[1] = "waiter"
      OBVIOUS
    <3>2. <<"service", n, server>> [1] = "service"
      OBVIOUS
    <3> QED
      BY <2>3, <2>4, <3>1, <3>2
  <2> QED
    BY <2>1, <2>2, <2>3, <2>4, ProcessUntouched
<1> QED
  BY <1>2, <1>3

\* Every call a client makes, its death and its restart keep the invariant.
LEMMA ClientPreserves ==
  ASSUME Inv, NEW c \in Clients, UNCHANGED lazyVars, crashes' \in 0 .. MaxCrashes,
         ClientStep(c) \/ Dies(c)
  PROVE  Inv'
<1> USE DEF Inv
<1>0. UNCHANGED <<mRegisteredServices, mForcePersist, phase, remaining, initRunning>>
  BY DEF lazyVars
<1>1. ASSUME NEW n \in Wanted, waitForService(c, n) PROVE Inv'
  <2>1. n \in Names /\ getService(c, n)
    BY <1>1, WantedAssumption DEF waitForService
  <2>2. /\ wants' = [wants EXCEPT ![c] = IF out'[c] # None THEN None ELSE n]
        /\ at' = [at EXCEPT ![c] = IF out'[c] # None THEN "using" ELSE "asked"]
    BY <1>1 DEF waitForService, Goes
  <2>3. /\ mNameToService' \in [Names -> Service \union {None}]
        /\ inbox' \in [Names -> Seq(BOOLEAN)]
        /\ out' \in [Clients -> Binders \union {None}]
        /\ requested' \in BOOLEAN
        /\ LockInv'
        /\ \A m \in Names : NameInv(m)'
    BY <2>1, GetServicePreserves
  <2>4. UNCHANGED <<mNameToRegistrationCallback, mNameToClientCallback, mBinder, server, deaths>>
    BY <2>1 DEF getService
  <2>5. TypeOK'
    BY <1>0, <2>1, <2>2, <2>3, <2>4, Zenon DEF TypeOK, Places
  <2>6. ClientInv'
    BY <2>1, <2>2 DEF ClientInv, TypeOK
  <2> QED
    BY <2>3, <2>5, <2>6
<1>2. ASSUME Retries(c) PROVE Inv'
  <2>1. wants[c] \in Names /\ getService(c, wants[c])
    BY <1>2 DEF Retries, ClientInv
  <2>2. /\ wants' = wants
        /\ at' = [at EXCEPT ![c] = IF out'[c] # None THEN "returning" ELSE "waiting"]
    BY <1>2 DEF Retries, Goes
  <2>3. /\ mNameToService' \in [Names -> Service \union {None}]
        /\ inbox' \in [Names -> Seq(BOOLEAN)]
        /\ out' \in [Clients -> Binders \union {None}]
        /\ requested' \in BOOLEAN
        /\ LockInv'
        /\ \A m \in Names : NameInv(m)'
    BY <2>1, GetServicePreserves
  <2>4. UNCHANGED <<mNameToRegistrationCallback, mNameToClientCallback, mBinder, server, deaths>>
    BY <2>1 DEF getService
  <2>5. TypeOK'
    BY <1>0, <2>1, <2>2, <2>3, <2>4, Zenon DEF TypeOK, Places
  <2>6. ClientInv'
    BY <2>1, <2>2 DEF ClientInv, TypeOK
  <2> QED
    BY <2>3, <2>5, <2>6
<1>3. ASSUME StartWaiting(c) PROVE Inv'
  <2>1. wants[c] \in Names
    BY <1>3 DEF StartWaiting, ClientInv
  <2>2. Registered(wants[c]) => binder(wants[c]) \in Binders
    BY <2>1 DEF TypeOK, Service, Registered, binder, Binders
  <2>3. TypeOK' /\ ClientInv'
    BY <1>0, <1>3, <2>1, <2>2
       DEF StartWaiting, registerForNotifications, Goes, TypeOK, Places, ClientInv
  <2>4. LockInv' /\ \A n \in Names : NameInv(n)'
    <3>1. \A d \in Clients : \A b \in {mBinder'[d], out'[d]} :
            \/ b \in {mBinder[d], out[d], None}
            \/ \E m \in Names : Registered(m) /\ b = binder(m)
      BY <1>3, <2>1 DEF StartWaiting, registerForNotifications, TypeOK
    <3> QED
      BY <1>3, <3>1, QuietClient, Zenon DEF StartWaiting, registerForNotifications
  <2> QED
    BY <2>3, <2>4
<1>4. ASSUME Wakes(c) \/ TimesOut(c) \/ Drops(c) \/ Restarts(c) PROVE Inv'
  <2>1. TypeOK'
    BY <1>0, <1>4, Zenon DEF Wakes, TimesOut, Drops, Restarts, smVars, Goes, TypeOK, Places
  <2>2. ClientInv'
    BY <1>0, <1>4 DEF Wakes, TimesOut, Drops, Restarts, smVars, Goes, TypeOK, ClientInv
  <2>3. \A d \in Clients : {mBinder'[d], out'[d]} \subseteq {mBinder[d], out[d], None}
    BY <1>4 DEF Wakes, TimesOut, Drops, Restarts, smVars, TypeOK
  <2>4. UNCHANGED <<mNameToService, mNameToClientCallback, server, inbox, deaths>>
    BY <1>4, Zenon DEF Wakes, TimesOut, Drops, Restarts, smVars
  <2>5. LockInv' /\ \A n \in Names : NameInv(n)'
    BY <2>3, <2>4, QuietClient, Zenon
  <2> QED
    BY <2>1, <2>2, <2>5
<1>5. ASSUME Returns(c) PROVE Inv'
  <2>1. TypeOK' /\ ClientInv'
    BY <1>0, <1>5 DEF Returns, unregisterForNotifications, Goes, TypeOK, Places, ClientInv
  <2>2. \A d \in Clients : {mBinder'[d], out'[d]} \subseteq {mBinder[d], out[d], None}
    BY <1>5 DEF Returns, TypeOK
  <2>3. LockInv' /\ \A n \in Names : NameInv(n)'
    BY <1>5, <2>2, QuietClient, Zenon DEF Returns, unregisterForNotifications
  <2> QED
    BY <2>1, <2>3
<1>6. ASSUME Dies(c) PROVE Inv'
  <2>1. deaths' \subseteq deaths \union ({"waiter"} \X Clients)
    <3>1. deaths' \subseteq deaths \union {<<"waiter", c>>}
      BY <1>6, Zenon DEF Dies
    <3>2. <<"waiter", c>> \in {"waiter"} \X Clients
      OBVIOUS
    <3> QED
      BY <3>1, <3>2
  <2>2. TypeOK' /\ ClientInv'
    BY <1>0, <1>6, <2>1 DEF Dies, smVars, Goes, TypeOK, Places, ClientInv, Notices
  <2>3. \A d \in Clients : {mBinder'[d], out'[d]} \subseteq {mBinder[d], out[d], None}
    BY <1>6 DEF Dies, TypeOK
  <2>4. LockInv' /\ \A n \in Names : NameInv(n)'
    BY <1>6, <2>1, <2>3, QuietClient DEF Dies, smVars
  <2> QED
    BY <2>2, <2>4
<1> QED
  BY <1>1, <1>2, <1>3, <1>4, <1>5, <1>6 DEF ClientStep

\* The timer and the death notices keep the invariant: a notice about an earlier
\* process takes nothing of the running one away.
LEMMA ManagerPreserves ==
  ASSUME Inv, ManagerStep, UNCHANGED <<lazyVars, clientVars, crashes>>
  PROVE  Inv'
<1> USE DEF Inv
<1>0. UNCHANGED <<mRegisteredServices, mForcePersist, phase, remaining, initRunning, at, wants>>
  BY DEF lazyVars, clientVars
<1>1. ClientInv'
  BY <1>0 DEF ClientInv
<1>2. ASSUME handleClientCallbacks PROVE Inv'
  <2>1. UNCHANGED <<mNameToRegistrationCallback, mNameToClientCallback, mBinder, out, server,
                    deaths, requested>>
    BY <1>2 DEF handleClientCallbacks
  <2>2. ASSUME NEW n \in Names, Registered(n)
        PROVE  /\ mNameToService'[n] = AfterCallback(n, mNameToService[n], mNameToClientCallback[n], TRUE)
               /\ inbox'[n] = inbox[n] \o Calls(n, mNameToService[n], mNameToClientCallback[n], TRUE)
    BY <1>2, <2>2, Zenon DEF handleClientCallbacks
  <2>3. ASSUME NEW n \in Names, ~Registered(n)
        PROVE  mNameToService'[n] = mNameToService[n] /\ inbox'[n] = inbox[n]
    BY <1>2, <2>3 DEF handleClientCallbacks
  <2>4. ASSUME NEW n \in Names, Registered(n)
        PROVE  /\ mNameToService'[n] \in Service
               /\ mNameToService'[n].process = mNameToService[n].process
               /\ inbox'[n] \in Seq(BOOLEAN)
               /\ n \in Known => Told1(n)'
               /\ n \notin Known => inbox'[n] = inbox[n]
    <3>1. mNameToService[n] \in Service
      BY <2>4 DEF TypeOK, Registered
    <3>2. /\ mNameToService'[n] \in Service
          /\ mNameToService'[n].process = mNameToService[n].process
      <4> DEFINE after == AfterCallback(n, mNameToService[n], mNameToClientCallback[n], TRUE)
      <4>1. after \in Service /\ after.process = mNameToService[n].process
        BY <3>1, AfterCallbackType, Zenon
      <4>2. mNameToService'[n] = after
        BY <2>2, <2>4, Zenon
      <4> QED
        BY <4>1, <4>2, Zenon
    <3>3. hasClients(n) <=> mNameToService[n].hasClients
      BY <2>4 DEF hasClients
    <3>4. n \in Known => mRegisteredServices'[n] # None
      BY <1>0 DEF Known
    <3> QED
      BY <1>0, <2>2, <2>4, <3>1, <3>2, <3>3, <3>4, Heard, Zenon
  <2>5. TypeOK'
    <3>1. mNameToService' \in [Names -> Service \union {None}]
      <4>1. \A n \in Names : mNameToService'[n] \in Service \union {None}
        BY <2>3, <2>4 DEF TypeOK
      <4>2. mNameToService' = [n \in Names |-> mNameToService'[n]]
        BY <1>2 DEF handleClientCallbacks
      <4> QED
        BY <4>1, <4>2
    <3>2. inbox' \in [Names -> Seq(BOOLEAN)]
      <4>1. \A n \in Names : inbox'[n] \in Seq(BOOLEAN)
        BY <2>3, <2>4 DEF TypeOK
      <4>2. inbox' = [n \in Names |-> inbox'[n]]
        BY <1>2 DEF handleClientCallbacks
      <4> QED
        BY <4>1, <4>2
    <3> QED
      BY <1>0, <2>1, <3>1, <3>2 DEF TypeOK
  <2>6. LockInv'
    BY <1>0, <2>1 DEF LockInv
  <2>7. ASSUME NEW n \in Names PROVE NameInv(n)'
    <3>1. hasKernelReportedClients(<<n, server>>)' => hasKernelReportedClients(<<n, server>>)
      BY <2>1 DEF hasKernelReportedClients, Uses
    <3>2. server # None => <<"service", n, server>> \notin deaths'
      BY <2>1, Zenon DEF NameInv
    <3>3. CASE Registered(n)
      <4>1. Registered(n)' /\ (Mine(n)' <=> Mine(n))
        BY <2>1, <2>4, <3>3, NoneAssumption DEF Registered, Mine
      <4> QED
        BY <2>1, <2>4, <3>1, <3>2, <3>3, <4>1, ProcessUntouched
    <3>4. CASE ~Registered(n)
      <4>1. /\ Mine(n)' <=> Mine(n)
            /\ Registered(n)' <=> Registered(n)
            /\ Told1(n)' <=> Told1(n)
        BY <1>0, <2>1, <2>3, <3>4, NameUntouched
      <4>2. n \in Known => Told1(n)
        BY Zenon DEF NameInv
      <4> QED
        BY <2>1, <2>3, <3>1, <3>2, <3>4, <4>1, <4>2, ProcessUntouched
    <3> QED
      BY <3>3, <3>4
  <2> QED
    BY <1>1, <2>5, <2>6, <2>7
<1>3. ASSUME NEW who \in deaths, binderDied(who) PROVE Inv'
  <2>1. /\ deaths' \subseteq deaths
        /\ UNCHANGED <<mBinder, out, server, inbox, requested>>
    BY <1>3 DEF binderDied
  <2>2. /\ mNameToService' = [n \in Names |->
             IF Registered(n) /\ Removes(who, n) THEN None ELSE mNameToService[n]]
        /\ mNameToRegistrationCallback' = [n \in Names |->
             {c \in mNameToRegistrationCallback[n] : who # <<"waiter", c>>}]
        /\ mNameToClientCallback' = [n \in Names |->
             {p \in mNameToClientCallback[n] : who # <<"callback", p>>}]
    BY <1>3 DEF binderDied
  <2>3. TypeOK'
    <3>1. mNameToService' \in [Names -> Service \union {None}]
      BY <2>2 DEF TypeOK
    <3>2. mNameToRegistrationCallback' \in [Names -> SUBSET Clients]
      BY <2>2 DEF TypeOK
    <3>3. mNameToClientCallback' \in [Names -> SUBSET Processes]
      BY <2>2 DEF TypeOK
    <3> QED
      BY <1>0, <2>1, <3>1, <3>2, <3>3 DEF TypeOK
  <2>4. LockInv'
    BY <1>0, <2>1 DEF LockInv
  <2>5. ASSUME NEW n \in Names PROVE NameInv(n)'
    <3>1. hasKernelReportedClients(<<n, server>>)' => hasKernelReportedClients(<<n, server>>)
      BY <2>1 DEF hasKernelReportedClients, Uses
    <3>2. ASSUME server # None
          PROVE  /\ <<"service", n, server>> \notin deaths' /\ who # <<"service", n, server>>
                 /\ who # <<"callback", server>>
      BY <1>3, <2>1, <3>2, Zenon DEF NameInv, LockInv
    <3>3. server \in mNameToClientCallback'[n] <=> server \in mNameToClientCallback[n]
      <4>1. mNameToClientCallback'[n] =
              {p \in mNameToClientCallback[n] : who # <<"callback", p>>}
        BY <2>2
      <4>2. server = None => server \notin mNameToClientCallback[n]
        BY NoneAssumption DEF TypeOK
      <4> QED
        BY <3>2, <4>1, <4>2
    <3>4. mNameToService'[n] \in {mNameToService[n], None}
      BY <2>2
    <3>5. Registered(n)' => Registered(n) /\ mNameToService'[n] = mNameToService[n]
      BY <3>4 DEF Registered
    <3>6. ASSUME server # None, Mine(n)
          PROVE  mNameToService'[n] = mNameToService[n]
      BY <2>2, <3>2, <3>6 DEF Mine, Removes
    <3>7. server # None => (Mine(n)' <=> Mine(n))
      BY <2>1, <3>5, <3>6 DEF Mine, Registered
    <3>8. ASSUME n \in Known PROVE Told1(n)'
      <4>1. server # None /\ Agrees(n) /\ Told1(n)
        BY <3>8, Zenon DEF NameInv
      <4>2. Registered(n) => Mine(n)
        BY <3>8, <4>1 DEF Agrees
      <4>3. mNameToService'[n] = mNameToService[n]
        BY <3>4, <3>6, <4>1, <4>2 DEF Registered
      <4> QED
        BY <1>0, <2>1, <4>1, <4>3, NameUntouched
    <3> QED
      BY <2>1, <3>1, <3>2, <3>3, <3>5, <3>7, <3>8, ProcessUntouched
  <2> QED
    BY <1>1, <2>3, <2>4, <2>5
<1> QED
  BY <1>2, <1>3 DEF ManagerStep

=============================================================================
