-------------------------- MODULE ErrorLibraryProofs --------------------------
(***************************************************************************)
(* What ErrorLibrary promises, for every set of children, all environments *)
(* of the programs, every set of ports and all packets that can be sent:   *)
(* which settings are in force, what is lost, what is damaged and noticed, *)
(* and that it makes no other faults than FaultModel.                      *)
(***************************************************************************)
EXTENDS ErrorLibrary, ChecksumProofs, FiniteSetTheorems

NoneOf(events, kind) == \A i \in DOMAIN events : events[i].kind # kind
OneOf(events, kind) ==
    \E i \in DOMAIN events : \A j \in DOMAIN events : events[j].kind = kind <=> j = i

\* Where its environment names one, a child is bound to that port or to none.
PortInv ==
    \A c \in Children : WantedPort(Server) # 0 => port[c] \in {0, WantedPort(Server)}

\* A process counts its own packets only.
CountInv ==
    \A p \in Process :
        /\ msgNo[p] = Len(outcomes[p])
        /\ outcomes[p] # <<>> => p # Server /\ phase[p] \in {"ready", "exited"}

\* The numbers in force: what the environment says, if anything.
NumbersOf(p) ==
    /\ IsSet(Env(p).rate) => errorRate[p] = Env(p).rate
    /\ IsSet(Env(p).debug) => debug[p] = Env(p).debug
    /\ IsSet(Env(p).seed) => seed[p] = "environment"
NumbersInv == \A p \in Process : phase[p] # "none" => NumbersOf(p)

\* The events on every packet: the listed drops first, if the process was
\* loaded and there are any, and then reports.
ConstantOf(p, loaded) ==
    /\ \A i \in DOMAIN constant[p] :
         \/ constant[p][i].kind = "info"
         \/ /\ GivesList(Env(p).drop) /\ i = 1
            /\ constant[p][i].kind = "drop" /\ ~constant[p][i].all
            /\ constant[p][i].list = Numbers(Env(p).drop)
    /\ GivesList(Env(p).drop) /\ loaded =>
         1 \in DOMAIN constant[p] /\ constant[p][1].kind = "drop"
ConstantInv == \A p \in Process : ConstantOf(p, phase[p] # "none")

\* The errors at random, and the processes whose packets may be corrupted.
Flipping(p) == GivesRandom(Env(p).flip) \/ (p \in Children /\ Env(p).flip = Unset)
ChanceOf(p, loaded) ==
    /\ GivesList(Env(p).drop) => NoneOf(chance[p], "drop")
    /\ GivesRandom(Env(p).drop) /\ loaded => OneOf(chance[p], "drop")
    /\ ~Flipping(p) => NoneOf(chance[p], "flip")
    /\ GivesRandom(Env(p).flip) /\ loaded => OneOf(chance[p], "flip")
ChanceInv == \A p \in Process : ChanceOf(p, phase[p] # "none")

SettingsInv == NumbersInv /\ ConstantInv /\ ChanceInv

-----------------------------------------------------------------------------
(* Types.                                                                  *)

LEMMA Processes ==
    /\ \A p \in Programs : p \in Process
    /\ \A c \in Children : c \in Process /\ c # Server /\ c # Rcopy
    /\ Rcopy \in Programs /\ Server \in Programs /\ Rcopy # Server
    /\ \A p \in Process : p \in Children \/ p = Rcopy \/ p = Server
BY ProcessAssumption DEF Process, Programs

LEMMA EnvType ==
    ASSUME environment \in Environments, NEW p \in Process
    PROVE  /\ Env(p).port \in Number /\ Env(p).debug \in Number
           /\ Env(p).rate \in Number /\ Env(p).seed \in Number
           /\ Env(p).drop \in List /\ Env(p).flip \in List
<1>1. environment \in [Programs -> Environment]
  BY LibraryAssumption
<1>2. Env(p) \in Environment
  BY <1>1, Processes DEF Env
<1> QED  BY <1>2 DEF Environment

LEMMA IsSetType ==
    ASSUME NEW number \in Number, IsSet(number)
    PROVE  number \in Int
BY DEF Number, IsSet

LEMMA NumbersType ==
    ASSUME NEW list \in List, list # Unset
    PROVE  Numbers(list) \in SUBSET Nat
<1> SUFFICES ASSUME NEW j \in DOMAIN list, list[j] # NoNumber, list[j] >= 0
             PROVE  list[j] \in Nat
  <2>1. list \in Seq(Int \cup {NoNumber})
    BY DEF List
  <2>2. \A j \in DOMAIN list : j \in 1..j
    BY <2>1
  <2> QED  BY <2>2 DEF Numbers
<1>1. list \in Seq(Int \cup {NoNumber})
  BY DEF List
<1>2. list[j] \in Int
  BY <1>1
<1> QED  BY <1>2

LEMMA EventType ==
    /\ \A all \in BOOLEAN, list \in SUBSET Nat : errorDrop(all, list) \in Event
    /\ errorFlipBits \in Event
    /\ infoSeqNo \in Event
BY DEF Event, errorDrop, errorFlipBits, infoSeqNo

\* The events run change their counters and nothing else.
LEMMA AfterRunType ==
    ASSUME NEW events \in Seq(Event), NEW no
    PROVE  /\ AfterRun(events, no) \in Seq(Event)
           /\ DOMAIN AfterRun(events, no) = DOMAIN events
           /\ \A i \in DOMAIN events :
                /\ AfterRun(events, no)[i].kind = events[i].kind
                /\ AfterRun(events, no)[i].all = events[i].all
                /\ AfterRun(events, no)[i].list = events[i].list
                /\ AfterRun(events, no)[i].seen =
                     IF events[i].kind = "info" /\ Reached(events, no, i)
                     THEN events[i].seen + 1 ELSE events[i].seen
<1> DEFINE run == AfterRun(events, no)
<1>1. DOMAIN run = DOMAIN events
  BY DEF AfterRun
<1>2. ASSUME NEW i \in DOMAIN events
      PROVE  /\ run[i] \in Event
             /\ run[i].kind = events[i].kind
             /\ run[i].all = events[i].all /\ run[i].list = events[i].list
             /\ run[i].seen = IF events[i].kind = "info" /\ Reached(events, no, i)
                              THEN events[i].seen + 1 ELSE events[i].seen
  <2>1. events[i] \in Event
    OBVIOUS
  <2>2. CASE events[i].kind = "info" /\ Reached(events, no, i)
    <3>1. run[i] = [events[i] EXCEPT !.seen = @ + 1]
      BY <2>2 DEF AfterRun
    <3> QED  BY <2>1, <2>2, <3>1 DEF Event
  <2>3. CASE ~(events[i].kind = "info" /\ Reached(events, no, i))
    <3>1. run[i] = events[i]
      BY <2>3 DEF AfterRun
    <3> QED  BY <2>1, <2>3, <3>1
  <2> QED  BY <2>2, <2>3
<1>3. run \in Seq(Event)
  <2>1. PICK n \in Nat : DOMAIN events = 1..n
    OBVIOUS
  <2>2. run = [i \in 1..n |-> run[i]]
    BY <1>1, <2>1 DEF AfterRun
  <2>3. run \in [1..n -> Event]
    BY <1>2, <2>1, <2>2
  <2> QED  BY <2>3
<1> QED  BY <1>1, <1>2, <1>3

LEMMA ListsOfEvents ==
    ASSUME NEW event \in Event
    PROVE  <<>> \in Seq(Event) /\ <<event>> \in Seq(Event)
OBVIOUS

\* What loadEnvData and sendErr_init make of the settings of one process.
SettingsType(p) ==
    /\ errorRate' \in [Process -> Int] /\ debug' \in [Process -> Int]
    /\ seed' \in [Process -> {"time", "fork", "environment"}]
    /\ constant' \in [Process -> Seq(Event)] /\ chance' \in [Process -> Seq(Event)]

LEMMA LoadEnvDataType ==
    ASSUME TypeOK, NEW p \in Process, LoadEnvData(p)
    PROVE  SettingsType(p)
<1> DEFINE e == Env(p)
<1>1. /\ IsSet(e.rate) => e.rate \in Int
      /\ IsSet(e.debug) => e.debug \in Int
  BY EnvType, IsSetType DEF TypeOK
<1>2. GivesList(e.drop) => errorDrop(FALSE, Numbers(e.drop)) \in Event
  BY EnvType, NumbersType, EventType DEF TypeOK, GivesList
<1>3. errorDrop(TRUE, {}) \in Event /\ errorFlipBits \in Event
  BY EventType
<1> HIDE DEF e
<1>4. errorRate' \in [Process -> Int] /\ debug' \in [Process -> Int]
  BY <1>1 DEF TypeOK, LoadEnvData, e
<1>5. seed' \in [Process -> {"time", "fork", "environment"}]
  BY DEF TypeOK, LoadEnvData
<1>6. constant' \in [Process -> Seq(Event)]
  <2>1. (IF GivesList(e.drop) THEN <<errorDrop(FALSE, Numbers(e.drop))>> ELSE <<>>)
          \in Seq(Event)
    <3>1. CASE GivesList(e.drop)
      BY <1>2, <3>1, ListsOfEvents
    <3>2. CASE ~GivesList(e.drop)
      BY <1>3, <3>2, ListsOfEvents
    <3> QED  BY <3>1, <3>2
  <2> QED  BY <2>1 DEF TypeOK, LoadEnvData, e
<1>7. chance' \in [Process -> Seq(Event)]
  <2> DEFINE drops == IF GivesRandom(e.drop) THEN <<errorDrop(TRUE, {})>> ELSE <<>>
             flips == IF GivesRandom(e.flip) THEN <<errorFlipBits>> ELSE <<>>
  <2>1. drops \in Seq(Event)
    BY <1>3, ListsOfEvents
  <2>2. flips \in Seq(Event)
    BY <1>3, ListsOfEvents
  <2>3. chance' = [chance EXCEPT ![p] = drops \o flips]
    BY DEF LoadEnvData, e
  <2> HIDE DEF drops, flips
  <2>4. drops \o flips \in Seq(Event)
    BY <2>1, <2>2
  <2> QED  BY <2>3, <2>4 DEF TypeOK
<1> QED  BY <1>4, <1>5, <1>6, <1>7 DEF SettingsType

LEMMA AppendEvent ==
    ASSUME NEW events \in Seq(Event), NEW event \in Event
    PROVE  Append(events, event) \in Seq(Event)
OBVIOUS

LEMMA SendErrInitType ==
    ASSUME TypeOK, NEW p \in Process, NEW flip \in BOOLEAN, SendErrInit(p, flip)
    PROVE  SettingsType(p)
<1> DEFINE e == Env(p)
           drops == Append(chance[p], errorDrop(TRUE, {}))
           events == UserMode(e.drop # Unset, drops, chance[p])
           flips == events \o FlipEvents(flip)
<1>1. AskedRate \in Int
  BY LibraryAssumption
<1>2. errorRate' \in [Process -> Int] /\ debug' \in [Process -> Int]
  BY <1>1 DEF TypeOK, SendErrInit, UserMode
<1>3. seed' \in [Process -> {"time", "fork", "environment"}]
  BY DEF TypeOK, SendErrInit, UserMode
<1>4. constant' \in [Process -> Seq(Event)]
  BY EventType DEF TypeOK, SendErrInit
<1>5. chance[p] \in Seq(Event) /\ drops \in Seq(Event)
  <2>1. chance[p] \in Seq(Event)
    BY DEF TypeOK
  <2>2. errorDrop(TRUE, {}) \in Event
    BY EventType
  <2>3. drops \in Seq(Event)
    BY <2>1, <2>2, AppendEvent
  <2> QED  BY <2>1, <2>3
<1> HIDE DEF drops
<1>6. events \in Seq(Event)
  BY <1>5 DEF UserMode
<1> HIDE DEF events
<1>7. FlipEvents(flip) \in Seq(Event)
  BY EventType, ListsOfEvents DEF FlipEvents
<1>8. flips \in Seq(Event)
  BY <1>6, <1>7
<1>9. chance' = [chance EXCEPT ![p] = UserMode(e.flip # Unset, flips, events)]
  BY DEF SendErrInit, events, drops
<1> HIDE DEF flips
<1>10. UserMode(e.flip # Unset, flips, events) \in Seq(Event)
  BY <1>6, <1>8 DEF UserMode
<1>11. chance' \in [Process -> Seq(Event)]
  BY <1>9, <1>10 DEF TypeOK
<1> QED  BY <1>2, <1>3, <1>4, <1>11 DEF SettingsType

\* A bind gives a free port to one process, or none and changes nothing.
LEMMA BindsType ==
    ASSUME TypeOK, NEW p \in Process, NEW bindable \in SUBSET FreePorts, Binds(p, bindable)
    PROVE  /\ port' \in [Process -> Ports \cup {0}]
           /\ UNCHANGED port \/ \E n \in bindable : port' = [port EXCEPT ![p] = n]
BY DEF TypeOK, Binds, FreePorts

LEMMA InheritType ==
    ASSUME NEW T, NEW f \in [Process -> T], NEW c \in Process
    PROVE  Inherit(f, c) \in [Process -> T]
BY Processes DEF Inherit

LEMMA TypeStep ==
    ASSUME TypeOK, [Next]_vars
    PROVE  TypeOK'
<1>1. ASSUME NEW p \in Programs, Start(p)
      PROVE  TypeOK'
  <2>1. p \in Process /\ LoadEnvData(p)
    BY <1>1, Processes DEF Start
  <2>2. SettingsType(p)
    BY <2>1, LoadEnvDataType
  <2> QED  BY <1>1, <2>1, <2>2 DEF Start, TypeOK, SettingsType
<1>2. CASE RcopyInit
  <2>1. Rcopy \in Process /\ SendErrInit(Rcopy, FALSE)
    BY <1>2, Processes DEF RcopyInit
  <2>2. SettingsType(Rcopy)
    BY <2>1, SendErrInitType
  <2> QED  BY <1>2, <2>1, <2>2 DEF RcopyInit, TypeOK, SettingsType
<1>3. CASE ServerInit
  <2>1. Server \in Process
    BY Processes
  <2>2. port' \in [Process -> Ports \cup {0}]
    BY <1>3, <2>1, BindsType DEF ServerInit
  <2>3. CASE port'[Server] = 0
    BY <1>3, <2>1, <2>2, <2>3 DEF ServerInit, TypeOK, settings
  <2>4. CASE port'[Server] # 0
    <3>1. SettingsType(Server)
      BY <1>3, <2>1, <2>4, SendErrInitType DEF ServerInit
    <3> QED  BY <1>3, <2>1, <2>2, <2>4, <3>1 DEF ServerInit, TypeOK, SettingsType
  <2> QED  BY <2>3, <2>4
<1>4. ASSUME NEW c \in Children, ServerForks(c)
      PROVE  TypeOK'
  <2>1. c \in Process /\ Server \in Process
    BY Processes
  <2>2. /\ errorRate' \in [Process -> Int] /\ debug' \in [Process -> Int]
        /\ constant' \in [Process -> Seq(Event)] /\ chance' \in [Process -> Seq(Event)]
        /\ msgNo' \in [Process -> Nat]
    BY <1>4, <2>1, InheritType DEF ServerForks, TypeOK
  <2>3. seed' \in [Process -> {"time", "fork", "environment"}]
    BY <1>4, <2>1 DEF ServerForks, TypeOK, UserMode
  <2> QED  BY <1>4, <2>1, <2>2, <2>3 DEF ServerForks, TypeOK
<1>5. ASSUME NEW c \in Children, ChildInfo(c)
      PROVE  TypeOK'
  <2>1. c \in Process /\ Bindable(c) \in SUBSET FreePorts
    BY Processes DEF Bindable
  <2>2. port' \in [Process -> Ports \cup {0}]
    BY <1>5, <2>1, BindsType DEF ChildInfo
  <2>3. CASE port'[c] = 0
    BY <1>5, <2>1, <2>2, <2>3 DEF ChildInfo, TypeOK, settings
  <2>4. CASE port'[c] # 0
    <3>1. SettingsType(c)
      BY <1>5, <2>1, <2>4, SendErrInitType DEF ChildInfo
    <3> QED  BY <1>5, <2>1, <2>2, <2>4, <3>1 DEF ChildInfo, TypeOK, SettingsType
  <2> QED  BY <2>3, <2>4
<1>6. ASSUME NEW c \in Children, ChildExits(c)
      PROVE  TypeOK'
  BY <1>6, Processes DEF ChildExits, TypeOK, settings
<1>7. ASSUME NEW p \in Senders, SendtoErr(p)
      PROVE  TypeOK'
  <2>1. p \in Process
    BY DEF Senders
  <2>2. constant' \in [Process -> Seq(Event)]
    BY <1>7, <2>1, AfterRunType DEF SendtoErr, TypeOK
  <2>3. outcomes' \in [Process -> Seq({"lost", "damaged", "intact"})]
    <3>1. PICK x \in {"lost", "damaged", "intact"} :
            outcomes' = [outcomes EXCEPT ![p] = Append(@, x)]
      BY <1>7 DEF SendtoErr
    <3> QED  BY <2>1, <3>1 DEF TypeOK
  <2>4. msgNo' \in [Process -> Nat]
    BY <1>7, <2>1 DEF SendtoErr, TypeOK
  <2> QED  BY <1>7, <2>2, <2>3, <2>4 DEF SendtoErr, TypeOK
<1>8. CASE UNCHANGED vars
  BY <1>8 DEF vars, settings, TypeOK
<1> QED  BY <1>1, <1>2, <1>3, <1>4, <1>5, <1>6, <1>7, <1>8 DEF Next

LEMMA TypeInit == Init => TypeOK
BY DEF Init, TypeOK

\* The settings, counters, ports and outcomes keep their types.
THEOREM Typed == Spec => []TypeOK
BY TypeInit, TypeStep, PTL DEF Spec

-----------------------------------------------------------------------------
(* The corrupted packets.                                                  *)

LEMMA Packets ==
    ASSUME NEW body \in Bodies
    PROVE  /\ Sendable(WithChecksum(body)) /\ WithChecksum(body) # Nothing
           /\ in_cksum(WithChecksum(body)) = 0
<1>1. Sendable(body)
  BY LibraryAssumption DEF Sendable
<1>2. Sendable(WithChecksum(body)) /\ in_cksum(WithChecksum(body)) = 0
  BY <1>1, Accepted
<1>3. WithChecksum(body) # Nothing
  BY <1>2 DEF Sendable, FlagAt, Nothing
<1> QED  BY <1>2, <1>3

LEMMA Flips ==
    ASSUME NEW packet, Sendable(packet), in_cksum(packet) = 0, NEW i \in DOMAIN packet
    PROVE  /\ FlipByte(packet, i) # packet /\ FlipByte(packet, i) # Nothing
           /\ in_cksum(FlipByte(packet, i)) # 0
<1>1. i \in 1..Len(packet) /\ Len(packet) >= 7
  BY DEF Sendable, FlagAt
<1>2. Len(FlipByte(packet, i)) = Len(packet)
  BY <1>1, Refused
<1>3. FlipByte(packet, i) # Nothing
  BY <1>1, <1>2 DEF Nothing
<1> QED  BY <1>1, <1>3, Refused

\* What sendtoErr leaves of a packet: it, nothing, or a copy its receiver
\* refuses.
LEMMA ArrivalOf ==
    ASSUME NEW p, NEW body \in Bodies, NEW no, NEW drawn,
           NEW got \in Arrivals(p, WithChecksum(body), no, drawn)
    PROVE  \/ got = Nothing
           \/ got = WithChecksum(body) /\ in_cksum(got) = 0
           \/ /\ got # Nothing /\ got # WithChecksum(body) /\ in_cksum(got) # 0
              /\ \E k \in DOMAIN chance[p] : chance[p][k].kind = "flip"
<1> DEFINE packet == WithChecksum(body)
<1>1. Sendable(packet) /\ packet # Nothing /\ in_cksum(packet) = 0
  BY Packets
<1>2. \/ got = Nothing \/ got = packet
      \/ \E k \in DOMAIN chance[p] : got \in Struck(chance[p][k], packet, no)
  BY DEF Arrivals
<1>3. ASSUME NEW k \in DOMAIN chance[p], got \in Struck(chance[p][k], packet, no)
      PROVE  \/ got = Nothing \/ got = packet
             \/ /\ chance[p][k].kind = "flip"
                /\ \E i \in DOMAIN packet : got = FlipByte(packet, i)
  BY <1>3 DEF Struck
<1> HIDE DEF packet
<1>4. ASSUME NEW i \in DOMAIN packet, got = FlipByte(packet, i)
      PROVE  got # Nothing /\ got # packet /\ in_cksum(got) # 0
  BY <1>1, <1>4, Flips
<1>5. \/ got = Nothing
      \/ got = packet /\ in_cksum(got) = 0
      \/ /\ got # Nothing /\ got # packet /\ in_cksum(got) # 0
         /\ \E k \in DOMAIN chance[p] : chance[p][k].kind = "flip"
  BY <1>1, <1>2, <1>3, <1>4
<1> QED  BY <1>5 DEF packet

\* The packet sent last, and what arrives of it.
LEMMA LastOf ==
    ASSUME NEW p \in Senders, SendtoErr(p)
    PROVE  \E body \in Bodies : \E got :
             /\ last' = [from |-> p, sent |-> WithChecksum(body), got |-> got]
             /\ \/ got = Nothing
                \/ got = WithChecksum(body) /\ in_cksum(got) = 0
                \/ /\ got # Nothing /\ got # WithChecksum(body) /\ in_cksum(got) # 0
                   /\ \E k \in DOMAIN chance[p] : chance[p][k].kind = "flip"
<1>1. PICK body \in Bodies, drawn \in 0..(RateOne - 1) :
        \E got \in Arrivals(p, WithChecksum(body), msgNo'[p], drawn) :
           last' = [from |-> p, sent |-> WithChecksum(body), got |-> got]
  BY DEF SendtoErr
<1>2. PICK got \in Arrivals(p, WithChecksum(body), msgNo'[p], drawn) :
        last' = [from |-> p, sent |-> WithChecksum(body), got |-> got]
  BY <1>1
<1> QED  BY <1>2, ArrivalOf

LEMMA LastKept ==
    ASSUME [Next]_vars
    PROVE  UNCHANGED last \/ \E p \in Senders : SendtoErr(p)
BY DEF Next, vars, Start, RcopyInit, ServerInit, ServerForks, ChildInfo, ChildExits

\* The receiver's checksum refuses every packet the library inverts a byte of,
\* and accepts every packet it does not.
THEOREM NoDamageUnnoticed == Spec => []DamageNoticed
<1>1. Init => DamageNoticed
  BY DEF Init, DamageNoticed
<1>2. DamageNoticed /\ [Next]_vars => DamageNoticed'
  <2> SUFFICES ASSUME DamageNoticed, [Next]_vars
               PROVE  DamageNoticed'
    OBVIOUS
  <2>1. CASE UNCHANGED last
    BY <2>1 DEF DamageNoticed
  <2>2. ASSUME NEW p \in Senders, SendtoErr(p)
        PROVE  DamageNoticed'
    <3>1. \E packet, got :
             /\ last' = [from |-> p, sent |-> packet, got |-> got]
             /\ \/ got = Nothing
                \/ got = packet /\ in_cksum(got) = 0
                \/ got # Nothing /\ got # packet /\ in_cksum(got) # 0
      BY <2>2, LastOf
    <3>2. PICK packet, got :
             /\ last' = [from |-> p, sent |-> packet, got |-> got]
             /\ \/ got = Nothing
                \/ got = packet /\ in_cksum(got) = 0
                \/ got # Nothing /\ got # packet /\ in_cksum(got) # 0
      BY <3>1
    <3>3. last'.got = got /\ last'.sent = packet
      BY <3>2
    <3> QED  BY <3>2, <3>3 DEF DamageNoticed
  <2> QED  BY <2>1, <2>2, LastKept
<1> QED  BY <1>1, <1>2, PTL DEF Spec

-----------------------------------------------------------------------------
(* The ports.                                                              *)

LEMMA PortChanges ==
    ASSUME TypeOK, [Next]_vars
    PROVE  /\ UNCHANGED environment
           /\ \/ UNCHANGED port
              \/ \E n \in FreePorts : port' = [port EXCEPT ![Server] = n]
              \/ \E c \in Children : \E n \in Bindable(c) : port' = [port EXCEPT ![c] = n]
              \/ \E c \in Children : port' = [port EXCEPT ![c] = 0]
<1>1. ASSUME NEW p \in Programs, Start(p)
      PROVE  UNCHANGED <<environment, port>>
  BY <1>1 DEF Start
<1>2. CASE RcopyInit
  BY <1>2 DEF RcopyInit
<1>3. CASE ServerInit
  BY <1>3 DEF ServerInit, Binds
<1>4. ASSUME NEW c \in Children, ServerForks(c)
      PROVE  UNCHANGED <<environment, port>>
  BY <1>4 DEF ServerForks
<1>5. ASSUME NEW c \in Children, ChildInfo(c)
      PROVE  /\ UNCHANGED environment
             /\ UNCHANGED port \/ \E n \in Bindable(c) : port' = [port EXCEPT ![c] = n]
  BY <1>5 DEF ChildInfo, Binds
<1>6. ASSUME NEW c \in Children, ChildExits(c)
      PROVE  UNCHANGED environment /\ port' = [port EXCEPT ![c] = 0]
  BY <1>6 DEF ChildExits
<1>7. ASSUME NEW p \in Senders, SendtoErr(p)
      PROVE  UNCHANGED <<environment, port>>
  BY <1>7 DEF SendtoErr
<1>8. CASE UNCHANGED vars
  BY <1>8 DEF vars
<1> QED  BY <1>1, <1>2, <1>3, <1>4, <1>5, <1>6, <1>7, <1>8 DEF Next

LEMMA PortStep ==
    ASSUME TypeOK, PortInv, [Next]_vars
    PROVE  PortInv'
<1>1. port \in [Process -> Ports \cup {0}]
  BY DEF TypeOK
<1>2. UNCHANGED environment
  BY PortChanges
<1>3. WantedPort(Server)' = WantedPort(Server)
  BY <1>2 DEF WantedPort, Env
<1>4. \A c \in Children : WantedPort(c) = WantedPort(Server)
  BY Processes DEF WantedPort, Env
<1>5. CASE UNCHANGED port
  BY <1>3, <1>5 DEF PortInv
<1>6. ASSUME NEW n \in FreePorts, port' = [port EXCEPT ![Server] = n]
      PROVE  PortInv'
  <2>1. \A c \in Children : port'[c] = port[c]
    BY <1>1, <1>6, Processes
  <2> QED  BY <1>3, <2>1 DEF PortInv
<1>7. ASSUME NEW c \in Children, NEW n \in Bindable(c), port' = [port EXCEPT ![c] = n]
      PROVE  PortInv'
  <2>1. WantedPort(Server) # 0 => n = WantedPort(Server)
    BY <1>4 DEF Bindable
  <2> QED  BY <1>1, <1>3, <1>7, <2>1, Processes DEF PortInv
<1>8. ASSUME NEW c \in Children, port' = [port EXCEPT ![c] = 0]
      PROVE  PortInv'
  BY <1>1, <1>3, <1>8, Processes DEF PortInv
<1> QED  BY <1>5, <1>6, <1>7, <1>8, PortChanges

LEMMA PortHolds == Spec => []PortInv
<1>1. Init => PortInv
  BY Processes DEF Init, PortInv
<1> QED  BY <1>1, PortStep, Typed, PTL DEF Spec

-----------------------------------------------------------------------------
(* The counters of packets.                                                *)

LEMMA CountStep ==
    ASSUME TypeOK, CountInv, [Next]_vars
    PROVE  CountInv'
<1>1. /\ msgNo \in [Process -> Nat] /\ phase \in [Process -> {"none", "loaded", "forked", "ready", "exited"}]
      /\ outcomes \in [Process -> Seq({"lost", "damaged", "intact"})]
  BY DEF TypeOK
<1>2. ASSUME NEW p \in Process, NEW to \in {"loaded", "ready", "exited"},
             phase' = [phase EXCEPT ![p] = to], UNCHANGED <<msgNo, outcomes>>,
             to = "loaded" => phase[p] = "none"
      PROVE  CountInv'
  BY <1>1, <1>2 DEF CountInv
<1>3. ASSUME NEW p \in Programs, Start(p)
      PROVE  CountInv'
  BY <1>2, <1>3, Processes DEF Start
<1>4. CASE RcopyInit
  BY <1>2, <1>4, Processes DEF RcopyInit
<1>5. CASE ServerInit
  <2>1. UNCHANGED <<msgNo, outcomes>>
    BY <1>5 DEF ServerInit
  <2>2. \E to \in {"ready", "exited"} : phase' = [phase EXCEPT ![Server] = to]
    BY <1>5 DEF ServerInit
  <2> QED  BY <1>2, <2>1, <2>2, Processes
<1>6. ASSUME NEW c \in Children, ServerForks(c)
      PROVE  CountInv'
  <2>1. /\ phase[c] = "none" /\ phase' = [phase EXCEPT ![c] = "forked"]
        /\ msgNo' = [msgNo EXCEPT ![c] = msgNo[Server]] /\ UNCHANGED outcomes
    BY <1>6 DEF ServerForks, Inherit
  <2>2. outcomes[c] = <<>> /\ outcomes[Server] = <<>>
    BY <2>1, Processes DEF CountInv
  <2>3. msgNo[Server] = 0
    BY <2>2, Processes DEF CountInv
  <2> QED  BY <1>1, <2>1, <2>2, <2>3, Processes DEF CountInv
<1>7. ASSUME NEW c \in Children, ChildInfo(c)
      PROVE  CountInv'
  BY <1>2, <1>7, Processes DEF ChildInfo
<1>8. ASSUME NEW c \in Children, ChildExits(c)
      PROVE  CountInv'
  BY <1>2, <1>8, Processes DEF ChildExits
<1>9. ASSUME NEW p \in Senders, SendtoErr(p)
      PROVE  CountInv'
  <2>1. p \in Process /\ p # Server
    BY DEF Senders
  <2>2. \E x \in {"lost", "damaged", "intact"} :
          outcomes' = [outcomes EXCEPT ![p] = Append(@, x)]
    BY <1>9 DEF SendtoErr
  <2>3. PICK x \in {"lost", "damaged", "intact"} :
          outcomes' = [outcomes EXCEPT ![p] = Append(@, x)]
    BY <2>2
  <2>4. Len(outcomes'[p]) = Len(outcomes[p]) + 1
    BY <1>1, <2>1, <2>3
  <2>5. phase[p] = "ready" /\ UNCHANGED phase /\ msgNo' = [msgNo EXCEPT ![p] = @ + 1]
    BY <1>9 DEF SendtoErr
  <2> QED  BY <1>1, <2>1, <2>3, <2>4, <2>5 DEF CountInv
<1>10. CASE UNCHANGED vars
  BY <1>10 DEF vars, CountInv
<1> QED  BY <1>3, <1>4, <1>5, <1>6, <1>7, <1>8, <1>9, <1>10 DEF Next

-----------------------------------------------------------------------------
(* The settings.                                                           *)

\* Whatever a step does, it is one of these to the settings.
Loads(p) ==
    /\ phase[p] = "none" /\ phase' = [phase EXCEPT ![p] = "loaded"]
    /\ LoadEnvData(p) /\ UNCHANGED outcomes
Asks(p, flip) ==
    /\ phase[p] \in {"loaded", "forked"} /\ phase' = [phase EXCEPT ![p] = "ready"]
    /\ flip => p \in Children
    /\ SendErrInit(p, flip) /\ UNCHANGED outcomes
Keeps(p, to) ==
    /\ phase[p] # "none" /\ phase' = [phase EXCEPT ![p] = to]
    /\ UNCHANGED <<settings, outcomes>>

LEMMA SettingsChange ==
    ASSUME TypeOK, [Next]_vars
    PROVE  /\ UNCHANGED environment
           /\ \/ \E p \in Programs : Loads(p)
              \/ \E p \in Process : \E flip \in BOOLEAN : Asks(p, flip)
              \/ \E p \in Process : \E to \in {"ready", "exited"} : Keeps(p, to)
              \/ \E c \in Children : ServerForks(c)
              \/ \E p \in Senders : SendtoErr(p)
              \/ UNCHANGED vars
<1>1. ASSUME NEW p \in Programs, Start(p)
      PROVE  UNCHANGED environment /\ Loads(p)
  BY <1>1 DEF Start, Loads
<1>2. CASE RcopyInit
  <2>1. UNCHANGED environment /\ Asks(Rcopy, FALSE)
    BY <1>2 DEF RcopyInit, Asks
  <2> QED  BY <2>1, Processes
<1>3. CASE ServerInit
  <2>1. UNCHANGED environment /\ (Asks(Server, FALSE) \/ Keeps(Server, "exited"))
    BY <1>3 DEF ServerInit, Asks, Keeps
  <2> QED  BY <2>1, Processes
<1>4. ASSUME NEW c \in Children, ServerForks(c)
      PROVE  UNCHANGED environment
  BY <1>4 DEF ServerForks
<1>5. ASSUME NEW c \in Children, ChildInfo(c)
      PROVE  UNCHANGED environment /\ (Asks(c, TRUE) \/ Keeps(c, "ready"))
  BY <1>5 DEF ChildInfo, Asks, Keeps
<1>6. ASSUME NEW c \in Children, ChildExits(c)
      PROVE  UNCHANGED environment /\ Keeps(c, "exited")
  BY <1>6 DEF ChildExits, Keeps
<1>7. ASSUME NEW p \in Senders, SendtoErr(p)
      PROVE  UNCHANGED environment
  BY <1>7 DEF SendtoErr
<1>8. CASE UNCHANGED vars
  BY <1>8 DEF vars
<1> QED
  BY <1>1, <1>2, <1>3, <1>4, <1>5, <1>6, <1>7, <1>8, Processes DEF Next

LEMMA SameEnv ==
    ASSUME UNCHANGED environment, NEW p \in Process
    PROVE  Env(p)' = Env(p)
BY DEF Env

LEMMA ChildEnv ==
    ASSUME NEW c \in Children
    PROVE  Env(c) = Env(Server)
BY Processes DEF Env

LEMMA NumbersStep ==
    ASSUME TypeOK, NumbersInv, [Next]_vars
    PROVE  NumbersInv'
<1>1. /\ errorRate \in [Process -> Int] /\ debug \in [Process -> Int]
      /\ seed \in [Process -> {"time", "fork", "environment"}]
      /\ phase \in [Process -> {"none", "loaded", "forked", "ready", "exited"}]
  BY DEF TypeOK
<1>2. UNCHANGED environment
  BY SettingsChange
<1>3. SUFFICES ASSUME NEW q \in Process, phase'[q] # "none"
               PROVE  NumbersOf(q)'
  BY DEF NumbersInv, NumbersOf
<1>4. Env(q)' = Env(q)
  BY <1>2, SameEnv
<1>5. phase[q] # "none" => NumbersOf(q)
  BY DEF NumbersInv, NumbersOf
<1>6. ASSUME errorRate'[q] = errorRate[q], debug'[q] = debug[q], seed'[q] = seed[q],
             phase[q] # "none"
      PROVE  NumbersOf(q)'
  BY <1>4, <1>5, <1>6 DEF NumbersOf
<1>7. ASSUME NEW p \in Programs, Loads(p)
      PROVE  NumbersOf(q)'
  <2>1. p \in Process
    BY Processes
  <2>2. CASE q = p
    BY <1>1, <1>4, <1>7, <2>2 DEF Loads, LoadEnvData, NumbersOf
  <2>3. CASE q # p
    <3>1. phase[q] # "none"
      BY <1>1, <1>3, <1>7, <2>1, <2>3 DEF Loads
    <3>2. errorRate'[q] = errorRate[q] /\ debug'[q] = debug[q] /\ seed'[q] = seed[q]
      BY <1>1, <1>7, <2>3 DEF Loads, LoadEnvData
    <3> QED  BY <1>6, <3>1, <3>2
  <2> QED  BY <2>2, <2>3
<1>8. ASSUME NEW p \in Process, NEW flip \in BOOLEAN, Asks(p, flip)
      PROVE  NumbersOf(q)'
  <2>1. phase[q] # "none"
    BY <1>1, <1>3, <1>8 DEF Asks
  <2>2. CASE q = p
    BY <1>1, <1>4, <1>5, <1>8, <2>1, <2>2 DEF Asks, SendErrInit, UserMode, NumbersOf
  <2>3. CASE q # p
    <3>1. errorRate'[q] = errorRate[q] /\ debug'[q] = debug[q] /\ seed'[q] = seed[q]
      BY <1>1, <1>8, <2>3 DEF Asks, SendErrInit
    <3> QED  BY <1>6, <2>1, <3>1
  <2> QED  BY <2>2, <2>3
<1>9. ASSUME NEW p \in Process, NEW to, Keeps(p, to)
      PROVE  NumbersOf(q)'
  <2>1. phase[q] # "none"
    BY <1>1, <1>3, <1>9 DEF Keeps
  <2> QED  BY <1>6, <1>9, <2>1 DEF Keeps, settings
<1>10. ASSUME NEW c \in Children, ServerForks(c)
       PROVE  NumbersOf(q)'
  <2>1. c \in Process /\ Server \in Process /\ phase[Server] = "ready" /\ Env(c) = Env(Server)
    BY <1>10, Processes, ChildEnv DEF ServerForks
  <2>2. CASE q = c
    <3>1. /\ errorRate'[c] = errorRate[Server] /\ debug'[c] = debug[Server]
          /\ seed'[c] = IF IsSet(Env(c).seed) THEN seed[Server] ELSE "fork"
      BY <1>1, <1>10, <2>1 DEF ServerForks, Inherit, UserMode
    <3>2. NumbersOf(Server)
      BY <2>1 DEF NumbersInv, NumbersOf
    <3> QED  BY <1>4, <2>1, <2>2, <3>1, <3>2 DEF NumbersOf
  <2>3. CASE q # c
    <3>1. phase[q] # "none"
      BY <1>1, <1>3, <1>10, <2>3 DEF ServerForks
    <3>2. errorRate'[q] = errorRate[q] /\ debug'[q] = debug[q] /\ seed'[q] = seed[q]
      BY <1>1, <1>10, <2>3 DEF ServerForks, Inherit
    <3> QED  BY <1>6, <3>1, <3>2
  <2> QED  BY <2>2, <2>3
<1>11. ASSUME NEW p \in Senders, SendtoErr(p)
       PROVE  NumbersOf(q)'
  <2>1. UNCHANGED <<phase, errorRate, debug, seed>>
    BY <1>11 DEF SendtoErr
  <2> QED  BY <1>3, <1>6, <2>1
<1>12. CASE UNCHANGED vars
  BY <1>3, <1>6, <1>12 DEF vars, settings
<1> QED  BY <1>7, <1>8, <1>9, <1>10, <1>11, <1>12, SettingsChange

LEMMA EventFields ==
    /\ \A all, list : /\ errorDrop(all, list).kind = "drop"
                      /\ errorDrop(all, list).all = all /\ errorDrop(all, list).list = list
    /\ errorFlipBits.kind = "flip"
    /\ infoSeqNo.kind = "info" /\ infoSeqNo.seen = 0
BY DEF errorDrop, errorFlipBits, infoSeqNo

LEMMA ConstantStep ==
    ASSUME TypeOK, ConstantInv, [Next]_vars
    PROVE  ConstantInv'
<1>1. /\ constant \in [Process -> Seq(Event)]
      /\ phase \in [Process -> {"none", "loaded", "forked", "ready", "exited"}]
  BY DEF TypeOK
<1>2. UNCHANGED environment
  BY SettingsChange
<1>3. SUFFICES ASSUME NEW q \in Process
               PROVE  ConstantOf(q, phase[q] # "none")'
  BY DEF ConstantInv, ConstantOf
<1>4. Env(q)' = Env(q)
  BY <1>2, SameEnv
<1>5. ConstantOf(q, phase[q] # "none")
  BY DEF ConstantInv, ConstantOf
<1>6. ASSUME constant'[q] = constant[q], phase[q] # "none" \/ phase'[q] = phase[q]
      PROVE  ConstantOf(q, phase[q] # "none")'
  BY <1>4, <1>5, <1>6 DEF ConstantOf
<1>7. ASSUME NEW p \in Programs, Loads(p)
      PROVE  ConstantOf(q, phase[q] # "none")'
  <2>1. p \in Process
    BY Processes
  <2>2. CASE q = p
    <3>1. CASE GivesList(Env(q).drop)
      <4>1. constant'[q] = <<errorDrop(FALSE, Numbers(Env(q).drop))>>
        BY <1>1, <1>7, <2>2, <3>1 DEF Loads, LoadEnvData
      <4>2. DOMAIN constant'[q] = {1}
            /\ constant'[q][1] = errorDrop(FALSE, Numbers(Env(q).drop))
        BY <4>1
      <4>3. /\ constant'[q][1].kind = "drop" /\ ~constant'[q][1].all
            /\ constant'[q][1].list = Numbers(Env(q).drop)
        BY <4>2 DEF errorDrop
      <4> QED  BY <1>4, <3>1, <4>2, <4>3 DEF ConstantOf
    <3>2. CASE ~GivesList(Env(q).drop)
      <4>1. constant'[q] = <<>>
        BY <1>1, <1>7, <2>2, <3>2 DEF Loads, LoadEnvData
      <4> QED  BY <1>4, <3>2, <4>1 DEF ConstantOf
    <3> QED  BY <3>1, <3>2
  <2>3. CASE q # p
    <3>1. constant'[q] = constant[q] /\ phase'[q] = phase[q]
      BY <1>1, <1>7, <2>3 DEF Loads, LoadEnvData
    <3> QED  BY <1>6, <3>1
  <2> QED  BY <2>2, <2>3
<1>8. ASSUME NEW p \in Process, NEW flip \in BOOLEAN, Asks(p, flip)
      PROVE  ConstantOf(q, phase[q] # "none")'
  <2>1. CASE q = p
    <3>1. constant'[q] = Append(constant[q], infoSeqNo) /\ phase[q] # "none"
      BY <1>1, <1>8, <2>1 DEF Asks, SendErrInit
    <3>2. PICK n \in Nat : DOMAIN constant[q] = 1..n /\ n = Len(constant[q])
      BY <1>1
    <3>3. /\ DOMAIN constant'[q] = 1..(n + 1) /\ constant'[q][n + 1] = infoSeqNo
          /\ \A i \in 1..n : constant'[q][i] = constant[q][i]
      BY <1>1, <3>1, <3>2
    <3> QED  BY <1>4, <1>5, <3>1, <3>2, <3>3, EventFields DEF ConstantOf
  <2>2. CASE q # p
    <3>1. constant'[q] = constant[q] /\ phase'[q] = phase[q]
      BY <1>1, <1>8, <2>2 DEF Asks, SendErrInit
    <3> QED  BY <1>6, <3>1
  <2> QED  BY <2>1, <2>2
<1>9. ASSUME NEW p \in Process, NEW to, Keeps(p, to)
      PROVE  ConstantOf(q, phase[q] # "none")'
  <2>1. phase[q] # "none" \/ phase'[q] = phase[q]
    BY <1>1, <1>9 DEF Keeps
  <2> QED  BY <1>6, <1>9, <2>1 DEF Keeps, settings
<1>10. ASSUME NEW c \in Children, ServerForks(c)
       PROVE  ConstantOf(q, phase[q] # "none")'
  <2>1. c \in Process /\ Server \in Process /\ phase[Server] = "ready" /\ Env(c) = Env(Server)
    BY <1>10, Processes, ChildEnv DEF ServerForks
  <2>2. CASE q = c
    <3>1. constant'[c] = constant[Server]
      BY <1>1, <1>10, <2>1 DEF ServerForks, Inherit
    <3>2. ConstantOf(Server, TRUE)
      BY <2>1 DEF ConstantInv, ConstantOf
    <3> QED  BY <1>4, <2>1, <2>2, <3>1, <3>2 DEF ConstantOf
  <2>3. CASE q # c
    <3>1. constant'[q] = constant[q] /\ phase'[q] = phase[q]
      BY <1>1, <1>10, <2>3 DEF ServerForks, Inherit
    <3> QED  BY <1>6, <3>1
  <2> QED  BY <2>2, <2>3
<1>11. ASSUME NEW p \in Senders, SendtoErr(p)
       PROVE  ConstantOf(q, phase[q] # "none")'
  <2>1. UNCHANGED phase /\ constant' = [constant EXCEPT ![p] = AfterRun(@, msgNo'[p])]
    BY <1>11 DEF SendtoErr
  <2>2. CASE q = p
    <3>1. constant'[q] = AfterRun(constant[q], msgNo'[q])
      BY <1>1, <2>1, <2>2
    <3>2. /\ DOMAIN constant'[q] = DOMAIN constant[q]
          /\ \A i \in DOMAIN constant[q] :
               /\ constant'[q][i].kind = constant[q][i].kind
               /\ constant'[q][i].all = constant[q][i].all
               /\ constant'[q][i].list = constant[q][i].list
      BY <1>1, <3>1, AfterRunType
    <3> QED  BY <1>4, <1>5, <2>1, <3>2 DEF ConstantOf
  <2>3. CASE q # p
    BY <1>1, <1>6, <2>1, <2>3
  <2> QED  BY <2>2, <2>3
<1>12. CASE UNCHANGED vars
  BY <1>6, <1>12 DEF vars, settings
<1> QED  BY <1>7, <1>8, <1>9, <1>10, <1>11, <1>12, SettingsChange

\* Another event leaves the number of the events of another kind.
LEMMA OtherKind ==
    ASSUME NEW events \in Seq(Event), NEW event, NEW kind, event.kind # kind
    PROVE  /\ NoneOf(events, kind) => NoneOf(Append(events, event), kind)
           /\ OneOf(events, kind) => OneOf(Append(events, event), kind)
<1> DEFINE more == Append(events, event)
<1>1. PICK n \in Nat : DOMAIN events = 1..n /\ n = Len(events)
  OBVIOUS
<1>2. /\ DOMAIN more = 1..(n + 1) /\ more[n + 1] = event
      /\ \A i \in 1..n : more[i] = events[i]
  BY <1>1
<1> HIDE DEF more
<1>3. NoneOf(events, kind) => NoneOf(more, kind)
  BY <1>1, <1>2 DEF NoneOf
<1>4. ASSUME OneOf(events, kind)
      PROVE  OneOf(more, kind)
  <2>1. PICK i \in DOMAIN events : \A j \in DOMAIN events : events[j].kind = kind <=> j = i
    BY <1>4 DEF OneOf
  <2>2. \A j \in 1..(n + 1) : more[j].kind = kind <=> j = i
    BY <1>1, <1>2, <2>1
  <2>3. i \in DOMAIN more /\ \A j \in DOMAIN more : more[j].kind = kind <=> j = i
    BY <1>1, <1>2, <2>1, <2>2
  <2> QED  BY <2>3 DEF OneOf
<1> QED  BY <1>3, <1>4 DEF more

\* An event of a kind there was none of is the one of its kind.
LEMMA OnlyOne ==
    ASSUME NEW events \in Seq(Event), NEW event, NoneOf(events, event.kind)
    PROVE  OneOf(Append(events, event), event.kind)
<1> DEFINE more == Append(events, event)
<1>1. PICK n \in Nat : DOMAIN events = 1..n /\ n = Len(events)
  OBVIOUS
<1>2. /\ DOMAIN more = 1..(n + 1) /\ more[n + 1] = event
      /\ \A i \in 1..n : more[i] = events[i]
  BY <1>1
<1> HIDE DEF more
<1>3. n + 1 \in DOMAIN more /\ \A j \in DOMAIN more : more[j].kind = event.kind <=> j = n + 1
  BY <1>1, <1>2 DEF NoneOf
<1>4. OneOf(more, event.kind)
  BY <1>3 DEF OneOf
<1> QED  BY <1>4 DEF more

\* What a program, or a child again, adds to the errors at random.
LEMMA ChanceAsked ==
    ASSUME TypeOK, NEW p \in Process, NEW flip \in BOOLEAN, SendErrInit(p, flip)
    PROVE  \E drops \in Seq(Event) :
             /\ \/ drops = chance[p]
                \/ Env(p).drop = Unset /\ drops = Append(chance[p], errorDrop(TRUE, {}))
             /\ \/ chance'[p] = drops
                \/ Env(p).flip = Unset /\ flip /\ chance'[p] = Append(drops, errorFlipBits)
<1> DEFINE drops == UserMode(Env(p).drop # Unset, Append(chance[p], errorDrop(TRUE, {})), chance[p])
<1>1. chance[p] \in Seq(Event) /\ errorDrop(TRUE, {}) \in Event
  BY EventType DEF TypeOK
<1>2. /\ drops \in Seq(Event)
      /\ \/ drops = chance[p]
         \/ Env(p).drop = Unset /\ drops = Append(chance[p], errorDrop(TRUE, {}))
  BY <1>1, AppendEvent DEF UserMode
<1>3. chance'[p] = UserMode(Env(p).flip # Unset, drops \o FlipEvents(flip), drops)
  BY DEF SendErrInit, TypeOK
<1> HIDE DEF drops
<1>4. drops \o <<errorFlipBits>> = Append(drops, errorFlipBits) /\ drops \o <<>> = drops
  BY <1>2
<1>5. \/ chance'[p] = drops
      \/ Env(p).flip = Unset /\ flip /\ chance'[p] = Append(drops, errorFlipBits)
  BY <1>3, <1>4 DEF UserMode, FlipEvents
<1> QED  BY <1>2, <1>5

LEMMA ChanceStep ==
    ASSUME TypeOK, ChanceInv, [Next]_vars
    PROVE  ChanceInv'
<1>1. /\ chance \in [Process -> Seq(Event)]
      /\ phase \in [Process -> {"none", "loaded", "forked", "ready", "exited"}]
  BY DEF TypeOK
<1>2. UNCHANGED environment
  BY SettingsChange
<1>3. SUFFICES ASSUME NEW q \in Process
               PROVE  ChanceOf(q, phase[q] # "none")'
  BY DEF ChanceInv, ChanceOf
<1>4. Env(q)' = Env(q) /\ Flipping(q)' = Flipping(q)
  BY <1>2, SameEnv DEF Flipping
<1>5. ChanceOf(q, phase[q] # "none")
  BY DEF ChanceInv, ChanceOf
<1>6. ASSUME chance'[q] = chance[q], phase[q] # "none" \/ phase'[q] = phase[q]
      PROVE  ChanceOf(q, phase[q] # "none")'
  BY <1>4, <1>5, <1>6 DEF ChanceOf
<1>7. ASSUME NEW p \in Programs, Loads(p)
      PROVE  ChanceOf(q, phase[q] # "none")'
  <2>1. p \in Process
    BY Processes
  <2>2. CASE q = p
    <3> DEFINE drops == IF GivesRandom(Env(q).drop) THEN <<errorDrop(TRUE, {})>> ELSE <<>>
               flips == IF GivesRandom(Env(q).flip) THEN <<errorFlipBits>> ELSE <<>>
    <3>1. chance'[q] = drops \o flips
      BY <1>1, <1>7, <2>2 DEF Loads, LoadEnvData
    <3>2. errorDrop(TRUE, {}) \in Event /\ errorFlipBits \in Event
      BY EventType
    <3>3. /\ GivesRandom(Env(q).drop) => OneOf(drops, "drop")
          /\ ~GivesRandom(Env(q).drop) => NoneOf(drops, "drop")
          /\ NoneOf(drops, "flip")
      <4>1. CASE GivesRandom(Env(q).drop)
        <5>1. drops = <<errorDrop(TRUE, {})>>
          BY <4>1
        <5> HIDE DEF drops
        <5>2. DOMAIN drops = {1} /\ drops[1] = errorDrop(TRUE, {})
          BY <5>1
        <5>3. drops[1].kind = "drop"
          BY <5>2 DEF errorDrop
        <5> QED  BY <4>1, <5>2, <5>3 DEF OneOf, NoneOf
      <4>2. CASE ~GivesRandom(Env(q).drop)
        <5>1. DOMAIN drops = {}
          BY <4>2
        <5> HIDE DEF drops
        <5> QED  BY <4>2, <5>1 DEF NoneOf
      <4> QED  BY <4>1, <4>2
    <3>4. drops \in Seq(Event)
      BY <3>2, ListsOfEvents
    <3> HIDE DEF drops
    <3>5. CASE GivesRandom(Env(q).flip)
      <4>1. chance'[q] = Append(drops, errorFlipBits)
        BY <3>1, <3>4, <3>5
      <4>2. OneOf(chance'[q], "flip")
        BY <3>2, <3>3, <3>4, <4>1, OnlyOne, EventFields
      <4>3. /\ GivesRandom(Env(q).drop) => OneOf(chance'[q], "drop")
            /\ ~GivesRandom(Env(q).drop) => NoneOf(chance'[q], "drop")
        BY <3>3, <3>4, <4>1, OtherKind, EventFields
      <4> QED  BY <1>4, <3>5, <4>2, <4>3 DEF ChanceOf, Flipping, GivesList, GivesRandom
    <3>6. CASE ~GivesRandom(Env(q).flip)
      <4>1. chance'[q] = drops
        BY <3>1, <3>4, <3>6
      <4> QED  BY <1>4, <3>3, <3>6, <4>1 DEF ChanceOf, GivesList, GivesRandom
    <3> QED  BY <3>5, <3>6
  <2>3. CASE q # p
    <3>1. chance'[q] = chance[q] /\ phase'[q] = phase[q]
      BY <1>1, <1>7, <2>3 DEF Loads, LoadEnvData
    <3> QED  BY <1>6, <3>1
  <2> QED  BY <2>2, <2>3
<1>8. ASSUME NEW p \in Process, NEW flip \in BOOLEAN, Asks(p, flip)
      PROVE  ChanceOf(q, phase[q] # "none")'
  <2>1. CASE q = p
    <3>1. SendErrInit(q, flip) /\ phase[q] # "none" /\ (flip => q \in Children)
      BY <1>8, <2>1 DEF Asks
    <3>2. PICK drops \in Seq(Event) :
             /\ \/ drops = chance[q]
                \/ Env(q).drop = Unset /\ drops = Append(chance[q], errorDrop(TRUE, {}))
             /\ \/ chance'[q] = drops
                \/ Env(q).flip = Unset /\ flip /\ chance'[q] = Append(drops, errorFlipBits)
      BY <3>1, ChanceAsked
    <3>3. chance[q] \in Seq(Event)
      BY <1>1
    <3>4. /\ GivesList(Env(q).drop) => NoneOf(drops, "drop")
          /\ GivesRandom(Env(q).drop) => OneOf(drops, "drop")
      BY <1>5, <3>1, <3>2 DEF ChanceOf, GivesList, GivesRandom
    <3>5. /\ ~Flipping(q) => NoneOf(drops, "flip")
          /\ GivesRandom(Env(q).flip) => OneOf(drops, "flip")
      <4>1. /\ NoneOf(chance[q], "flip") => NoneOf(drops, "flip")
            /\ OneOf(chance[q], "flip") => OneOf(drops, "flip")
        <5>1. CASE drops = chance[q]
          BY <5>1
        <5>2. CASE drops = Append(chance[q], errorDrop(TRUE, {}))
          BY <3>3, <5>2, OtherKind, EventFields
        <5> QED  BY <3>2, <5>1, <5>2
      <4> QED  BY <1>5, <3>1, <4>1 DEF ChanceOf
    <3>6. CASE chance'[q] = drops
      BY <1>4, <3>4, <3>5, <3>6 DEF ChanceOf
    <3>7. CASE Env(q).flip = Unset /\ flip /\ chance'[q] = Append(drops, errorFlipBits)
      <4>1. /\ GivesList(Env(q).drop) => NoneOf(chance'[q], "drop")
            /\ GivesRandom(Env(q).drop) => OneOf(chance'[q], "drop")
        BY <3>4, <3>7, OtherKind, EventFields
      <4>2. Flipping(q) /\ ~GivesRandom(Env(q).flip)
        BY <3>1, <3>7 DEF Flipping, GivesRandom
      <4> QED  BY <1>4, <4>1, <4>2 DEF ChanceOf
    <3> QED  BY <3>2, <3>6, <3>7
  <2>2. CASE q # p
    <3>1. chance'[q] = chance[q] /\ phase'[q] = phase[q]
      BY <1>1, <1>8, <2>2 DEF Asks, SendErrInit
    <3> QED  BY <1>6, <3>1
  <2> QED  BY <2>1, <2>2
<1>9. ASSUME NEW p \in Process, NEW to, Keeps(p, to)
      PROVE  ChanceOf(q, phase[q] # "none")'
  <2>1. phase[q] # "none" \/ phase'[q] = phase[q]
    BY <1>1, <1>9 DEF Keeps
  <2> QED  BY <1>6, <1>9, <2>1 DEF Keeps, settings
<1>10. ASSUME NEW c \in Children, ServerForks(c)
       PROVE  ChanceOf(q, phase[q] # "none")'
  <2>1. /\ c \in Process /\ Server \in Process /\ phase[Server] = "ready"
        /\ Env(c) = Env(Server) /\ Server \notin Children
    BY <1>10, Processes, ChildEnv DEF ServerForks
  <2>2. CASE q = c
    <3>1. chance'[c] = chance[Server]
      BY <1>1, <1>10, <2>1 DEF ServerForks, Inherit
    <3>2. ChanceOf(Server, TRUE)
      BY <2>1 DEF ChanceInv, ChanceOf
    <3>3. ~Flipping(c) => ~Flipping(Server)
      BY <2>1 DEF Flipping
    <3> QED  BY <1>4, <2>1, <2>2, <3>1, <3>2, <3>3 DEF ChanceOf
  <2>3. CASE q # c
    <3>1. chance'[q] = chance[q] /\ phase'[q] = phase[q]
      BY <1>1, <1>10, <2>3 DEF ServerForks, Inherit
    <3> QED  BY <1>6, <3>1
  <2> QED  BY <2>2, <2>3
<1>11. ASSUME NEW p \in Senders, SendtoErr(p)
       PROVE  ChanceOf(q, phase[q] # "none")'
  BY <1>6, <1>11 DEF SendtoErr
<1>12. CASE UNCHANGED vars
  BY <1>6, <1>12 DEF vars, settings
<1> QED  BY <1>7, <1>8, <1>9, <1>10, <1>11, <1>12, SettingsChange

LEMMA Counts ==
    ASSUME NEW events, NEW kind
    PROVE  /\ OneOf(events, kind) => CountOf(events, kind) = 1
           /\ NoneOf(events, kind) => CountOf(events, kind) = 0
<1> DEFINE S == {i \in DOMAIN events : events[i].kind = kind}
<1>1. ASSUME OneOf(events, kind)
      PROVE  CountOf(events, kind) = 1
  <2>1. PICK i : S = {i}
    BY <1>1 DEF OneOf
  <2> QED  BY <2>1, FS_Singleton DEF CountOf
<1>2. ASSUME NoneOf(events, kind)
      PROVE  CountOf(events, kind) = 0
  <2>1. S = {}
    BY <1>2 DEF NoneOf
  <2> QED  BY <2>1, FS_EmptySet DEF CountOf
<1> QED  BY <1>1, <1>2

LEMMA SettingsInit == Init => SettingsInv
<1> SUFFICES ASSUME Init
             PROVE  SettingsInv
  OBVIOUS
<1>1. \A p \in Process : phase[p] = "none" /\ constant[p] = <<>> /\ chance[p] = <<>>
  BY DEF Init
<1>2. NumbersInv
  BY <1>1 DEF NumbersInv
<1>3. ConstantInv
  BY <1>1 DEF ConstantInv, ConstantOf
<1>4. ChanceInv
  BY <1>1 DEF ChanceInv, ChanceOf, NoneOf
<1> QED  BY <1>2, <1>3, <1>4 DEF SettingsInv

LEMMA SettingsStep == TypeOK /\ SettingsInv /\ [Next]_vars => SettingsInv'
BY NumbersStep, ConstantStep, ChanceStep DEF SettingsInv

LEMMA SettingsHold == Spec => []SettingsInv
BY SettingsInit, SettingsStep, Typed, PTL DEF Spec

\* What the environment says is in force: its numbers, its port, the drops it
\* names and the flips it asks for at random, each once, after whatever the
\* programs asked for.
THEOREM EnvironmentPrevails == Spec => []EnvironmentWins
<1>1. SettingsInv /\ PortInv => EnvironmentWins
  <2> SUFFICES ASSUME SettingsInv, PortInv, NEW p \in Process, Loaded(p)
               PROVE  /\ IsSet(Env(p).rate) => errorRate[p] = Env(p).rate
                      /\ IsSet(Env(p).debug) => debug[p] = Env(p).debug
                      /\ IsSet(Env(p).seed) => seed[p] = "environment"
                      /\ GivesList(Env(p).drop) =>
                           CountOf(constant[p], "drop") = 1 /\ CountOf(chance[p], "drop") = 0
                      /\ GivesRandom(Env(p).drop) =>
                           CountOf(constant[p], "drop") = 0 /\ CountOf(chance[p], "drop") = 1
                      /\ GivesRandom(Env(p).flip) => CountOf(chance[p], "flip") = 1
                      /\ p \in Children /\ WantedPort(p) # 0 =>
                           port[p] \in {0, WantedPort(p)}
    BY DEF EnvironmentWins
  <2>1. phase[p] # "none"
    BY DEF Loaded
  <2>2. NumbersOf(p) /\ ConstantOf(p, TRUE) /\ ChanceOf(p, TRUE)
    BY <2>1 DEF SettingsInv, NumbersInv, NumbersOf, ConstantInv, ConstantOf, ChanceInv, ChanceOf
  <2>3. GivesList(Env(p).drop) => OneOf(constant[p], "drop")
    BY <2>2 DEF ConstantOf, OneOf
  <2>4. GivesRandom(Env(p).drop) => NoneOf(constant[p], "drop")
    BY <2>2 DEF ConstantOf, NoneOf, GivesList, GivesRandom
  <2>5. GivesRandom(Env(p).flip) => Flipping(p)
    BY DEF Flipping
  <2>6. ASSUME p \in Children, WantedPort(p) # 0
        PROVE  port[p] \in {0, WantedPort(p)}
    <3>1. WantedPort(p) = WantedPort(Server)
      BY <2>6, Processes DEF WantedPort, Env
    <3> QED  BY <2>6, <3>1 DEF PortInv
  <2> QED  BY <2>2, <2>3, <2>4, <2>5, <2>6, Counts DEF NumbersOf, ChanceOf
<1> QED  BY <1>1, SettingsHold, PortHolds, PTL

-----------------------------------------------------------------------------
(* The listed drops, and the reports.                                      *)

LEMMA CountsHold == Spec => []CountInv
<1>1. Init => CountInv
  BY DEF Init, CountInv
<1> QED  BY <1>1, CountStep, Typed, PTL DEF Spec

\* A packet is lost to an event that drops it.
LEMMA LostTo ==
    ASSUME NEW p, NEW body \in Bodies, NEW no, NEW drawn,
           NEW got \in Arrivals(p, WithChecksum(body), no, drawn)
    PROVE  /\ Dropped(constant[p], no) => got = Nothing
           /\ got = Nothing => \/ Dropped(constant[p], no)
                               \/ \E k \in DOMAIN chance[p] : chance[p][k].kind = "drop"
<1> DEFINE packet == WithChecksum(body)
<1>1. Sendable(packet) /\ packet # Nothing /\ in_cksum(packet) = 0
  BY Packets
<1>2. Dropped(constant[p], no) => got = Nothing
  BY DEF Arrivals
<1>3. ASSUME ~Dropped(constant[p], no), got = Nothing
      PROVE  \E k \in DOMAIN chance[p] : chance[p][k].kind = "drop"
  <2>1. got = packet \/ \E k \in DOMAIN chance[p] : got \in Struck(chance[p][k], packet, no)
    BY <1>3 DEF Arrivals
  <2>2. PICK k \in DOMAIN chance[p] : got \in Struck(chance[p][k], packet, no)
    BY <1>1, <1>3, <2>1
  <2>3. \/ Drops(chance[p][k], no) \/ got = packet
        \/ \E i \in DOMAIN packet : got = FlipByte(packet, i)
    BY <2>2 DEF Struck
  <2> HIDE DEF packet
  <2>4. Drops(chance[p][k], no)
    BY <1>1, <1>3, <2>3, Flips
  <2> QED  BY <2>4 DEF Drops
<1> QED  BY <1>2, <1>3

\* What becomes of the packet a process sends, its first, second, ...
LEMMA Outcome ==
    ASSUME TypeOK, CountInv, SettingsInv, NEW p \in Senders, SendtoErr(p)
    PROVE  \E x \in {"lost", "damaged", "intact"} :
             /\ outcomes' = [outcomes EXCEPT ![p] = Append(@, x)]
             /\ GivesList(Env(p).drop) =>
                  (x = "lost" <=> Len(outcomes[p]) + 1 \in Numbers(Env(p).drop))
<1> DEFINE no == Len(outcomes[p]) + 1
<1>1. p \in Process /\ phase[p] # "none"
  BY DEF Senders, SendtoErr
<1>2. msgNo'[p] = no
  BY <1>1 DEF SendtoErr, CountInv, TypeOK
<1>3. PICK body \in Bodies, drawn \in 0..(RateOne - 1) :
        \E got \in Arrivals(p, WithChecksum(body), no, drawn) :
           outcomes' = [outcomes EXCEPT ![p] = Append(@,
              IF got = Nothing THEN "lost"
              ELSE IF got = WithChecksum(body) THEN "intact" ELSE "damaged")]
  BY <1>2 DEF SendtoErr
<1>4. PICK got \in Arrivals(p, WithChecksum(body), no, drawn) :
        outcomes' = [outcomes EXCEPT ![p] = Append(@,
           IF got = Nothing THEN "lost"
           ELSE IF got = WithChecksum(body) THEN "intact" ELSE "damaged")]
  BY <1>3
<1>5. \E x \in {"lost", "damaged", "intact"} :
        /\ outcomes' = [outcomes EXCEPT ![p] = Append(@, x)]
        /\ x = "lost" <=> got = Nothing
  BY <1>4
<1> HIDE DEF no
<1>6. ASSUME GivesList(Env(p).drop)
      PROVE  got = Nothing <=> no \in Numbers(Env(p).drop)
  <2>1. ConstantOf(p, TRUE) /\ NoneOf(chance[p], "drop")
    BY <1>1, <1>6 DEF SettingsInv, ConstantInv, ChanceInv, ChanceOf
  <2>2. Dropped(constant[p], no) <=> no \in Numbers(Env(p).drop)
    BY <1>6, <2>1 DEF Dropped, Drops, ConstantOf
  <2>3. Dropped(constant[p], no) <=> got = Nothing
    BY <2>1, LostTo DEF NoneOf
  <2> QED  BY <2>2, <2>3
<1> QED  BY <1>5, <1>6 DEF no

LEMMA OutcomesKept ==
    ASSUME [Next]_vars
    PROVE  UNCHANGED outcomes \/ \E p \in Senders : SendtoErr(p)
BY DEF Next, vars, Start, RcopyInit, ServerInit, ServerForks, ChildInfo, ChildExits

LEMMA ListedStep ==
    ASSUME TypeOK, CountInv, SettingsInv, ListedDrops, [Next]_vars
    PROVE  ListedDrops'
<1>1. UNCHANGED environment
  BY SettingsChange
<1>2. SUFFICES ASSUME NEW q \in Process, GivesList(Env(q).drop)', NEW i \in DOMAIN outcomes'[q]
               PROVE  outcomes'[q][i] = "lost" <=> i \in Numbers(Env(q).drop)
  BY <1>1, SameEnv DEF ListedDrops
<1>3. GivesList(Env(q).drop)
  BY <1>1, <1>2, SameEnv
<1>4. i \in DOMAIN outcomes[q] => (outcomes[q][i] = "lost" <=> i \in Numbers(Env(q).drop))
  BY <1>3 DEF ListedDrops
<1>5. CASE outcomes'[q] = outcomes[q]
  BY <1>2, <1>4, <1>5
<1>6. ASSUME NEW p \in Senders, SendtoErr(p)
      PROVE  outcomes'[q][i] = "lost" <=> i \in Numbers(Env(q).drop)
  <2>1. PICK x \in {"lost", "damaged", "intact"} :
          /\ outcomes' = [outcomes EXCEPT ![p] = Append(@, x)]
          /\ GivesList(Env(p).drop) =>
               (x = "lost" <=> Len(outcomes[p]) + 1 \in Numbers(Env(p).drop))
    BY <1>6, Outcome
  <2>2. outcomes \in [Process -> Seq({"lost", "damaged", "intact"})]
    BY DEF TypeOK
  <2>3. CASE q = p
    <3>1. outcomes'[q] = Append(outcomes[q], x) /\ outcomes[q] \in Seq({"lost", "damaged", "intact"})
      BY <2>1, <2>2, <2>3
    <3>2. CASE i = Len(outcomes[q]) + 1
      <4>1. outcomes'[q][i] = x
        BY <3>1, <3>2
      <4> QED  BY <1>3, <2>1, <2>3, <3>2, <4>1
    <3>3. CASE i # Len(outcomes[q]) + 1
      <4>1. i \in DOMAIN outcomes[q] /\ outcomes'[q][i] = outcomes[q][i]
        BY <1>2, <3>1, <3>3
      <4> QED  BY <1>4, <4>1
    <3> QED  BY <3>2, <3>3
  <2>4. CASE q # p
    <3>1. outcomes'[q] = outcomes[q]
      BY <2>1, <2>2, <2>4
    <3> QED  BY <1>5, <3>1
  <2> QED  BY <2>3, <2>4
<1> QED  BY <1>5, <1>6, OutcomesKept

\* Exactly the listed packets are lost of those a process itself sends, when
\* its environment lists packets to drop.
THEOREM ListedAreLost == Spec => []ListedDrops
<1>1. Init => ListedDrops
  BY DEF Init, ListedDrops
<1>2. TypeOK /\ CountInv /\ SettingsInv /\ ListedDrops /\ [Next]_vars => ListedDrops'
  BY ListedStep
<1> QED  BY <1>1, <1>2, Typed, CountsHold, SettingsHold, PTL DEF Spec

\* The packets of a process that its reports count.
Counted(p) ==
    {k \in DOMAIN outcomes[p] : ~(GivesList(Env(p).drop) /\ k \in Numbers(Env(p).drop))}

ReportsOf(p) ==
    \A i \in DOMAIN constant[p] : constant[p][i].kind = "info" =>
        constant[p][i].seen = Cardinality(Counted(p))

\* A report sees exactly the packets that are not listed to be dropped.
LEMMA ReachedIs ==
    ASSUME TypeOK, NEW p \in Process, ConstantOf(p, TRUE), NEW no \in Nat,
           NEW i \in DOMAIN constant[p], constant[p][i].kind = "info"
    PROVE  Reached(constant[p], no, i) <=>
             ~(GivesList(Env(p).drop) /\ no \in Numbers(Env(p).drop))
<1>1. PICK n \in Nat : DOMAIN constant[p] = 1..n
  BY DEF TypeOK
<1>2. CASE GivesList(Env(p).drop)
  <2>1. /\ 1 \in DOMAIN constant[p] /\ constant[p][1].kind = "drop" /\ i # 1
        /\ ~constant[p][1].all /\ constant[p][1].list = Numbers(Env(p).drop)
    BY <1>2 DEF ConstantOf
  <2>2. 1 \in 1..(i - 1)
    BY <1>1, <2>1
  <2>3. Drops(constant[p][1], no) <=> no \in Numbers(Env(p).drop)
    BY <2>1 DEF Drops
  <2>4. ASSUME NEW j \in 1..(i - 1)
        PROVE  Drops(constant[p][j], no) => no \in Numbers(Env(p).drop)
    <3>1. j \in DOMAIN constant[p]
      BY <1>1
    <3> QED  BY <3>1 DEF ConstantOf, Drops
  <2> QED  BY <1>2, <2>2, <2>3, <2>4 DEF Reached
<1>3. CASE ~GivesList(Env(p).drop)
  <2>1. ASSUME NEW j \in 1..(i - 1)
        PROVE  ~Drops(constant[p][j], no)
    <3>1. j \in DOMAIN constant[p]
      BY <1>1
    <3> QED  BY <1>3, <3>1 DEF ConstantOf, Drops
  <2> QED  BY <1>3, <2>1 DEF Reached
<1> QED  BY <1>2, <1>3

LEMMA CountedFinite ==
    ASSUME TypeOK, NEW p \in Process
    PROVE  IsFiniteSet(Counted(p))
<1>1. PICK n \in Nat : DOMAIN outcomes[p] = 1..n
  BY DEF TypeOK
<1>2. IsFiniteSet(1..n) /\ Counted(p) \in SUBSET (1..n)
  BY <1>1, FS_Interval DEF Counted
<1> QED  BY <1>2, FS_Subset

\* The reports of a process after it sent a packet.
LEMMA ReportsAfterSend ==
    ASSUME TypeOK, CountInv, SettingsInv, UNCHANGED environment,
           NEW p \in Senders, SendtoErr(p), ReportsOf(p)
    PROVE  ReportsOf(p)'
<1> DEFINE no == Len(outcomes[p]) + 1
           listed == GivesList(Env(p).drop) /\ no \in Numbers(Env(p).drop)
<1>1. p \in Process /\ phase[p] # "none"
  BY DEF Senders, SendtoErr
<1>2. msgNo'[p] = no
  BY <1>1 DEF SendtoErr, CountInv, TypeOK
<1>3. /\ constant[p] \in Seq(Event) /\ outcomes[p] \in Seq({"lost", "damaged", "intact"})
      /\ no \in Nat
  BY <1>1 DEF TypeOK
<1>4. constant'[p] = AfterRun(constant[p], no)
  BY <1>1, <1>2 DEF SendtoErr, TypeOK
<1>5. DOMAIN outcomes'[p] = DOMAIN outcomes[p] \cup {no} /\ no \notin DOMAIN outcomes[p]
  <2>1. PICK x \in {"lost", "damaged", "intact"} :
          outcomes' = [outcomes EXCEPT ![p] = Append(@, x)]
    BY Outcome
  <2>2. outcomes'[p] = Append(outcomes[p], x)
    BY <1>1, <2>1 DEF TypeOK
  <2> QED  BY <1>3, <2>2
<1>6. Env(p)' = Env(p)
  BY <1>1, SameEnv
<1>7. ConstantOf(p, TRUE)
  BY <1>1 DEF SettingsInv, ConstantInv, ConstantOf
<1> HIDE DEF no
<1>8. IsFiniteSet(Counted(p)) /\ no \notin Counted(p)
  BY <1>1, <1>5, CountedFinite DEF Counted
<1>9. Cardinality(Counted(p)') = IF listed THEN Cardinality(Counted(p))
                                 ELSE Cardinality(Counted(p)) + 1
  <2>1. CASE listed
    <3>1. Counted(p)' = Counted(p)
      BY <1>5, <1>6, <2>1 DEF Counted
    <3> QED  BY <2>1, <3>1
  <2>2. CASE ~listed
    <3>1. Counted(p)' = Counted(p) \cup {no}
      BY <1>5, <1>6, <2>2 DEF Counted
    <3> QED  BY <1>8, <2>2, <3>1, FS_AddElement
  <2> QED  BY <2>1, <2>2
<1>10. ASSUME NEW i \in DOMAIN constant'[p], constant'[p][i].kind = "info"
       PROVE  constant'[p][i].seen = Cardinality(Counted(p)')
  <2>1. /\ i \in DOMAIN constant[p] /\ constant[p][i].kind = "info"
        /\ constant'[p][i].seen = IF Reached(constant[p], no, i)
                                  THEN constant[p][i].seen + 1 ELSE constant[p][i].seen
    BY <1>3, <1>4, <1>10, AfterRunType
  <2>2. Reached(constant[p], no, i) <=> ~listed
    BY <1>1, <1>3, <1>7, <2>1, ReachedIs
  <2>3. constant[p][i].seen = Cardinality(Counted(p))
    BY <2>1 DEF ReportsOf
  <2> QED  BY <1>9, <2>1, <2>2, <2>3
<1> QED  BY <1>10 DEF ReportsOf

LEMMA ReportsStep ==
    ASSUME TypeOK, CountInv, SettingsInv, ReportsAgree, [Next]_vars
    PROVE  ReportsAgree'
<1>1. /\ constant \in [Process -> Seq(Event)]
      /\ outcomes \in [Process -> Seq({"lost", "damaged", "intact"})]
  BY DEF TypeOK
<1>2. UNCHANGED environment
  BY SettingsChange
<1>3. SUFFICES ASSUME NEW q \in Process
               PROVE  ReportsOf(q)'
  BY DEF ReportsAgree, ReportsOf, Counted
<1>4. Env(q)' = Env(q)
  BY <1>2, SameEnv
<1>5. \A p \in Process : ReportsOf(p)
  BY DEF ReportsAgree, ReportsOf, Counted
<1>6. ASSUME outcomes'[q] = outcomes[q]
      PROVE  Counted(q)' = Counted(q)
  BY <1>4, <1>6 DEF Counted
<1>7. ASSUME constant'[q] = constant[q], outcomes'[q] = outcomes[q]
      PROVE  ReportsOf(q)'
  BY <1>5, <1>6, <1>7 DEF ReportsOf
<1>8. ASSUME NEW p \in Programs, Loads(p)
      PROVE  ReportsOf(q)'
  <2>1. CASE q = p
    <3>1. \/ constant'[q] = <<errorDrop(FALSE, Numbers(Env(q).drop))>>
          \/ constant'[q] = <<>>
      BY <1>1, <1>8, <2>1 DEF Loads, LoadEnvData
    <3>2. \A i \in DOMAIN constant'[q] :
            constant'[q][i] = errorDrop(FALSE, Numbers(Env(q).drop))
      <4> DEFINE event == errorDrop(FALSE, Numbers(Env(q).drop))
      <4>1. constant'[q] = <<event>> \/ constant'[q] = <<>>
        BY <3>1
      <4> HIDE DEF event
      <4>2. \A i \in DOMAIN constant'[q] : constant'[q][i] = event
        BY <4>1
      <4> QED  BY <4>2 DEF event
    <3>3. \A i \in DOMAIN constant'[q] : constant'[q][i].kind = "drop"
      BY <3>2 DEF errorDrop
    <3> QED  BY <3>3 DEF ReportsOf
  <2>2. CASE q # p
    BY <1>1, <1>7, <1>8, <2>2 DEF Loads, LoadEnvData
  <2> QED  BY <2>1, <2>2
<1>9. ASSUME NEW p \in Process, NEW flip \in BOOLEAN, Asks(p, flip)
      PROVE  ReportsOf(q)'
  <2>1. CASE q = p
    <3>1. constant'[q] = Append(constant[q], infoSeqNo) /\ outcomes'[q] = outcomes[q]
      BY <1>1, <1>9, <2>1 DEF Asks, SendErrInit
    <3>2. outcomes[q] = <<>>
      BY <1>9, <2>1 DEF Asks, CountInv
    <3>3. Cardinality(Counted(q)) = 0
      <4>1. Counted(q) = {}
        BY <3>2 DEF Counted
      <4> QED  BY <4>1, FS_EmptySet
    <3>4. PICK n \in Nat : DOMAIN constant[q] = 1..n /\ n = Len(constant[q])
      BY <1>1
    <3>5. /\ DOMAIN constant'[q] = 1..(n + 1) /\ constant'[q][n + 1] = infoSeqNo
          /\ \A i \in 1..n : constant'[q][i] = constant[q][i]
      BY <1>1, <3>1, <3>4
    <3>6. constant'[q][n + 1].seen = 0
      BY <3>5, EventFields
    <3>7. Cardinality(Counted(q)') = 0
      BY <1>6, <3>1, <3>3
    <3> QED  BY <1>5, <3>3, <3>4, <3>5, <3>6, <3>7 DEF ReportsOf
  <2>2. CASE q # p
    BY <1>1, <1>7, <1>9, <2>2 DEF Asks, SendErrInit
  <2> QED  BY <2>1, <2>2
<1>10. ASSUME NEW p \in Process, NEW to, Keeps(p, to)
       PROVE  ReportsOf(q)'
  BY <1>7, <1>10 DEF Keeps, settings
<1>11. ASSUME NEW c \in Children, ServerForks(c)
       PROVE  ReportsOf(q)'
  <2>1. /\ c \in Process /\ Server \in Process /\ phase[c] = "none"
        /\ Env(c) = Env(Server) /\ UNCHANGED outcomes
    BY <1>11, Processes, ChildEnv DEF ServerForks
  <2>2. CASE q = c
    <3>1. constant'[c] = constant[Server]
      BY <1>1, <1>11, <2>1 DEF ServerForks, Inherit
    <3>2. outcomes[c] = <<>> /\ outcomes[Server] = <<>>
      BY <2>1 DEF CountInv
    <3>3. Counted(c)' = Counted(Server)
      BY <1>4, <2>1, <2>2, <3>2 DEF Counted
    <3> QED  BY <1>5, <2>1, <2>2, <3>1, <3>3 DEF ReportsOf
  <2>3. CASE q # c
    BY <1>1, <1>7, <1>11, <2>1, <2>3 DEF ServerForks, Inherit
  <2> QED  BY <2>2, <2>3
<1>12. ASSUME NEW p \in Senders, SendtoErr(p)
       PROVE  ReportsOf(q)'
  <2>1. CASE q = p
    BY <1>2, <1>5, <1>12, <2>1, ReportsAfterSend
  <2>2. CASE q # p
    <3>1. constant'[q] = constant[q]
      BY <1>1, <1>12, <2>2 DEF SendtoErr
    <3>2. outcomes'[q] = outcomes[q]
      BY <1>1, <1>12, <2>2 DEF SendtoErr
    <3> QED  BY <1>7, <3>1, <3>2
  <2> QED  BY <2>1, <2>2
<1>13. CASE UNCHANGED vars
  BY <1>7, <1>13 DEF vars, settings
<1> QED  BY <1>8, <1>9, <1>10, <1>11, <1>12, <1>13, SettingsChange

\* Every report of a process, inherited or its own, has counted the packets the
\* process sent but those listed to be dropped.
THEOREM ReportsCount == Spec => []ReportsAgree
<1>1. Init => ReportsAgree
  BY DEF Init, ReportsAgree
<1>2. TypeOK /\ CountInv /\ SettingsInv /\ ReportsAgree /\ [Next]_vars => ReportsAgree'
  BY ReportsStep
<1> QED  BY <1>1, <1>2, Typed, CountsHold, SettingsHold, PTL DEF Spec

-----------------------------------------------------------------------------
(* The refinement of FaultModel.                                           *)

\* What FaultModel sees: the processes that may corrupt, and the packet sent
\* last.
FlippingBar ==
    {p \in Senders : \/ GivesRandom(Env(p).flip)
                     \/ p \in Children /\ Env(p).flip = Unset}
LastBar ==
    IF last = Nothing \/ last.got = Nothing \/ in_cksum(last.got) = 0
    THEN last ELSE [last EXCEPT !.got = NoNumber]

\* Every packet sent is a packet of FaultModel with one of its fates, and
\* nothing else happens to it: only a process that may corrupt does.
THEOREM FaultModelImplemented == Spec => ImplementsFaultModel
<1>1. Init => Faults!Init
  BY DEF Init, Faults!Init
<1>2. SettingsInv /\ [Next]_vars /\ TypeOK => [Faults!Next]_<<FlippingBar, LastBar>>
  <2> SUFFICES ASSUME SettingsInv, TypeOK, [Next]_vars
               PROVE  [Faults!Next]_<<FlippingBar, LastBar>>
    OBVIOUS
  <2>1. UNCHANGED environment
    BY SettingsChange
  <2>2. UNCHANGED FlippingBar
    <3>1. \A p \in Process : Env(p)' = Env(p)
      BY <2>1 DEF Env
    <3> QED  BY <3>1 DEF FlippingBar, Senders
  <2>3. CASE UNCHANGED last
    BY <2>2, <2>3 DEF LastBar
  <2>4. ASSUME NEW p \in Senders, SendtoErr(p)
        PROVE  Faults!Send(p)
    <3>1. PICK body \in Bodies : \E got :
             /\ last' = [from |-> p, sent |-> WithChecksum(body), got |-> got]
             /\ \/ got = Nothing
                \/ got = WithChecksum(body) /\ in_cksum(got) = 0
                \/ /\ got # Nothing /\ got # WithChecksum(body) /\ in_cksum(got) # 0
                   /\ \E k \in DOMAIN chance[p] : chance[p][k].kind = "flip"
      BY <2>4, LastOf
    <3> DEFINE packet == WithChecksum(body)
    <3>2. PICK got :
             /\ last' = [from |-> p, sent |-> packet, got |-> got]
             /\ \/ got = Nothing
                \/ got = packet /\ in_cksum(got) = 0
                \/ /\ got # Nothing /\ got # packet /\ in_cksum(got) # 0
                   /\ \E k \in DOMAIN chance[p] : chance[p][k].kind = "flip"
      BY <3>1
    <3>3. last' # Nothing /\ last'.got = got
      BY <3>2 DEF Nothing
    <3>4. packet \in {WithChecksum(b) : b \in Bodies}
      OBVIOUS
    <3> HIDE DEF packet
    <3>5. \E fate \in {packet, Nothing} \cup (IF p \in FlippingBar THEN {NoNumber} ELSE {}) :
             LastBar' = [from |-> p, sent |-> packet, got |-> fate]
      <4>1. CASE got = Nothing \/ (got = packet /\ in_cksum(got) = 0)
        <5>1. LastBar' = last'
          BY <3>3, <4>1 DEF LastBar
        <5> QED  BY <3>2, <4>1, <5>1
      <4>2. CASE /\ got # Nothing /\ got # packet /\ in_cksum(got) # 0
                 /\ \E k \in DOMAIN chance[p] : chance[p][k].kind = "flip"
        <5>1. LastBar' = [last' EXCEPT !.got = NoNumber]
          BY <3>3, <4>2 DEF LastBar
        <5>2. LastBar' = [from |-> p, sent |-> packet, got |-> NoNumber]
          BY <3>2, <5>1
        <5>3. Flipping(p)
          BY <4>2 DEF SettingsInv, ChanceInv, ChanceOf, NoneOf, Senders
        <5>4. p \in FlippingBar
          BY <5>3 DEF FlippingBar, Flipping
        <5> QED  BY <5>2, <5>4
      <4> QED  BY <3>2, <4>1, <4>2
    <3> QED  BY <2>2, <3>4, <3>5 DEF Faults!Send, Faults!Fates, FlippingBar, LastBar
  <2> QED  BY <2>3, <2>4, LastKept DEF Faults!Next
<1> QED  BY <1>1, <1>2, Typed, SettingsHold, PTL
      DEF Spec, ImplementsFaultModel, Faults!Spec, FlippingBar, LastBar
=============================================================================
