----------------------------- MODULE ErrorLibrary -----------------------------
(***************************************************************************)
(* libcpe464 in rcopy, in the server and in the server's children: the     *)
(* settings taken from the environment when a program starts, the ones it  *)
(* asks for with sendErr_init, what a child inherits through fork and asks *)
(* for again, the port that bind is given, and what sendtoErr makes of     *)
(* each packet.                                                            *)
(*                                                                         *)
(* The generator of random numbers may draw anything, so a seed is only    *)
(* where it came from.  An error rate is in 0..RateOne, RateOne being 1.0. *)
(*                                                                         *)
(* The specification uses none of NegativesToo, AsksAgain, FlipsAnyway,    *)
(* ListedBefore and RunsOn: each is a mistake the operator defined after   *)
(* it could have been written with, kept to show that a property notices   *)
(* it.                                                                     *)
(***************************************************************************)
EXTENDS Checksum, FiniteSets

CONSTANTS
    Rcopy, Server, Children,   \* the processes
    Environments,              \* what the programs' environments may hold
    Unset,                     \* the value of a variable that is not there
    NoNumber,                  \* a text in which strtol finds no number
    RateOne,                   \* the error rate 1.0
    AskedRate,                 \* the error rate of the command line
    Bodies,                    \* the packets sent, before their checksum
    Ports,                     \* the free ports of the server's host
    MaxMsgs                    \* bound on the packets of a process

Programs == {Rcopy, Server}
Process == Programs \cup Children
Senders == Process \ {Server}

\* The variables read by loadEnvData: numbers, and lists of numbers for the
\* drops and flips.  CPE464_AUTOGRADER has no effect.
Number == Int \cup {Unset, NoNumber}
List == {Unset} \cup Seq(Int \cup {NoNumber})
Environment ==
    [port : Number, debug : Number, seed : Number, rate : Number, drop : List, flip : List]

ASSUME ProcessAssumption ==
    /\ Rcopy # Server /\ Rcopy \notin Children /\ Server \notin Children
    /\ Unset # NoNumber /\ Unset \notin Int /\ NoNumber \notin Int

ASSUME LibraryAssumption ==
    /\ Environments \subseteq [Programs -> Environment]
    /\ RateOne \in Nat \ {0} /\ AskedRate \in 0..RateOne
    /\ Bodies \subseteq Seq(Byte)
    /\ \A body \in Bodies : FlagAt <= Len(body) /\ Len(body) <= MaxPdu
    /\ Ports \subseteq Nat \ {0}
    /\ MaxMsgs \in Nat

VARIABLES
    environment,   \* of rcopy and of the server; it never changes
    phase,         \* "none", "loaded", "forked", "ready", "exited"
    errorRate,     \* m_ErrorRate
    debug,         \* the level of dbg_setlevel
    seed,          \* where srand48 last had its argument from
    constant,      \* m_ErrorCase_Constant: events run on every packet
    chance,        \* m_ErrorCase_Chance: one of them runs when an error strikes
    msgNo,         \* m_MsgNo
    port,          \* the port a process is bound to, 0 for none
    outcomes,      \* what became of the packets of a process, in order
    last           \* the packet sent last: its sender, itself, what arrives of it

settings == <<errorRate, debug, seed, constant, chance>>
vars == <<environment, phase, settings, msgNo, port, outcomes, last>>

\* The message events: errorDrop, for all packets or for listed ones,
\* errorFlipBits, and infoSeqNo, which counts the packets it has seen.
Event == [kind : {"drop", "flip", "info"}, all : BOOLEAN, list : SUBSET Nat, seen : Nat]
errorDrop(all, list) == [kind |-> "drop", all |-> all, list |-> list, seen |-> 0]
errorFlipBits == [kind |-> "flip", all |-> FALSE, list |-> {}, seen |-> 0]
infoSeqNo == [kind |-> "info", all |-> FALSE, list |-> {}, seen |-> 0]

Nothing == <<>>
Env(p) == environment[IF p = Rcopy THEN Rcopy ELSE Server]

TypeOK ==
    /\ environment \in Environments
    /\ phase \in [Process -> {"none", "loaded", "forked", "ready", "exited"}]
    /\ errorRate \in [Process -> Int]
    /\ debug \in [Process -> Int]
    /\ seed \in [Process -> {"time", "fork", "environment"}]
    /\ constant \in [Process -> Seq(Event)]
    /\ chance \in [Process -> Seq(Event)]
    /\ msgNo \in [Process -> Nat]
    /\ port \in [Process -> Ports \cup {0}]
    /\ outcomes \in [Process -> Seq({"lost", "damaged", "intact"})]

Init ==
    /\ environment \in Environments
    /\ phase = [p \in Process |-> "none"]
    /\ errorRate = [p \in Process |-> 0]
    /\ debug = [p \in Process |-> 0]
    /\ seed = [p \in Process |-> "time"]
    /\ constant = [p \in Process |-> <<>>]
    /\ chance = [p \in Process |-> <<>>]
    /\ msgNo = [p \in Process |-> 0]
    /\ port = [p \in Process |-> 0]
    /\ outcomes = [p \in Process |-> <<>>]
    /\ last = Nothing

-----------------------------------------------------------------------------
(* What the environment says (SettingsManager).                            *)

\* loadEnvData: a variable of a number counts as set if strtol read one.
IsSet(number) == number \notin {Unset, NoNumber}

\* parser2ListLong and parserLong2Uint32: the numbers before the first text
\* that is none, without the negative ones.  A list counts as set though
\* nothing could be read of it, and then means errors at random.
NegativesToo(list) ==
    {list[i] : i \in {j \in DOMAIN list : \A k \in 1..j : list[k] # NoNumber}}
Numbers(list) ==
    {list[i] : i \in {j \in DOMAIN list : /\ \A k \in 1..j : list[k] # NoNumber
                                          /\ list[j] >= 0}}
GivesList(list) == list # Unset /\ Numbers(list) # {}
GivesRandom(list) == list # Unset /\ Numbers(list) = {}

\* The constructors of g_PktMgr and g_SetsMgr, before main.  A list of packets
\* to flip is accepted and has no effect.
LoadEnvData(p) ==
    LET e == Env(p)
    IN  /\ errorRate' = [errorRate EXCEPT ![p] = IF IsSet(e.rate) THEN e.rate ELSE 0]
        /\ debug' = [debug EXCEPT ![p] = IF IsSet(e.debug) THEN e.debug ELSE 0]
        /\ seed' = [seed EXCEPT ![p] = IF IsSet(e.seed) THEN "environment" ELSE "time"]
        /\ constant' = [constant EXCEPT ![p] =
             IF GivesList(e.drop) THEN <<errorDrop(FALSE, Numbers(e.drop))>> ELSE <<>>]
        /\ chance' = [chance EXCEPT ![p] =
             (IF GivesRandom(e.drop) THEN <<errorDrop(TRUE, {})>> ELSE <<>>)
             \o (IF GivesRandom(e.flip) THEN <<errorFlipBits>> ELSE <<>>)]

\* setUserMode_...: what a program asks for counts only where the environment
\* says nothing.
AsksAgain(inEnvironment, asked, setting) == asked
UserMode(inEnvironment, asked, setting) == IF inEnvironment THEN setting ELSE asked

\* sendErr_init, as the programs call it: DROP_ON, DEBUG_ON and RSEED_ON, and
\* FLIP_ON or FLIP_OFF.
FlipsAnyway(flip) == <<errorFlipBits>>
FlipEvents(flip) == IF flip THEN <<errorFlipBits>> ELSE <<>>
SendErrInit(p, flip) ==
    LET e == Env(p)
        drops == Append(chance[p], errorDrop(TRUE, {}))
        events == UserMode(e.drop # Unset, drops, chance[p])
    IN  /\ constant' = [constant EXCEPT ![p] = Append(@, infoSeqNo)]
        /\ errorRate' = [errorRate EXCEPT ![p] = UserMode(IsSet(e.rate), AskedRate, @)]
        /\ chance' = [chance EXCEPT ![p] =
             UserMode(e.flip # Unset, events \o FlipEvents(flip), events)]
        /\ seed' = [seed EXCEPT ![p] = UserMode(IsSet(e.seed), "time", @)]
        /\ debug' = [debug EXCEPT ![p] = UserMode(IsSet(e.debug), 1, @)]

\* bindMod: the environment's port is for the first bind of a process that
\* goes through the library, and each child makes one.  atol makes 0 of a text
\* without a number, htons takes the lower 16 bits of the number, and with 0 the
\* system picks a port.
WantedPort(p) == IF IsSet(Env(p).port) THEN Env(p).port % 2^16 ELSE 0
FreePorts == Ports \ {port[p] : p \in Process}
Bindable(p) == IF WantedPort(p) = 0 THEN FreePorts ELSE FreePorts \cap {WantedPort(p)}
Binds(p, bindable) ==
    \/ bindable = {} /\ UNCHANGED port
    \/ \E n \in bindable : port' = [port EXCEPT ![p] = n]

-----------------------------------------------------------------------------
(* The processes.                                                          *)

\* A program starts: its constructors run.
Start(p) ==
    /\ phase[p] = "none"
    /\ phase' = [phase EXCEPT ![p] = "loaded"]
    /\ LoadEnvData(p)
    /\ UNCHANGED <<environment, msgNo, port, outcomes, last>>

\* stateInit of rcopy.
RcopyInit ==
    /\ phase[Rcopy] = "loaded"
    /\ phase' = [phase EXCEPT ![Rcopy] = "ready"]
    /\ SendErrInit(Rcopy, FALSE)
    /\ UNCHANGED <<environment, msgNo, port, outcomes, last>>

\* main of the server: udpServerSetup binds without the library, to the port of
\* the command line or one the system picks, and a failing bind ends it.
ServerInit ==
    /\ phase[Server] = "loaded"
    /\ Binds(Server, {}) \/ Binds(Server, FreePorts)
    /\ IF port'[Server] = 0
       THEN phase' = [phase EXCEPT ![Server] = "exited"] /\ UNCHANGED settings
       ELSE phase' = [phase EXCEPT ![Server] = "ready"] /\ SendErrInit(Server, FALSE)
    /\ UNCHANGED <<environment, msgNo, outcomes, last>>

\* forkMod: a child has a copy of everything but the socket, which it closes.
Inherit(f, c) == [f EXCEPT ![c] = f[Server]]
ServerForks(c) ==
    /\ phase[Server] = "ready" /\ phase[c] = "none"
    /\ phase' = [phase EXCEPT ![c] = "forked"]
    /\ errorRate' = Inherit(errorRate, c) /\ debug' = Inherit(debug, c)
    /\ seed' = [seed EXCEPT ![c] = UserMode(IsSet(Env(c).seed), "fork", seed[Server])]
    /\ constant' = Inherit(constant, c) /\ chance' = Inherit(chance, c)
    /\ msgNo' = Inherit(msgNo, c)
    /\ UNCHANGED <<environment, port, outcomes, last>>

\* childInfo: when bind fails, the child goes on with what it inherited.
ChildInfo(c) ==
    /\ phase[c] = "forked"
    /\ phase' = [phase EXCEPT ![c] = "ready"]
    /\ Binds(c, Bindable(c))
    /\ IF port'[c] = 0 THEN UNCHANGED settings ELSE SendErrInit(c, TRUE)
    /\ UNCHANGED <<environment, msgNo, outcomes, last>>

\* runChild closes the socket.
ChildExits(c) ==
    /\ phase[c] = "ready"
    /\ phase' = [phase EXCEPT ![c] = "exited"]
    /\ port' = [port EXCEPT ![c] = 0]
    /\ UNCHANGED <<environment, settings, msgNo, outcomes, last>>

\* runMsgEvents: the events run in order, up to one that drops the packet.
ListedBefore(event, no) == event.kind = "drop" /\ (event.all \/ no - 1 \in event.list)
Drops(event, no) == event.kind = "drop" /\ (event.all \/ no \in event.list)
Dropped(events, no) == \E i \in DOMAIN events : Drops(events[i], no)
RunsOn(events, no, i) == TRUE
Reached(events, no, i) == \A j \in 1..(i - 1) : ~Drops(events[j], no)
AfterRun(events, no) ==
    [i \in DOMAIN events |->
        IF events[i].kind = "info" /\ Reached(events, no, i)
        THEN [events[i] EXCEPT !.seen = @ + 1] ELSE events[i]]

\* processEvents: what may arrive of a packet.  An error strikes when the number
\* drawn is not above the rate, and is one of the events; a packet that was to
\* be dropped before stays so.
Strikes(p, drawn) == chance[p] # <<>> /\ drawn <= errorRate[p]
Struck(event, packet, no) ==
    IF Drops(event, no) THEN {Nothing}
    ELSE IF event.kind = "flip" THEN {FlipByte(packet, i) : i \in DOMAIN packet}
    ELSE {packet}
Arrivals(p, packet, no, drawn) ==
    IF Dropped(constant[p], no) THEN {Nothing}
    ELSE IF Strikes(p, drawn)
         THEN UNION {Struck(chance[p][k], packet, no) : k \in DOMAIN chance[p]}
         ELSE {packet}

\* sendtoErr works on a copy, whose length and address nothing changes.
SendtoErr(p) ==
    /\ phase[p] = "ready" /\ p \in Senders
    /\ msgNo[p] < MaxMsgs
    /\ msgNo' = [msgNo EXCEPT ![p] = @ + 1]
    /\ constant' = [constant EXCEPT ![p] = AfterRun(@, msgNo'[p])]
    /\ \E body \in Bodies, drawn \in 0..(RateOne - 1) :
          LET packet == WithChecksum(body)
          IN  \E got \in Arrivals(p, packet, msgNo'[p], drawn) :
                /\ last' = [from |-> p, sent |-> packet, got |-> got]
                /\ outcomes' = [outcomes EXCEPT ![p] = Append(@,
                     IF got = Nothing THEN "lost"
                     ELSE IF got = packet THEN "intact" ELSE "damaged")]
    /\ UNCHANGED <<environment, phase, errorRate, debug, seed, chance, port>>

Next ==
    \/ \E p \in Programs : Start(p)
    \/ RcopyInit \/ ServerInit
    \/ \E c \in Children : ServerForks(c) \/ ChildInfo(c) \/ ChildExits(c)
    \/ \E p \in Senders : SendtoErr(p)

Spec == Init /\ [][Next]_vars

-----------------------------------------------------------------------------
(* What the library promises.                                              *)

Loaded(p) == phase[p] \notin {"none", "exited"}
CountOf(events, kind) == Cardinality({i \in DOMAIN events : events[i].kind = kind})

\* The environment has precedence over whatever the programs ask for, and over
\* what a child asks for again after it inherited it (SettingsManager.h:4-6,
\* network-hooks.c:190-197): its numbers are the ones in force, the drops are
\* those it names, once, and so are the flips it asks for at random; a child is
\* bound to its port or to none.  A list of packets to flip, which
\* SettingsManager.h:17-18 offers, is never honoured (SettingsManager.cpp:240-243),
\* and nothing is said of it here.
EnvironmentWins ==
    \A p \in Process : Loaded(p) =>
        /\ IsSet(Env(p).rate) => errorRate[p] = Env(p).rate
        /\ IsSet(Env(p).debug) => debug[p] = Env(p).debug
        /\ IsSet(Env(p).seed) => seed[p] = "environment"
        /\ GivesList(Env(p).drop) =>
             CountOf(constant[p], "drop") = 1 /\ CountOf(chance[p], "drop") = 0
        /\ GivesRandom(Env(p).drop) =>
             CountOf(constant[p], "drop") = 0 /\ CountOf(chance[p], "drop") = 1
        /\ GivesRandom(Env(p).flip) => CountOf(chance[p], "flip") = 1
        /\ p \in Children /\ WantedPort(p) # 0 => port[p] \in {0, WantedPort(p)}

\* When the environment lists the packets to drop, exactly those are lost: the
\* first, second, ... that the process itself sends.  A child inherits the list
\* and the counter of its parent, which sends nothing, so its own first packet
\* has number 1 (network-hooks.c:56-73, PacketManager.cpp:369).
ListedDrops ==
    \A p \in Process : GivesList(Env(p).drop) =>
        \A i \in DOMAIN outcomes[p] : outcomes[p][i] = "lost" <=> i \in Numbers(Env(p).drop)

\* The receiver's checksum accepts a packet exactly if it arrives as it was
\* sent, whichever byte the library inverts, the checksum's own included
\* (errorFlipBits.cpp:24, server.c:272, rcopy.c:317).
DamageNoticed ==
    last # Nothing /\ last.got # Nothing =>
        (in_cksum(last.got) = 0 <=> last.got = last.sent)

\* Every infoSeqNo of a process, inherited or its own, has counted all packets
\* the process sent but the listed drops, which stop the run of events before
\* it (infoSeqNo.h:2-5, PacketManager.cpp:123-126).
ReportsAgree ==
    \A p \in Process : \A i \in DOMAIN constant[p] : constant[p][i].kind = "info" =>
        constant[p][i].seen =
            Cardinality({k \in DOMAIN outcomes[p] :
                ~(GivesList(Env(p).drop) /\ k \in Numbers(Env(p).drop))})

\* Only a child may corrupt, or a program whose environment asks for it, and
\* to the receiver a packet is what was sent, nothing, or garbage: the library
\* implements the faults that Transfer and Session assume (server.c:87, 212,
\* rcopy.c:183).
Faults ==
    INSTANCE FaultModel WITH
        Packets <- {WithChecksum(body) : body \in Bodies},
        Garbled <- NoNumber,
        flipping <- {p \in Senders : \/ GivesRandom(Env(p).flip)
                                     \/ p \in Children /\ Env(p).flip = Unset},
        last <- IF last = Nothing \/ last.got = Nothing \/ in_cksum(last.got) = 0
                THEN last ELSE [last EXCEPT !.got = NoNumber]
ImplementsFaultModel == Faults!Spec
=============================================================================
