# A verified model of rcopy and its server

`rcopy` fetches a file from `server` over UDP with a windowed protocol of
selective rejects. This directory holds a TLA+ model of the two programs, the
TLC runs that check it on small instances, and TLAPS proofs of its main safety
properties for every instance. `PROJECT.json` is the index: components, runs,
the lines each definition models, hazards, theorems.

## Inventory

| component | state it keeps | operations | made correct by |
|---|---|---|---|
| sender, the server's child (`server.c` `transferData`) | `base`, `nextSeq`, panes, `eofSent/eofSeq/eofAcked`, `attempts` | initial window, RR, SREJ, EOF_ACK, `send_next_data`, `retransmit_packets` | a chunk stays in its pane until acknowledged; the window is respected; only EOF_ACK ends it |
| receiver (`rcopy.c` `stateFileReceive`) | `expectedSeq`, panes, `attempts`, `eof`, the output file | buffer, write in order, RR, SREJ, EOF, repeat RR on a timeout | blocks in order; EOF only after all data; the output is the file |
| window buffer (`windowBuffer.c`) | panes, `lower`, `upper` | `init_window`, `slide_window`, `free_window` | a pane is found by number modulo window size |
| packets (`helperFunctions.c`) | none | `sendPdu` | a packet that arrives as it was sent passes the checksum |
| handshake (`rcopy.c` `stateHandshake`) | `attempts`, the open socket, the server's address | send the filename, take the answer, give up an attempt, back off | the peer answered this attempt; a refusal is a refusal |
| parent of the server (`server.c` `runServerFSM`) | its socket | check a request, fork a child | one child for every request |
| child before the transfer (`childInfo`, `processClient`) | client address, window and buffer size, file name | answer, open the file | an orphan ends |
| error injection (`libcpe464`) | the environment's settings, rate, events, seed, message number, port override | load the environment, `sendErr_init`, `fork`, `bind`, `sendtoErr` | the environment has precedence; listed packets are lost and no others; who may corrupt |
| checksum (`libcpe464/checksum.c`) | none | `in_cksum` | the inversion of one byte always changes the sum |
| poll set (`pollLib.c`) | table of descriptors, its size, the greatest descriptor | `setupPollSet`, `addToPollSet`, `removeFromPollSet`, `pollCall` | the table is not overrun; it asks about the socket in use; a result means a packet |
| sockets, names, checked calls (`networks.c`, `gethostbyname.c`, `safeUtil.c`) | none | system calls | a failure ends the program |
| arguments, test script | none | parsing; runs and `cmp` | |

The processes share nothing. rcopy sends its request to the parent's socket;
the parent forks a child that opens a socket of its own, answers from there
and sends the file; rcopy takes the sender of the answer for its server. From
then on RR (flag 5), SREJ (6) and EOF_ACK (10) go to the child and data (16)
and EOF (10) to rcopy. Each process has one thread that polls its socket for
a second at a time; nothing is persisted.

What is hard: packets lost, duplicated, reordered and corrupted in either
direction; panes reused while old packets are under way; a timeout that races
the packet it waits for; the end of the file, which is met in two ways (a
short read, an empty read) in two loops; who leaves first; answers to
attempts that were given up; a child that leaves after it said "Ok", or that
has no port; settings that a child inherits and then asks for again; standard
input showing through the unused entries of the poll set. The list of hazards with their lines is in
`PROJECT.json`.

`old_bitch.h>`, `old_bitch_client.h>` and `PacketManager.cpp.bak` are earlier
versions that nothing compiles; logs, input and output files are samples.

## The modules

| module | models |
|---|---|
| `WindowBuffer` | panes, chunks of the file, what `fread` and `feof` say of them |
| `Pdu` | packets, flags, the two socket queues and what the network does to them |
| `Transfer` | `transferData` and `stateFileReceive`, step by step, with their properties |
| `TransferInv` | the inductive invariants |
| `FileCopy` | the abstract specification: a reader copies blocks in order, the source learns late how far it is |
| `MCTransfer` | the instances for TLC, and the liveness properties |
| `Session` | the handshake, the parent, the children up to the first block |
| `MCSession` | the instances of Session for TLC |
| `Checksum` | `in_cksum`, the checksum of `sendPdu`, the inverted byte |
| `ErrorLibrary` | `libcpe464` in rcopy, the server and its children |
| `FaultModel` | the abstract specification of the library: a packet arrives, or not, or is refused |
| `MCErrorLibrary` | its instance for TLC |
| `PollSet` | `pollLib.c` with the descriptors of rcopy and of the server and its child |
| `MCPollSet` | its instance for TLC |
| `TransferTypeProofs` | lemmas about panes, chunks and queues; type correctness of Transfer |
| `TransferFaultProofs` | what holds of Transfer under every fault |
| `TransferProofs` | what holds of it unless packets of the child are corrupted and the file is longer than the window; that it implements FileCopy; the bytes of the output |
| `SessionProofs`, `PollSetProofs` | the invariants of Session and PollSet |
| `ChecksumProofs` | what `in_cksum` makes of packets, whole and with a byte inverted |
| `ErrorLibraryProofs` | the invariants of ErrorLibrary, and that it implements FaultModel |
| `NaturalInduction` | induction for a set of numbers |

Session leads to the packet numbered 0, where Transfer begins. Both take from
the library what `FaultModel` says, and `ErrorLibrary` is shown to implement
it. Both poll through `pollCall`, which they take for a poll that returns a
packet or runs out; PollSet shows when that is so.

Some modules hold operators that the specification does not use
(`ForgetsToCount`, `AsksAgain`, `OneCarry`, ...). Each is a mistake that could
have been made in the operator after it, and `PROJECT.json` names the property
that breaks when the one is put in the place of the other.

### Transfer

A step of a process runs to its next `sendPdu` or `pollCall`; everything
between two of them touches only the process's own memory. `childPc` says
which loop the child is in: `initial` and `initialEof` (server.c:248-262, the
second between the short last chunk and the EOF packet that follows it),
`poll` (265-299), `fill` (283-285), `resend` (350-359), `done` (after 300).
`rcopyPc` is `recv` (rcopy.c:300-361), `flush` (the inner loop, 345-350) or
`done`. One action stands for one branch:

| action | code |
|---|---|
| `ChildInitialData`, `ChildInitialEof` | server.c:248-262, `send_eof_packet` |
| `ChildIgnores`, `ChildRecvRR`, `ChildRecvSREJ`, `ChildRecvEofAck` | server.c:268-296 |
| `ChildFill` | `send_next_data` |
| `ChildTimeout`, `ChildResend` | server.c:297, `retransmit_packets` |
| `RcopyAnswers` | rcopy.c:317-320, 333-335, 356-361: nothing changes but a reply is sent |
| `RcopyRecvEof` | rcopy.c:327-332 |
| `RcopyRecvExpected`, `RcopyFlush`, `RcopyFlushed` | rcopy.c:337-350 |
| `RcopyRecvAhead` | rcopy.c:337-355 |
| `RcopyTimeout` | rcopy.c:303-308 |

A byte of the file is its position; `Junk` (0) is a byte of memory that was
never set. A pane keeps the bytes behind a short copy, as the buffer does. A
packet is flag, number, bytes and whether its checksum is right. `Garbled` is
any corrupted packet: both ends drop it on its checksum before they look at
anything else. The error library inverts a single byte; a byte b becomes
255-b, which changes the ones' complement sum by an odd amount below 65535,
so it is always noticed (`DamageNoticed`).

`Timely` says what a second is worth. FALSE: a poll may run out whenever the
queue is empty, even if a packet is about to arrive; every interleaving is
covered, and the safety runs that look for reordering use it. TRUE: a poll
runs out only when no packet is under way and the other end is waiting too,
the usual case on a network whose delays are far below a second; liveness,
and findings that must not rest on an odd delay, use it.

`DATA` of a corrupted packet has number 0 in the model; nothing reads it.

### Session

rcopy closes its socket after every failed attempt and opens another
(rcopy.c:245-246), so the number of failed attempts names the socket, and an
answer reaches rcopy only while its socket is the open one. Each request,
duplicates included, gets a child; a child answers what `access` says at that
moment, opens the file (which may fail all the same), sends packet 0 and
repeats it on timeouts. rcopy is followed up to the first block it writes: a
packet of the transfer phase is data by its number alone, so an answer, which
is numbered 0, would be written. A corrupted packet is read by its flag and
text in the handshake, because no checksum is computed there.

A `bind` that fails in `childInfo` leaves the child without a client
(`NoClient`) and with whatever `attempts` the memory held; `-1` stands for
every number below 0. Such a child leaves at once if `sendto` refuses the
address, and else sends to nobody until it has counted to `MAX_ATTEMPTS`.

rcopy's own timeouts are followed until its first block is written: that is
where a child that left after "Ok" (`ChildOpens`) is met. Every packet rcopy
sends in that time wakes its peer (`PeerHears`). Not followed: later packets,
which are Transfer's matter, and more than one client.

### ErrorLibrary

A process goes `none`, `loaded` (the constructors of `g_PktMgr` and
`g_SetsMgr` have run), `ready` (`sendErr_init`), a child `forked` between the
two; both inits are part of `stateInit`, `main` and `childInfo`.

| action | code |
|---|---|
| `Start` | `SettingsManager` constructor, `loadEnvData*` |
| `RcopyInit`, `ServerInit` | rcopy.c:183, server.c:80-93 with `sendErr_init` |
| `ServerForks` | `forkMod`: a child inherits settings, events and the message counter |
| `ChildInfo` | server.c:173-215: `bindMod`, then a second `sendErr_init` |
| `ChildExits` | server.c:228 |
| `SendtoErr` | `sendto_Err`, `processEvents`, `runMsgEvents` |

An environment variable is unset, a text without a number, or a number or a
list of them. The random numbers of the library may be anything, so a seed is
only where it came from. Packets are sequences of bytes, since the checksum
is computed on them, and arrive as a packet, as nothing, or with a byte
inverted.

`networks.c` does not include `cpe464.h`, so the server's own `bind` does not
go through the library; the port of `CPE464_OVERRIDE_PORT` is given to the
first `bind` of each child instead, all of which want the same one.
SettingsManager.h:10 says it is for the "first" bind. `EnvironmentWins` says
that a child has that port or none: where another process holds it, the child
goes on as one whose `bind` failed, and without its own `sendErr_init`. That
the system gives a port to one process at a time is taken for granted
(`FreePorts`). `htons` takes the lower 16 bits of the number, so 65537 asks
for port 1, and 65536 for any (`WantedPort`).

### PollSet

One program is followed, rcopy or the server and then its child, from call to
call of the poll set and of the calls that open or close a descriptor.
Descriptors are numbers; the system gives the lowest free one, which is what
makes the entry of the handshake's socket right after the socket was
replaced (rcopy.c:245-247). Unused entries name descriptor 0 and ask for
nothing, but `poll` reports `POLLHUP` and `POLLNVAL` unasked, so standard
input is part of the state: quiet, with input waiting, hung up, or closed.

While standard input is open and has not hung up, a result of `pollCall` is
the socket (`NoPacketOverlooked`, `NeverBlocks`). When it hung up, `pollCall`
returns 0 at once: the transfer counts that as a silent second, and so gives
up after `MAX_ATTEMPTS` polls without waiting, while the handshake takes it
for an answer (`>= 0`, rcopy.c:206) and waits in `recvfrom` without limit.
`NeverBlocks` and `Ends` except rcopy's handshake in that case, and the
comment of pollLib.c:65-66 ("returns the socket number if one is ready for
read", "returns -1 if timeout occurred") does not hold of it.

## The runs

| run | instance | question |
|---|---|---|
| `transfer_ordered` | window 2, 3 full chunks and a short one, 2 faults: loss, duplication, reordering both ways, corrupted replies | `BlocksInOrder`, `AckedIsWritten`, `UnacknowledgedKept`, `WindowRespected`, `EofAfterFullChunks`, the inductive invariant `IInv`, and `ImplementsFileCopy` |
| `transfer_faulty` | window 3, 2 full chunks, 2 faults of every kind, both ways | `AnyFaultInv`, `IInv`, `EofAfterFullChunks`, `DeliveredExactly` |
| `transfer_terminates` | window 3, 2 full chunks and a short one, 4 faults of every kind, 2 attempts | `Termination`, `WholeInv`, `NothingMissing`, `AckMeansEof` |
| `transfer_completes` | window 3, 5 chunks, 3 faults of rcopy's packets, 4 attempts | `Completion`, `WholeInv`, `DeliveredExactly` |
| `session_safe` | 3 attempts, 2 faults: loss, corrupted requests, `fork`, `bind`, `fopen` | `PeerIsItsOwn`, `OneChildReaches`, `FirstBlockIsFile`, `RefusedIfUnreadable` |
| `session_ends` | 2 attempts, 1 fault of any kind | `HandshakeEnds`, `ReceiveEnds`, `OrphansEnd` |
| `error_library` | rcopy, server, 2 children, 2 ports, 4 pairs of environments, 2 packets of each process | `EnvironmentWins`, `ListedDrops`, `DamageNoticed`, `ReportsAgree`, and `ImplementsFaultModel` |
| `poll_set` | a poll set of 4, sockets numbered up to 5, 6 sets of descriptors to start with, 3 attempts, 4 packets | `InBounds`, `WatchesItsSocket`, `NeverBlocks`, `NoPacketOverlooked`, `Ends` |

Four more runs end in a violation; each shows a disagreement between the code
and what the repository says of it.

| run | what happens |
|---|---|
| `truncation` | the short last chunk is lost; it carried the EOF flag and is repeated without its bytes. `rcopy_download_files/DD.txt` has 1207000 bytes for the 1207658 of `test_files/DD.txt`. |
| `stale_resend` | window 1: an SREJ for a number that was never sent is answered with the old contents of its pane |
| `equal_timers` | the EOF packet is lost; each second rcopy's repeated RR, a duplicate, restarts the child's second before the child retransmits, and rcopy gives up. `logs/medium.dat_w1_b1000_e0.2_1741585740.log` ends in such a row, "Timeout 1/10" to "Timeout 10/10". |
| `duplicated_request` | a duplicated request: the second child's answer is written as the first block |

Of what the code does besides, without a run of its own:

- The last block is written with `buffer_size` bytes whatever its length
  (rcopy.c:347), so a file that ends in a short chunk within the first window
  gains bytes without any fault. `rcopy_download_files/spdrman.txt` has 57000
  bytes for the 56006 of `spiderman.txt`. `DeliveredExactly` is false of such
  a file with `MaxFaults` 0; `transfer_faulty` and `transfer_completes`, which
  ask for the very bytes of the file, therefore have a file of full chunks.
- SettingsManager.h:17-18 offers a list of packets to flip. `loadEnvData_ErrFlip`
  reads one and returns -1 at a TODO (SettingsManager.cpp:238-244): the listed
  packets are not damaged, and since the variable counts as set, the
  corruption the child asks for is switched off as well (345-350).
  `LoadEnvData` and `ImplementsFaultModel` hold what the code does;
  `EnvironmentWins` claims nothing of such a list.
- When standard input has hung up, the handshake waits in `recvfrom` without
  limit (above, under PollSet); `NeverBlocks` and `Ends` except it.
- The checksum of the handshake's answer is not computed, so a corrupted "Ok"
  is taken for a refusal; `session_safe` therefore corrupts requests only, and
  `RefusalSafe` assumes that answers are not corrupted.
- checksum.c:37-40 asks that the byte after data of odd length be zero;
  `in_cksum` takes an odd last byte by itself and never reads it, which
  `sendPdu` relies on.

In `equal_timers` the child's and rcopy's second never end in an order fixed
by the model; that rcopy's ends first is the usual order, since its last poll
began before the RR that restarted the child's.

### Bounds

- `MaxFaults` (1 to 4) bounds faults per behaviour, all kinds together. Two
  are enough for a loss with a late or doubled copy of the same packet, for a
  loss of both a packet and its retransmission, and every mutation in
  `PROJECT.json` is noticed within them.
- `WindowSize` 2 or 3 with up to 5 chunks reuses panes, has gaps to fill and,
  with the initial EOF packet, exceeds the window by one.
- `BufSize` 2 tells short from full chunks; 1 is used where only the number
  of packets matters.
- `MaxAttempts` is 10 in the code, 2 to 4 in the runs: more than one, so that
  attempts are counted and cleared, fewer than the faults in
  `transfer_terminates`, more than them in `transfer_completes`.
  `equal_timers` uses 10.
- `QCap` is the number of packets a socket buffer holds; a full one loses
  packets, which the safety runs reach.
- `Session`: one child per attempt and fault, numbered in order of creation.
- `error_library`: the environments hold every kind of variable (unset, no
  number, a number, lists with and without numbers), and the server's and
  rcopy's differ. Two children meet over one port. A rate of 2 stands for
  1.0: never, half of the draws, always. The body's sum carries a second time
  when it is folded. With two packets a listed drop can hit the first or the
  second.
- `poll_set`: a socket just below, at and above the size of the poll set (4
  for the code's 10), and as low as 0, when a program is started without
  standard descriptors. The child without a port has any number of attempts
  from -1, which stands for all below 0: they count up in the same way.

The proofs use none of these values.

### Fairness

`FairSpec` asks weak fairness of each process as a whole: one that can always
take some step takes one, which is what the operating system's scheduler
does. The network is not fair: a fault may or may not happen. In Transfer a
poll that runs out is one of the process's steps. In PollSet it is weak
fairness of the program's steps; packets need not come. `Termination` holds with
more faults than attempts because each fault is spent once and the attempts
are bounded. `Completion` is asked only without loss of the child's packets
(`equal_timers` shows why) and with fewer faults than attempts.

Deadlock is checked in Transfer, whose end is the explicit step `Finished`.
It is not in Session, where the parent waits for requests for ever, nor in
ErrorLibrary, which stops when every packet has been sent, nor in PollSet,
whose programs end and where rcopy may wait in `recvfrom` for ever.

## What is proved

The theorems on Transfer are of `Spec`, for every window, buffer and file size, every
queue capacity and number of attempts and faults, and both values of `Timely`.
The assumptions are those on the constants: `WindowAssumption` (window and
buffer at least 1), `NetworkAssumption` and `TransferAssumption`.

1. `TypeCorrect`: `[]TypeOK`, inductive as it stands, from lemmas on panes
   and packets.
2. `AnyFault`: `[]AnyFaultInv`, with nothing assumed of the faults. The
   strengthening says where the child may be in each loop (`ChildLoopInv`: in
   `fill` there is room, in `resend` there is something left) and why an EOF
   packet or its acknowledgement is under way (`EofCauseInv`). From it follow
   `PanesSafe`, `WindowSafe` and `AckSafe`, and that rcopy has written as many
   blocks as there are full chunks when it accepts the EOF packet
   (`EofCounted`), whatever is in them. The heart of `PanesSafe` is that two
   numbers of one window map to different panes (`SlotDistinct`), so that
   filling one leaves the others.
3. `Inductive`: `[]IInv`, assuming `CleanChild`, that no packet of the child
   is corrupted, or `FileFits`, that the full chunks are fewer than the panes
   of the window. `IInv` relates every place a chunk can be: packets under way
   to rcopy are right unless they are already acknowledged (`ToClientInv`),
   requests under way name only what was sent, and acknowledgements only what
   was written (`ToChildInv`), panes of rcopy hold the chunk of their label
   until it is written (`RcopyPanesInv`), and the output has a block for
   every number before `expectedSeq` (`OutputInv`). From it `AckedSafe` and
   `OrderSafe`; and with `EofCounted` `EofSafe`, that every full chunk is in
   its place in the output once the EOF packet is accepted. None of these is
   inductive alone: the order of the output needs the panes, the panes need
   the packets, the packets need the child's panes, and those need that RRs
   acknowledge only what was written.
4. `CopyImplemented`: `Spec => ImplementsFileCopy` under the same assumption.
   With `IInv` a block that is written in its turn and begins with a full
   chunk is that chunk (`WholeBlock`), so `RcopyFlush` copies the next block
   of FileCopy or writes beyond the last (`FlushCopies`); an RR teaches the
   source a number that was written, by `ToChildInv`; `EofCounted` says that
   the reader finishes with everything; every other step stutters.
5. `OutputWhole`: `[]WholeInv`, assuming besides `EofAlone`, that the file
   ends at a chunk boundary or fits the window. Then the EOF packet has the
   number after the last chunk (`EofNumberInv`), is empty wherever it is under
   way (`EmptyEofInv`), and the output is made of blocks of `BufSize` bytes
   (`WholeBlocksInv`). From it and `IInv` the two theorems on the bytes:
   `Delivered`, for a file that ends at a chunk boundary, the output is the
   file once rcopy has accepted the EOF packet; `FittingFileArrives`, no byte
   of a file that fits the window is missing then, and this under every fault.
   They join the blocks by the recursive function behind `FlattenSeq`, which
   is shown to exist, and is followed block by block, with `Induction`.

One of `CleanChild` and `FileFits` is needed: with both dropped,
`BlocksInOrder` is false (`stale_resend`). A corrupted packet makes rcopy
reject the number it waits for, which may not have been sent yet; when the
file fits the window, the child listens only after all has been sent. The
child does corrupt packets when the error library is on (server.c:212), so of
a longer file `OrderSafe`, `EofSafe`, `AckedSafe`, `CopyImplemented` and
`Delivered` say
what the protocol gives on a network that loses, repeats and reorders packets,
and whatever rcopy's own packets suffer; the theorems of item 2 need nothing
of the kind. `EofAlone` is needed for the last two: without it the end of the
file can be lost (`truncation`).

The theorems on Session are for every number of attempts, buffer, bound and
set of faults (`SessionAssumption`).

6. `SessionInductive`: `[]SInv`, whatever faults occur: `TypeOK`; who counts
   has attempts left (`CountInv`); every packet that waits for rcopy is from a
   child that serves the open socket and has answered, and an "Ok" from one
   that meant it (`RepliesInv`). That makes `PeerIsItsOwn` inductive: the
   packet at the head of the queue is all that `HandshakeOk` sees. From it
   `SessionTypeCorrect` and `PeerSafe`.
7. `RefusalSafe`, assuming that no packet of a child is corrupted: then a
   "Not Ok" under way was said by a child that is denied.
8. `OneChildSafe`, assuming that no request is duplicated: requests and
   children are of different attempts, and none is of an attempt to come
   (`UniqueInv`).
9. `FirstBlockSafe`, assuming that nothing is duplicated: an answer is the
   first packet of its child, and by `UniqueInv` no other child sends to the
   socket, so it is taken before rcopy comes to receive (`AnswerFirst`).
   With a duplicated request it is false (`duplicated_request`).

The theorems on PollSet are for every size of the poll set, every number of
attempts and descriptors and every set of descriptors a program may start
with (`PollSetAssumption`).

10. `PollSetInductive`: the table is blank before a socket is added and watches
   the one in use after (`TableInv`), and every number below the handshake's
   socket is taken (`DescriptorInv`), which is why the socket that replaces it
   gets the same number and the entry stays right. From it
   `PollSetTypeCorrect`, `TableBounds`, `WatchesSocket`, `NeverStuck` and
   `NothingOverlooked`.

`ChecksumProofs` is on operators, for packets of every length up to the 1407
bytes beyond which `sendPdu` sends nothing (`MaxPdu`); the bound is needed,
since `in_cksum` folds the carries of its sum twice.

11. `Accepted`, `Refused`: a packet with the checksum `sendPdu` computes
    passes, and with one byte inverted it does not. `WordSum` is a recursive
    function; what it gives for every length is shown by induction on the
    length, the set of lengths for which it holds being all of `Nat`
    (`NaturalInduction`, from the well-foundedness of `<`). The sum of the
    inverted packet differs by 255 - 2b or 256 times that (`WordSumOfChange`),
    and such a difference survives the folding (`FoldsToOnes`).

The theorems on ErrorLibrary are for every set of children, ports, packets and
environments, and every `RateOne` (`ProcessAssumption`, `LibraryAssumption`:
a packet has a header and no more than `MaxPdu` bytes).

12. `Typed`: `[]TypeOK`, inductive as it stands.
13. `NoDamageUnnoticed`: from `Typed` and item 11. An inversion spares
    no byte, so what arrives is the packet, or it with one byte inverted.
14. `EnvironmentPrevails`, from `SettingsInv`: the numbers in force are those
    of the environment (`NumbersInv`), the listed drops stand first among the
    constant events with the environment's list, before any report
    (`ConstantInv`), and of each kind of chance event there is one or none
    (`ChanceInv`). A child inherits this from the server, whose environment is
    its own. `PortInv` adds the port: inductive as it stands, since only
    `ChildInfo` binds a child.
15. `ListedAreLost` and `ReportsCount`, from `SettingsInv` and the count of a
    process's own packets (`CountInv`: the server sends none, so a child
    starts at 0). Since the drops stand first, a listed packet reaches nothing
    else, and a report counts all the others.
16. `FaultModelImplemented`: every `SendtoErr` is a step of `FaultModel`, and
    every other step changes nothing it sees. Who may corrupt comes from
    `ChanceInv`, that the damage is seen from item 13.

Only model-checked: liveness (`Termination`, `Completion`, `HandshakeEnds`,
`ReceiveEnds`, `OrphansEnd`, `Ends`), which is beyond the prover.

## What is not modelled

- The 32 bits of sequence numbers, and 0xFFFFFFFF as the mark of an unused
  pane: they matter after 2^32 packets.
- Several clients; the child takes the sender of any packet for its client.
- Several children or clients in PollSet: a child has a copy of its parent's
  table and of its descriptors, and only its own is followed.
- A window or a buffer of 0, which the code does not refuse; a buffer above
  the 1400 bytes of a pane.
- Corrupted packets on the network other than by the error library.
- Of the library: `send`, `recv` and `select`, which the programs do not
  call, `recvfrom`, which only passes on, the reports on exit, and the texts
  of the debug levels. `CPE464_AUTOGRADER` is read and has no effect.
- Functions without a caller in the two programs: TCP in `networks.c`, IPv4
  and the tests in `gethostbyname.c`, `safeSend`, `safeRecv`, `safeSendto`,
  `sendAck`, `validateChecksum`.
- In Session: an empty file, whose first packet is an EOF packet (Transfer has
  it); the end of rcopy where `sendPdu` fails in `sendFilename`
  (rcopy.c:280-284); and a port number that the system gives to a later socket
  of rcopy, or to a later child, while packets for the earlier one are under
  way: every socket is taken to have an address of its own.
- Where a call ends the program at once (`perror` and `exit` when memory, a
  socket or a name is not to be had), beyond the end itself (`Exits`).
- The parent never waits for its children; nothing in the code depends on it.
- Arguments: they are parsed once, before there is anything to go wrong, and
  the models' assumptions on window and buffer are what is not checked there.
  Output, and the test script, which runs the programs and compares files.

## Plan

1. Done: `WindowBuffer`, `Pdu`, `Transfer`, `FileCopy`, `Session`,
   `Checksum`, `ErrorLibrary`, `FaultModel`, `PollSet`, their runs, and the
   proofs above.
2. Proofs: that the output of any finished transfer has the full chunks of
   the file in front and is shorter than the file by less than one block; that
   a Session that reaches the first block leads to the initial states of
   Transfer.
3. Several clients in Session, whose children may hear of one another.
4. A variant of Transfer with numbers of w bits, for the wrap and the mark of
   unused panes.
