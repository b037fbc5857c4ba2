----------------------------- MODULE SessionProofs -----------------------------
(***************************************************************************)
(* What Session promises, for every number of attempts and faults and      *)
(* every size of the receive buffers.  Each theorem assumes of the faults  *)
(* only what it needs.                                                     *)
(***************************************************************************)
EXTENDS Session, TLAPS

\* A process that goes on has attempts left.
CountInv ==
    /\ rcopyPc \in {"send", "wait"} => attempts < MaxAttempts
    /\ rcopyPc # "left" => silent < MaxAttempts
    /\ rcopyPc = "receive" => peer \in Children
    /\ \A c \in Children : children[c].pc = "poll" => children[c].attempts < MaxAttempts

\* What waits for rcopy answers the attempt whose socket is open, and an "Ok"
\* was said by a child that meant it.
RepliesInv ==
    \A i \in 1..Len(toRcopy) :
        LET c == toRcopy[i].child
        IN  /\ children[c].client = attempts
            /\ children[c].pc \notin {"none", "answer"}
            /\ toRcopy[i].kind = "Ok" => children[c].pc # "denied"

SInv == TypeOK /\ CountInv /\ RepliesInv /\ PeerIsItsOwn

-----------------------------------------------------------------------------
(* Queues.                                                                 *)

\* A packet that reaches a queue is its last one, or is lost.
Grown(q, p, queued) ==
    /\ Len(queued) = Len(q) + 1
    /\ \A i \in 1..Len(q) : queued[i] = q[i]
    /\ queued[Len(q) + 1] = p

LEMMA ReplyQueued ==
    ASSUME NEW q \in Seq(Reply), NEW p \in Reply, Len(q) <= QCap,
           NEW queued, queued = Enqueue(q, p)
    PROVE  /\ queued \in Seq(Reply) /\ Len(queued) <= QCap
           /\ queued = q \/ Grown(q, p, queued)
BY SessionAssumption DEF Enqueue, Grown

LEMMA RequestQueued ==
    ASSUME NEW q \in Seq(Request), NEW p \in Request, Len(q) <= QCap,
           NEW queued, queued = Enqueue(q, p)
    PROVE  /\ queued \in Seq(Request) /\ Len(queued) <= QCap
           /\ queued = q \/ Grown(q, p, queued)
BY SessionAssumption DEF Enqueue, Grown

LEMMA Tails ==
    ASSUME NEW S, NEW q \in Seq(S), q # <<>>
    PROVE  /\ Tail(q) \in Seq(S) /\ Len(Tail(q)) = Len(q) - 1
           /\ Len(q) \in Nat /\ Len(q) > 0 /\ Head(q) = q[1] /\ Head(q) \in S
           /\ \A i \in 1..(Len(q) - 1) : Tail(q)[i] = q[i + 1]
OBVIOUS

-----------------------------------------------------------------------------
(* Sends and faults.                                                       *)

LEMMA InjectType ==
    ASSUME TypeOK, NEW what, NEW faulty, Inject(what, faulty)
    PROVE  faults' \in 0..MaxFaults
BY SessionAssumption DEF Inject, TypeOK

\* A child's packet of one kind reaches the open socket, as it is or misread,
\* or does not.
LEMMA SendsReply ==
    ASSUME TypeOK, NEW c \in Children, NEW kind \in {"Ok", "NotOk", "data"},
           ChildSends(c, kind)
    PROVE  /\ toRcopy' \in Seq(Reply) /\ Len(toRcopy') <= QCap /\ faults' \in 0..MaxFaults
           /\ \/ toRcopy' = toRcopy
              \/ \E r \in Reply :
                    /\ r.child = c /\ r.kind \in Misread(kind)
                    /\ r.ok => r.kind = kind
                    /\ r.kind = kind \/ "child" \in Flip
                    /\ rcopyPc \notin Ended /\ children[c].client = attempts
                    /\ toRcopy' = Enqueue(toRcopy, r)
                    /\ Len(toRcopy') = Len(toRcopy) + 1
                    /\ \A i \in 1..Len(toRcopy) : toRcopy'[i] = toRcopy[i]
                    /\ toRcopy'[Len(toRcopy) + 1] = r
<1> DEFINE Rep(k, ok) == [kind |-> k, child |-> c, ok |-> ok]
<1>1. \A k \in Misread(kind) : \A ok \in BOOLEAN : Rep(k, ok) \in Reply
  BY DEF Misread, Reply
<1>2. kind \in Misread(kind)
  BY DEF Misread
<1>3. toRcopy \in Seq(Reply) /\ Len(toRcopy) <= QCap /\ faults \in 0..MaxFaults
  BY DEF TypeOK
<1>4. CASE UNCHANGED toRcopy
  BY <1>3, <1>4, InjectType DEF ChildSends
<1>5. CASE toRcopy' # toRcopy
  <2>1. PICK k \in Misread(kind), ok \in BOOLEAN :
           /\ toRcopy' = Enqueue(toRcopy, Rep(k, ok)) /\ Reaches(children[c].client)
           /\ ok => k = kind
           /\ k = kind \/ "child" \in Flip
    BY <1>2, <1>5 DEF ChildSends, Inject
  <2>2. faults' \in 0..MaxFaults
    <3>1. (faults' = faults) \/ Inject("child", Drop) \/ Inject("child", Flip)
      BY DEF ChildSends
    <3> QED
      BY <1>3, <3>1, InjectType
  <2> DEFINE r == Rep(k, ok)
  <2>3. r \in Reply /\ r.child = c /\ r.kind = k /\ r.ok = ok
    BY <1>1, <2>1
  <2> HIDE DEF r
  <2>4. toRcopy' = Enqueue(toRcopy, r)
    BY <2>1 DEF r
  <2>5. /\ toRcopy' \in Seq(Reply) /\ Len(toRcopy') <= QCap
        /\ Len(toRcopy') = Len(toRcopy) + 1
        /\ \A i \in 1..Len(toRcopy) : toRcopy'[i] = toRcopy[i]
        /\ toRcopy'[Len(toRcopy) + 1] = r
    <3>1. r \in Reply
      BY <2>3
    <3>2. /\ toRcopy' \in Seq(Reply) /\ Len(toRcopy') <= QCap
          /\ Grown(toRcopy, r, toRcopy')
      BY <1>3, <1>5, <2>4, <3>1, ReplyQueued
    <3> QED
      BY <3>2 DEF Grown
  <2>6. rcopyPc \notin Ended /\ children[c].client = attempts
    BY <2>1 DEF Reaches
  <2>7. r.kind \in Misread(kind) /\ (r.ok => r.kind = kind) /\ (r.kind = kind \/ "child" \in Flip)
    BY <2>1, <2>3
  <2> QED
    BY <2>2, <2>3, <2>4, <2>5, <2>6, <2>7
<1> QED
  BY <1>4, <1>5

-----------------------------------------------------------------------------
(* The children.                                                           *)

\* A child goes forward and keeps its client, whatever happens.
Moves(c) ==
    /\ children[c].pc # "none" =>
          children'[c].pc # "none" /\ children'[c].client = children[c].client
    /\ children[c].pc \notin {"none", "answer"} =>
          /\ children'[c].pc \notin {"none", "answer"}
          /\ children'[c].pc = "denied" <=> children[c].pc = "denied"
    /\ children'[c].pc = "poll" => children'[c].attempts < MaxAttempts

Places == {"none", "answer", "denied", "open", "transfer", "poll", "done"}

LEMMA SetPc ==
    ASSUME NEW t \in [Children -> Child], NEW c \in Children, NEW p \in Places,
           NEW u, u = [t EXCEPT ![c].pc = p]
    PROVE  /\ u \in [Children -> Child]
           /\ u[c].pc = p /\ u[c].client = t[c].client /\ u[c].attempts = t[c].attempts
           /\ \A d \in Children : d # c => u[d] = t[d]
BY DEF Child, Places

LEMMA SetAttempts ==
    ASSUME NEW t \in [Children -> Child], NEW c \in Children, NEW n \in -1..MaxAttempts,
           NEW u, u = [t EXCEPT ![c].attempts = n]
    PROVE  /\ u \in [Children -> Child]
           /\ u[c].pc = t[c].pc /\ u[c].client = t[c].client /\ u[c].attempts = n
           /\ \A d \in Children : d # c => u[d] = t[d]
BY DEF Child

\* What an action does to the children: nothing, one request more, one packet
\* for the peer, or a step of one of them.
LEMMA PeerHeard ==
    ASSUME TypeOK, CountInv, rcopyPc = "receive", PeerHears
    PROVE  /\ children' \in [Children -> Child] /\ faults' \in 0..MaxFaults
           /\ \A d \in Children : Moves(d)
<1>1. peer \in Children /\ children \in [Children -> Child] /\ faults \in 0..MaxFaults
  BY DEF CountInv, TypeOK
<1>2. 0 \in -1..MaxAttempts /\ 0 < MaxAttempts
  BY SessionAssumption
<1>3. (faults' = faults) \/ Inject("rcopy", Drop)
  BY DEF PeerHears
<1>4. faults' \in 0..MaxFaults
  BY <1>1, <1>3, InjectType
<1>5. CASE children' = children
  BY <1>1, <1>4, <1>5 DEF Moves, CountInv
<1>6. CASE children' = [children EXCEPT ![peer].attempts = 0]
  <2>1. /\ children' \in [Children -> Child]
        /\ children'[peer].pc = children[peer].pc
        /\ children'[peer].client = children[peer].client /\ children'[peer].attempts = 0
        /\ \A d \in Children : d # peer => children'[d] = children[d]
    BY <1>1, <1>2, <1>6, SetAttempts
  <2>2. \A d \in Children : Moves(d)
    BY <1>2, <2>1 DEF Moves, CountInv
  <2> QED
    BY <1>4, <2>1, <2>2
<1> QED
  BY <1>5, <1>6 DEF PeerHears

LEMMA Forked ==
    ASSUME TypeOK, CountInv, ServerForks
    PROVE  /\ children' \in [Children -> Child] /\ faults' \in 0..MaxFaults
           /\ \A d \in Children : Moves(d)
           /\ \E c \in Children :
                 /\ children[c].pc = "none"
                 /\ \A d \in Children : d # c => children'[d] = children[d]
                 /\ children'[c].pc = "answer"
                 /\ children'[c].client \in {Head(toServer).client, NoClient}
<1>1. PICK c \in Children : 
         /\ children[c].pc = "none"
         /\ \/ UNCHANGED faults /\ Becomes(c, Head(toServer).client, 0)
            \/ Inject("bind", System) /\ \E n \in -1..MaxAttempts : Becomes(c, NoClient, n)
  BY DEF ServerForks
<1>2. PICK n \in -1..MaxAttempts, client \in {Head(toServer).client, NoClient} :
         Becomes(c, client, n)
  BY <1>1, SessionAssumption
<1>3. faults' \in 0..MaxFaults
  BY <1>1, InjectType DEF TypeOK
<1>4. Head(toServer).client \in Sockets
  <2>1. toServer \in Seq(Request) /\ toServer # <<>>
    BY DEF ServerForks, TypeOK
  <2>2. Head(toServer) \in Request
    BY <2>1, Tails
  <2> QED
    BY <2>2 DEF Request
<1>5. children \in [Children -> Child]
  BY DEF TypeOK
<1>6. children' = [children EXCEPT ![c] = [pc |-> "answer", client |-> client, attempts |-> n]]
  BY <1>2 DEF Becomes
<1>7. [pc |-> "answer", client |-> client, attempts |-> n] \in Child
  BY <1>4, <1>2 DEF Child, NoClient
<1>8. children' \in [Children -> Child]
  BY <1>5, <1>6, <1>7
<1>9. /\ children'[c].pc = "answer" /\ children'[c].client = client
      /\ \A d \in Children : d # c => children'[d] = children[d]
  BY <1>5, <1>6
<1>10. \A d \in Children : Moves(d)
  BY <1>1, <1>9 DEF Moves, CountInv
<1> QED
  BY <1>1, <1>2, <1>3, <1>8, <1>9, <1>10

\* What a child's packet tells of the child that sends it.
Tells(c, r) ==
    /\ r.child = c /\ children[c].pc # "none"
    /\ rcopyPc \notin Ended /\ children[c].client = attempts
    /\ children'[c].pc \notin {"none", "answer"}
    /\ r.kind = "Ok" => children'[c].pc # "denied"
    /\ r.kind = "NotOk" => children'[c].pc = "denied" \/ "child" \in Flip
    /\ r.ok /\ r.kind # "data" => children[c].pc = "answer"

LEMMA Answered ==
    ASSUME TypeOK, CountInv, NEW c \in Children, ChildAnswers(c)
    PROVE  /\ children' \in [Children -> Child] /\ faults' \in 0..MaxFaults
           /\ children[c].pc = "answer" /\ Moves(c)
           /\ \A d \in Children : d # c => children'[d] = children[d]
           /\ toRcopy' \in Seq(Reply) /\ Len(toRcopy') <= QCap
           /\ \/ toRcopy' = toRcopy
              \/ \E r \in Reply :
                    /\ Tells(c, r) /\ Len(toRcopy') = Len(toRcopy) + 1
                    /\ \A i \in 1..Len(toRcopy) : toRcopy'[i] = toRcopy[i]
                    /\ toRcopy'[Len(toRcopy) + 1] = r
<1> DEFINE said(readable) == IF readable THEN "Ok" ELSE "NotOk"
           then(readable) == IF readable THEN "open" ELSE "denied"
<1>1. PICK readable \in BOOLEAN :
         /\ ChildSends(c, said(readable))
         /\ children' = [children EXCEPT ![c].pc = then(readable)]
  BY DEF ChildAnswers
<1>2. children[c].pc = "answer" /\ children \in [Children -> Child]
  BY DEF ChildAnswers, TypeOK
<1>3. then(readable) \in {"open", "denied"} /\ said(readable) \in {"Ok", "NotOk"}
  OBVIOUS
<1>4. /\ children' \in [Children -> Child]
      /\ children'[c].pc = then(readable) /\ children'[c].client = children[c].client
      /\ \A d \in Children : d # c => children'[d] = children[d]
  <2>1. then(readable) \in Places
    BY <1>3 DEF Places
  <2> HIDE DEF then
  <2> QED
    BY <1>1, <1>2, <2>1 DEF Child, Places
<1>5. Moves(c)
  BY <1>2, <1>3, <1>4 DEF Moves
<1>6. \A r \in Reply : 
         (/\ r.child = c /\ r.kind \in Misread(said(readable))
          /\ r.kind = said(readable) \/ "child" \in Flip
          /\ rcopyPc \notin Ended /\ children[c].client = attempts)
         => Tells(c, r)
  <2>1. CASE readable
    BY <1>2, <1>4, <2>1 DEF Tells, Misread
  <2>2. CASE ~readable
    BY <1>2, <1>4, <2>2 DEF Tells, Misread
  <2> QED
    BY <2>1, <2>2
<1>7. said(readable) \in {"Ok", "NotOk", "data"}
  BY <1>3
<1> HIDE DEF said, then
<1> QED
  BY <1>1, <1>2, <1>4, <1>5, <1>6, <1>7, SendsReply

LEMMA SentData ==
    ASSUME TypeOK, CountInv, NEW c \in Children, ChildStarts(c) \/ ChildTimeout(c)
    PROVE  /\ children' \in [Children -> Child] /\ faults' \in 0..MaxFaults
           /\ children[c].pc \notin {"none", "answer", "denied"} /\ Moves(c)
           /\ \A d \in Children : d # c => children'[d] = children[d]
           /\ toRcopy' \in Seq(Reply) /\ Len(toRcopy') <= QCap
           /\ \/ toRcopy' = toRcopy
              \/ \E r \in Reply :
                    /\ Tells(c, r) /\ Len(toRcopy') = Len(toRcopy) + 1
                    /\ \A i \in 1..Len(toRcopy) : toRcopy'[i] = toRcopy[i]
                    /\ toRcopy'[Len(toRcopy) + 1] = r
<1>1. children \in [Children -> Child] /\ children[c].attempts \in -1..MaxAttempts
  BY DEF TypeOK, Child
<1>2. /\ children' \in [Children -> Child]
      /\ children'[c].pc \in {"poll", "done"} /\ children'[c].client = children[c].client
      /\ children'[c].pc = "poll" => children'[c].attempts < MaxAttempts
      /\ children[c].pc \in {"transfer", "poll"}
      /\ \A d \in Children : d # c => children'[d] = children[d]
  <2>1. CASE ChildStarts(c)
    <3> DEFINE p == IF TriesAgain(children[c].attempts) THEN "poll" ELSE "done"
    <3>1. children' = [children EXCEPT ![c].pc = p] /\ children[c].pc = "transfer"
      BY <2>1 DEF ChildStarts
    <3>2. p \in {"poll", "done"} /\ (p = "poll" => children[c].attempts < MaxAttempts)
      BY DEF TriesAgain
    <3>3. p \in Places
      BY <3>2 DEF Places
    <3> HIDE DEF p
    <3> QED
      BY <1>1, <3>1, <3>2, <3>3, SetPc
  <2>2. CASE ChildTimeout(c)
    <3> DEFINE n == OneMore(children[c].attempts)
               p == IF TriesAgain(n) THEN "poll" ELSE "done"
    <3>1. /\ children' = [children EXCEPT ![c].attempts = n, ![c].pc = p]
          /\ children[c].pc = "poll"
      BY <2>2 DEF ChildTimeout
    <3>2. p \in {"poll", "done"} /\ (p = "poll" => n < MaxAttempts)
      BY DEF TriesAgain
    <3>3. n \in -1..MaxAttempts
      BY <1>1, <3>1, SessionAssumption DEF OneMore, CountInv
    <3>4. p \in Places
      BY <3>2 DEF Places
    <3> HIDE DEF p, n
    <3> DEFINE t == [children EXCEPT ![c].attempts = n]
    <3> HIDE DEF t
    <3>5. /\ t \in [Children -> Child] /\ t[c].client = children[c].client /\ t[c].attempts = n
          /\ \A d \in Children : d # c => t[d] = children[d]
      BY <1>1, <3>3 DEF Child, t
    <3>6. children' = [t EXCEPT ![c].pc = p]
      BY <1>1, <3>1 DEF t
    <3>7. /\ children' \in [Children -> Child]
          /\ children'[c].pc = p /\ children'[c].client = t[c].client
          /\ children'[c].attempts = t[c].attempts
          /\ \A d \in Children : d # c => children'[d] = t[d]
      BY <3>4, <3>5, <3>6 DEF Child, Places
    <3> QED
      BY <3>1, <3>2, <3>5, <3>7
  <2> QED
    BY <2>1, <2>2
<1>3. Moves(c)
  BY <1>2 DEF Moves
<1>4. \A r \in Reply :
         (/\ r.child = c /\ r.kind \in Misread("data") /\ (r.ok => r.kind = "data")
          /\ rcopyPc \notin Ended /\ children[c].client = attempts)
         => Tells(c, r)
  BY <1>2 DEF Tells, Misread
<1>5. ChildSends(c, "data")
  BY DEF ChildStarts, ChildTimeout
<1> QED
  BY <1>2, <1>3, <1>4, <1>5, SendsReply

\* Whatever step a child takes.
LEMMA ChildStep ==
    ASSUME TypeOK, CountInv, NEW c \in Children, ChildNext(c)
    PROVE  /\ children' \in [Children -> Child] /\ faults' \in 0..MaxFaults
           /\ UNCHANGED <<rcopyVars, toServer>>
           /\ children[c].pc # "none" /\ Moves(c)
           /\ \A d \in Children : d # c => children'[d] = children[d]
           /\ toRcopy' \in Seq(Reply) /\ Len(toRcopy') <= QCap
           /\ \/ toRcopy' = toRcopy
              \/ \E r \in Reply :
                    /\ Tells(c, r) /\ Len(toRcopy') = Len(toRcopy) + 1
                    /\ \A i \in 1..Len(toRcopy) : toRcopy'[i] = toRcopy[i]
                    /\ toRcopy'[Len(toRcopy) + 1] = r
<1>1. CASE ChildAnswers(c)
  <2>1. UNCHANGED <<rcopyVars, toServer>>
    BY <1>1 DEF ChildAnswers
  <2> QED
    BY <1>1, <2>1, Answered
<1>2. CASE ChildStarts(c) \/ ChildTimeout(c)
  <2>1. UNCHANGED <<rcopyVars, toServer>>
    BY <1>2 DEF ChildStarts, ChildTimeout
  <2> QED
    BY <1>2, <2>1, SentData
<1>3. CASE ChildSendsNowhere(c) \/ ChildOpens(c) \/ ChildEnds(c)
  <2>1. UNCHANGED <<rcopyVars, toServer, toRcopy>>
    BY <1>3 DEF ChildSendsNowhere, ChildOpens, ChildEnds
  <2>2. PICK p \in {"transfer", "done"} :
           /\ children' = [children EXCEPT ![c].pc = p]
           /\ children[c].pc \notin {"none", "denied"}
           /\ faults' = faults \/ Inject("fopen", System)
    BY <1>3 DEF ChildSendsNowhere, ChildOpens, ChildEnds
  <2>3. faults' \in 0..MaxFaults
    BY <2>2, InjectType DEF TypeOK
  <2>4. children \in [Children -> Child]
    BY DEF TypeOK
  <2>5. /\ children' \in [Children -> Child]
        /\ children'[c].pc = p /\ children'[c].client = children[c].client
        /\ \A d \in Children : d # c => children'[d] = children[d]
    BY <2>2, <2>4 DEF Child
  <2>6. Moves(c)
    BY <2>2, <2>5 DEF Moves
  <2>7. toRcopy' \in Seq(Reply) /\ Len(toRcopy') <= QCap
    BY <2>1 DEF TypeOK
  <2> QED
    BY <2>1, <2>2, <2>3, <2>5, <2>6, <2>7
<1> QED
  BY <1>1, <1>2, <1>3 DEF ChildNext

-----------------------------------------------------------------------------
(* The invariant, for all faults.                                          *)

\* An entry of the new queue was in the old one, or is what a child has sent.
FromQueue(i) == \E j \in 1..Len(toRcopy) : toRcopy'[i] = toRcopy[j]

LEMMA RepliesStay ==
    ASSUME TypeOK, RepliesInv, attempts' = attempts, \A c \in Children : Moves(c),
           toRcopy' \in Seq(Reply),
           \A i \in 1..Len(toRcopy') :
              FromQueue(i) \/ Tells(toRcopy'[i].child, toRcopy'[i])
    PROVE  RepliesInv'
<1> SUFFICES ASSUME NEW i \in 1..Len(toRcopy')
             PROVE  /\ children'[toRcopy'[i].child].client = attempts'
                    /\ children'[toRcopy'[i].child].pc \notin {"none", "answer"}
                    /\ toRcopy'[i].kind = "Ok" => children'[toRcopy'[i].child].pc # "denied"
  BY DEF RepliesInv
<1>1. toRcopy'[i] \in Reply
  OBVIOUS
<1>2. toRcopy'[i].child \in Children
  BY <1>1 DEF Reply
<1> DEFINE c == toRcopy'[i].child
<1>3. Moves(c)
  BY <1>2
<1>4. CASE FromQueue(i)
  <2>1. PICK j \in 1..Len(toRcopy) : toRcopy'[i] = toRcopy[j]
    BY <1>4 DEF FromQueue
  <2>2. /\ children[c].client = attempts /\ children[c].pc \notin {"none", "answer"}
        /\ toRcopy'[i].kind = "Ok" => children[c].pc # "denied"
    BY <2>1 DEF RepliesInv
  <2> QED
    BY <1>3, <2>2 DEF Moves
<1>5. CASE Tells(c, toRcopy'[i])
  BY <1>3, <1>5 DEF Moves, Tells
<1> QED
  BY <1>4, <1>5

LEMMA PeerStays ==
    ASSUME PeerIsItsOwn, CountInv, attempts' = attempts, rcopyPc' = rcopyPc, peer' = peer,
           \A c \in Children : Moves(c)
    PROVE  PeerIsItsOwn'
BY DEF PeerIsItsOwn, CountInv, Moves

\* Nothing happens to the children, and no packet comes.
LEMMA ChildrenStay ==
    ASSUME TypeOK, CountInv, children' = children
    PROVE  children' \in [Children -> Child] /\ \A c \in Children : Moves(c)
BY DEF TypeOK, CountInv, Moves

LEMMA SendFilenameStep ==
    ASSUME SInv, SendFilename
    PROVE  SInv'
<1> USE DEF SInv
<1>1. /\ rcopyPc = "send" /\ rcopyPc' = "wait"
      /\ UNCHANGED <<attempts, silent, peer, firstBlock, children, toRcopy>>
  BY DEF SendFilename
<1>2. children' \in [Children -> Child] /\ \A c \in Children : Moves(c)
  BY <1>1, ChildrenStay
<1>3. faults' \in 0..MaxFaults
  <2>1. faults' = faults \/ Inject("rcopy", Drop) \/ Inject("rcopy", Flip)
    BY DEF SendFilename
  <2> QED
    BY <2>1, InjectType DEF TypeOK
<1>4. toServer' \in Seq(Request) /\ Len(toServer') <= QCap
  <2>1. PICK ok \in BOOLEAN :
           \/ toServer' = toServer
           \/ toServer' = Enqueue(toServer, [client |-> attempts, ok |-> ok])
    BY DEF SendFilename
  <2>2. [client |-> attempts, ok |-> ok] \in Request /\ toServer \in Seq(Request) /\ Len(toServer) <= QCap
    BY DEF TypeOK, Request
  <2> QED
    BY <2>1, <2>2, RequestQueued
<1>5. TypeOK'
  BY <1>1, <1>2, <1>3, <1>4 DEF TypeOK
<1>6. CountInv'
  BY <1>1 DEF CountInv
<1>7. RepliesInv'
  BY <1>1 DEF RepliesInv
<1>8. PeerIsItsOwn'
  BY <1>1 DEF PeerIsItsOwn
<1> QED
  BY <1>5, <1>6, <1>7, <1>8

LEMMA HandshakeStep ==
    ASSUME SInv, HandshakeOk \/ HandshakeRefused \/ HandshakeFails \/ HandshakeBackoff
    PROVE  SInv'
<1> USE DEF SInv
<1>1. CASE HandshakeOk
  <2>1. /\ toRcopy # <<>> /\ Head(toRcopy).kind = "Ok"
        /\ rcopyPc' = "receive" /\ peer' = Head(toRcopy).child /\ toRcopy' = Tail(toRcopy)
        /\ rcopyPc = "wait"
        /\ UNCHANGED <<attempts, silent, firstBlock, children, toServer, faults>>
    BY <1>1 DEF HandshakeOk
  <2>2. toRcopy \in Seq(Reply) /\ Len(toRcopy) <= QCap
    BY DEF TypeOK
  <2>3. /\ Head(toRcopy) \in Reply /\ Head(toRcopy) = toRcopy[1] /\ 1 \in 1..Len(toRcopy)
        /\ toRcopy' \in Seq(Reply) /\ Len(toRcopy') = Len(toRcopy) - 1
        /\ \A i \in 1..Len(toRcopy') : toRcopy'[i] = toRcopy[i + 1] /\ i + 1 \in 1..Len(toRcopy)
    BY <2>1, <2>2, Tails
  <2>4. Head(toRcopy).child \in Children
    BY <2>3 DEF Reply
  <2>5. TypeOK'
    <3>1. Len(toRcopy') <= QCap
      BY <2>2, <2>3, SessionAssumption
    <3> QED
      BY <2>1, <2>3, <2>4, <3>1 DEF TypeOK
  <2>6. CountInv'
    BY <2>1, <2>4 DEF CountInv
  <2>7. RepliesInv'
    BY <2>1, <2>3 DEF RepliesInv
  <2>8. PeerIsItsOwn'
    BY <2>1, <2>3 DEF RepliesInv, PeerIsItsOwn
  <2> QED
    BY <2>5, <2>6, <2>7, <2>8
<1>2. CASE HandshakeRefused
  <2>1. /\ rcopyPc' = "refused" /\ toRcopy' = <<>> /\ rcopyPc = "wait"
        /\ UNCHANGED <<attempts, silent, peer, firstBlock, children, toServer, faults>>
    BY <1>2 DEF HandshakeRefused
  <2> QED
    BY <2>1, SessionAssumption DEF TypeOK, CountInv, RepliesInv, PeerIsItsOwn
<1>3. CASE HandshakeFails
  <2>1. /\ rcopyPc' = "backoff" /\ toRcopy' = <<>> /\ rcopyPc = "wait" 
        /\ attempts' = attempts + 1
        /\ UNCHANGED <<silent, peer, firstBlock, children, toServer, faults>>
    BY <1>3 DEF HandshakeFails, OneMore
  <2>2. attempts' \in Sockets
    BY <2>1, SessionAssumption DEF TypeOK, CountInv, Sockets
  <2> QED
    BY <2>1, <2>2, SessionAssumption DEF TypeOK, CountInv, RepliesInv, PeerIsItsOwn
<1>4. CASE HandshakeBackoff
  <2>1. /\ rcopyPc' \in {"send", "gaveUp"} /\ rcopyPc = "backoff"
        /\ rcopyPc' = "send" => attempts < MaxAttempts
        /\ UNCHANGED <<attempts, silent, peer, firstBlock, children, toServer, toRcopy, faults>>
    BY <1>4 DEF HandshakeBackoff, TriesAgain
  <2>2. TypeOK'
    BY <2>1 DEF TypeOK
  <2>3. CountInv' /\ RepliesInv' /\ PeerIsItsOwn'
    BY <2>1 DEF CountInv, RepliesInv, PeerIsItsOwn
  <2> QED
    BY <2>2, <2>3
<1> QED
  BY <1>1, <1>2, <1>3, <1>4

LEMMA ReceiveStep ==
    ASSUME SInv, RcopyReceives \/ RcopyTimeout
    PROVE  SInv'
<1> USE DEF SInv
<1>1. /\ rcopyPc = "receive" /\ PeerHears
      /\ UNCHANGED <<attempts, peer, toServer>>
  BY DEF RcopyReceives, RcopyTimeout
<1>2. /\ children' \in [Children -> Child] /\ faults' \in 0..MaxFaults
      /\ \A d \in Children : Moves(d)
  BY <1>1, PeerHeard
<1>3. CASE RcopyReceives
  <2>1. /\ toRcopy # <<>> /\ toRcopy' = Tail(toRcopy) /\ silent' = 0 /\ rcopyPc' = rcopyPc
        /\ firstBlock' \in {"none", "chunk", "answer"}
    BY <1>3 DEF RcopyReceives, TypeOK
  <2>2. toRcopy \in Seq(Reply) /\ Len(toRcopy) <= QCap
    BY DEF TypeOK
  <2>3. /\ toRcopy' \in Seq(Reply) /\ Len(toRcopy') <= QCap
        /\ \A i \in 1..Len(toRcopy') : toRcopy'[i] = toRcopy[i + 1] /\ i + 1 \in 1..Len(toRcopy)
    BY <2>1, <2>2, Tails, SessionAssumption
  <2>4. TypeOK'
    BY <1>1, <1>2, <2>1, <2>3, SessionAssumption DEF TypeOK
  <2>5. CountInv'
    BY <1>1, <1>2, <2>1, SessionAssumption DEF CountInv, Moves
  <2>6. RepliesInv'
    BY <1>1, <1>2, <2>3, RepliesStay DEF FromQueue
  <2>7. PeerIsItsOwn'
    BY <1>1, <1>2, <2>1, PeerStays
  <2> QED
    BY <2>4, <2>5, <2>6, <2>7
<1>4. CASE RcopyTimeout
  <2>1. /\ toRcopy' = toRcopy /\ silent' = silent + 1 /\ firstBlock' = firstBlock
        /\ rcopyPc' \in {"receive", "left"} /\ (rcopyPc' = "receive" => silent' < MaxAttempts)
    BY <1>4 DEF RcopyTimeout, OneMore, TriesAgain
  <2>2. silent' \in 0..MaxAttempts
    BY <1>1, <2>1, SessionAssumption DEF CountInv, TypeOK
  <2>3. TypeOK'
    BY <1>1, <1>2, <2>1, <2>2 DEF TypeOK
  <2>4. CountInv'
    BY <1>1, <1>2, <2>1 DEF CountInv, Moves
  <2>5. RepliesInv'
    <3>1. toRcopy' \in Seq(Reply)
      BY <2>1 DEF TypeOK
    <3> QED
      BY <1>1, <1>2, <2>1, <3>1, RepliesStay DEF FromQueue
  <2>6. PeerIsItsOwn'
    <3>1. CASE rcopyPc' = rcopyPc
      BY <1>1, <1>2, <3>1, PeerStays
    <3>2. CASE rcopyPc' = "left"
      BY <3>2 DEF PeerIsItsOwn
    <3> QED
      BY <1>1, <2>1, <3>1, <3>2
  <2> QED
    BY <2>3, <2>4, <2>5, <2>6
<1> QED
  BY <1>3, <1>4

LEMMA ServerStep ==
    ASSUME SInv, ServerNext
    PROVE  SInv'
<1> USE DEF SInv
<1>1. /\ toServer # <<>> /\ toServer' = Tail(toServer)
      /\ UNCHANGED <<rcopyVars, toRcopy>>
  BY DEF ServerNext, ServerIgnores, ServerForks
<1>2. UNCHANGED <<rcopyPc, attempts, silent, peer, firstBlock>>
  BY <1>1 DEF rcopyVars
<1>3. toServer' \in Seq(Request) /\ Len(toServer') <= QCap
  BY <1>1, Tails, SessionAssumption DEF TypeOK
<1>4. /\ children' \in [Children -> Child] /\ faults' \in 0..MaxFaults
      /\ \A d \in Children : Moves(d)
  <2>1. CASE ServerIgnores
    <3>1. children' = children /\ (faults' = faults \/ Inject("fork", System))
      BY <2>1 DEF ServerIgnores
    <3> QED
      BY <3>1, ChildrenStay, InjectType DEF TypeOK
  <2>2. CASE ServerForks
    BY <2>2, Forked
  <2> QED
    BY <2>1, <2>2 DEF ServerNext
<1>5. TypeOK'
  BY <1>1, <1>2, <1>3, <1>4 DEF TypeOK
<1>6. CountInv'
  BY <1>2, <1>4 DEF CountInv, Moves
<1>7. toRcopy' \in Seq(Reply)
  BY <1>1 DEF TypeOK
<1>8. RepliesInv'
  BY <1>1, <1>2, <1>4, <1>7, RepliesStay DEF FromQueue
<1>9. PeerIsItsOwn'
  BY <1>2, <1>4, PeerStays
<1> QED
  BY <1>5, <1>6, <1>8, <1>9

\* What is in the queue after a child's step, or after a duplication.
Moved(i) == \E j \in 1..Len(toRcopy) : i <= j /\ toRcopy'[i] = toRcopy[j]

LEMMA ChildQueue ==
    ASSUME TypeOK, CountInv, NEW c \in Children, ChildNext(c)
    PROVE  \A i \in 1..Len(toRcopy') :
              \/ Moved(i)
              \/ i = Len(toRcopy) + 1 /\ Tells(toRcopy'[i].child, toRcopy'[i])
<1>1. \/ toRcopy' = toRcopy
      \/ \E r \in Reply :
            /\ Tells(c, r) /\ Len(toRcopy') = Len(toRcopy) + 1
            /\ \A i \in 1..Len(toRcopy) : toRcopy'[i] = toRcopy[i]
            /\ toRcopy'[Len(toRcopy) + 1] = r
  BY ChildStep
<1>2. CASE toRcopy' = toRcopy
  BY <1>2 DEF Moved
<1>3. CASE toRcopy' # toRcopy
  <2>1. PICK r \in Reply :
           /\ Tells(c, r) /\ Len(toRcopy') = Len(toRcopy) + 1
           /\ \A i \in 1..Len(toRcopy) : toRcopy'[i] = toRcopy[i]
           /\ toRcopy'[Len(toRcopy) + 1] = r
    BY <1>1, <1>3
  <2>2. r.child = c
    BY <2>1 DEF Tells
  <2>3. Len(toRcopy) \in Nat
    BY DEF TypeOK
  <2> SUFFICES ASSUME NEW i \in 1..Len(toRcopy')
               PROVE  \/ Moved(i)
                      \/ i = Len(toRcopy) + 1 /\ Tells(toRcopy'[i].child, toRcopy'[i])
    OBVIOUS
  <2>4. i \in 1..Len(toRcopy) \/ i = Len(toRcopy) + 1
    BY <2>1, <2>3
  <2> QED
    BY <2>1, <2>2, <2>4 DEF Moved
<1> QED
  BY <1>2, <1>3

LEMMA ChildrenStep ==
    ASSUME SInv, NEW c \in Children, ChildNext(c)
    PROVE  SInv'
<1> USE DEF SInv
<1>1. /\ children' \in [Children -> Child] /\ faults' \in 0..MaxFaults
      /\ UNCHANGED <<rcopyVars, toServer>>
      /\ Moves(c)
      /\ \A d \in Children : d # c => children'[d] = children[d]
      /\ toRcopy' \in Seq(Reply) /\ Len(toRcopy') <= QCap
      /\ \/ toRcopy' = toRcopy
         \/ \E r \in Reply :
               /\ Tells(c, r) /\ Len(toRcopy') = Len(toRcopy) + 1
               /\ \A i \in 1..Len(toRcopy) : toRcopy'[i] = toRcopy[i]
               /\ toRcopy'[Len(toRcopy) + 1] = r
  BY ChildStep
<1>2. UNCHANGED <<rcopyPc, attempts, silent, peer, firstBlock>>
  BY <1>1 DEF rcopyVars
<1>3. \A d \in Children : Moves(d)
  BY <1>1 DEF Moves, CountInv
<1>4. TypeOK'
  BY <1>1, <1>2 DEF TypeOK
<1>5. CountInv'
  BY <1>2, <1>3 DEF CountInv, Moves
<1>6. \A i \in 1..Len(toRcopy') : FromQueue(i) \/ Tells(toRcopy'[i].child, toRcopy'[i])
  BY ChildQueue DEF Moved, FromQueue
<1>7. RepliesInv'
  BY <1>1, <1>2, <1>3, <1>6, RepliesStay
<1>8. PeerIsItsOwn'
  BY <1>2, <1>3, PeerStays
<1> QED
  BY <1>4, <1>5, <1>7, <1>8

LEMMA DuplicateQueue ==
    ASSUME TypeOK, NetworkDuplicates
    PROVE  /\ toRcopy' \in Seq(Reply) /\ Len(toRcopy') <= QCap
           /\ \A i \in 1..Len(toRcopy') : FromQueue(i)
<1>1. toRcopy \in Seq(Reply) /\ Len(toRcopy) <= QCap
  BY DEF TypeOK
<1>2. CASE toRcopy' = toRcopy
  BY <1>1, <1>2 DEF FromQueue
<1>3. CASE toRcopy # <<>> /\ toRcopy' = Enqueue(toRcopy, toRcopy[Len(toRcopy)])
  <2>1. toRcopy[Len(toRcopy)] \in Reply /\ Len(toRcopy) \in 1..Len(toRcopy)
    BY <1>1, <1>3
  <2>2. /\ toRcopy' \in Seq(Reply) /\ Len(toRcopy') <= QCap
        /\ toRcopy' = toRcopy \/ Grown(toRcopy, toRcopy[Len(toRcopy)], toRcopy')
    BY <1>1, <1>3, <2>1, ReplyQueued
  <2>3. CASE Grown(toRcopy, toRcopy[Len(toRcopy)], toRcopy')
    <3>1. /\ Len(toRcopy') = Len(toRcopy) + 1
          /\ \A i \in 1..Len(toRcopy) : toRcopy'[i] = toRcopy[i]
          /\ toRcopy'[Len(toRcopy) + 1] = toRcopy[Len(toRcopy)]
      BY <2>3 DEF Grown
    <3>2. \A i \in 1..Len(toRcopy') : i \in 1..Len(toRcopy) \/ i = Len(toRcopy) + 1
      BY <1>1, <3>1
    <3> QED
      BY <2>1, <2>2, <3>1, <3>2 DEF FromQueue
  <2> QED
    BY <1>2, <2>2, <2>3
<1> QED
  BY <1>2, <1>3 DEF NetworkDuplicates

LEMMA DuplicateStep ==
    ASSUME SInv, NetworkDuplicates
    PROVE  SInv'
<1> USE DEF SInv
<1>1. /\ UNCHANGED <<rcopyVars, children>>
      /\ \/ /\ toServer # <<>> /\ toServer' = Enqueue(toServer, toServer[Len(toServer)])
            /\ UNCHANGED toRcopy
         \/ /\ toRcopy # <<>> /\ toRcopy' = Enqueue(toRcopy, toRcopy[Len(toRcopy)])
            /\ UNCHANGED toServer
  BY DEF NetworkDuplicates
<1>2. UNCHANGED <<rcopyPc, attempts, silent, peer, firstBlock>>
  BY <1>1 DEF rcopyVars
<1>3. faults' \in 0..MaxFaults
  <2>1. Inject("rcopy", Dup) \/ Inject("child", Dup)
    BY DEF NetworkDuplicates
  <2> QED
    BY <2>1, InjectType
<1>4. /\ toServer \in Seq(Request) /\ Len(toServer) <= QCap
      /\ toRcopy \in Seq(Reply) /\ Len(toRcopy) <= QCap
  BY DEF TypeOK
<1>5. toServer' \in Seq(Request) /\ Len(toServer') <= QCap
  <2>1. CASE toServer' = toServer
    BY <1>4, <2>1
  <2>2. CASE toServer # <<>> /\ toServer' = Enqueue(toServer, toServer[Len(toServer)])
    <3>1. toServer[Len(toServer)] \in Request
      BY <1>4, <2>2
    <3> QED
      BY <1>4, <2>2, <3>1, RequestQueued
  <2> QED
    BY <1>1, <2>1, <2>2
<1>6. /\ toRcopy' \in Seq(Reply) /\ Len(toRcopy') <= QCap
      /\ \A i \in 1..Len(toRcopy') : FromQueue(i)
  BY DuplicateQueue
<1>7. /\ children' \in [Children -> Child] /\ \A d \in Children : Moves(d)
  BY <1>1, ChildrenStay
<1>8. TypeOK'
  BY <1>1, <1>2, <1>3, <1>5, <1>6 DEF TypeOK
<1>9. CountInv'
  BY <1>2, <1>7 DEF CountInv, Moves
<1>10. RepliesInv'
  BY <1>2, <1>6, <1>7, RepliesStay
<1>11. PeerIsItsOwn'
  BY <1>2, <1>7, PeerStays
<1> QED
  BY <1>8, <1>9, <1>10, <1>11

LEMMA SessionStart ==
    ASSUME Init
    PROVE  SInv
<1>1. [pc |-> "none", client |-> 0, attempts |-> 0] \in Child
  BY SessionAssumption DEF Child, Sockets
<1>2. 0 \in Sockets /\ 0 \in 0..MaxAttempts /\ 0 \in 0..MaxFaults /\ 0 < MaxAttempts /\ 0 <= QCap
  BY SessionAssumption DEF Sockets
<1>3. /\ <<>> \in Seq(Request) /\ <<>> \in Seq(Reply)
      /\ Len(toServer) = 0 /\ Len(toRcopy) = 0
  BY DEF Init
<1>4. TypeOK
  BY <1>1, <1>2, <1>3 DEF Init, TypeOK
<1>5. CountInv /\ RepliesInv /\ PeerIsItsOwn
  BY <1>2, <1>3 DEF Init, CountInv, RepliesInv, PeerIsItsOwn
<1> QED
  BY <1>4, <1>5 DEF SInv

LEMMA SessionStep ==
    ASSUME SInv, Next
    PROVE  SInv'
BY SendFilenameStep, HandshakeStep, ReceiveStep, ServerStep, ChildrenStep, DuplicateStep
   DEF Next, RcopyNext, Handshake

\* What rcopy and the children are bound by, whatever faults occur.
THEOREM SessionInductive == Spec => []SInv
<1>1. SInv /\ UNCHANGED vars => SInv'
  BY DEF SInv, TypeOK, CountInv, RepliesInv, PeerIsItsOwn, vars, rcopyVars
<1>2. SInv /\ [Next]_vars => SInv'
  BY <1>1, SessionStep
<1> QED
  BY SessionStart, <1>2, PTL DEF Spec

\* Every variable has its type: no counter passes MAX_ATTEMPTS and no queue its
\* buffer.
THEOREM SessionTypeCorrect == Spec => []TypeOK
BY SessionInductive, PTL DEF SInv

\* A late answer to an attempt that was given up never gives rcopy its server
\* (rcopy.c:225-229, 245-246).
THEOREM PeerSafe == Spec => []PeerIsItsOwn
BY SessionInductive, PTL DEF SInv

-----------------------------------------------------------------------------
(* Refusals, when no packet of a child is corrupted.                       *)

\* How the queue and the children change in a step of any kind.
LEMMA QueueStep ==
    ASSUME SInv, Next
    PROVE  /\ \A c \in Children : Moves(c)
           /\ \/ NetworkDuplicates
              \/ \A i \in 1..Len(toRcopy') :
                    \/ Moved(i)
                    \/ i = Len(toRcopy) + 1 /\ Tells(toRcopy'[i].child, toRcopy'[i])
<1> USE DEF SInv
<1>1. CASE UNCHANGED <<children, toRcopy>>
  BY <1>1, ChildrenStay DEF Moved
<1>2. CASE children' = children /\ toRcopy' = <<>>
  BY <1>2, ChildrenStay
<1>3. CASE /\ \A c \in Children : Moves(c)
           /\ toRcopy # <<>> /\ toRcopy' = Tail(toRcopy)
  <2>1. toRcopy \in Seq(Reply)
    BY DEF TypeOK
  <2>2. \A i \in 1..Len(toRcopy') :
           i <= i + 1 /\ i + 1 \in 1..Len(toRcopy) /\ toRcopy'[i] = toRcopy[i + 1]
    BY <1>3, <2>1, Tails
  <2> QED
    BY <1>3, <2>2 DEF Moved
<1>4. CASE SendFilename \/ HandshakeBackoff
  BY <1>1, <1>4 DEF SendFilename, HandshakeBackoff
<1>5. CASE HandshakeRefused \/ HandshakeFails
  BY <1>2, <1>5 DEF HandshakeRefused, HandshakeFails
<1>6. CASE HandshakeOk
  <2>1. children' = children /\ toRcopy # <<>> /\ toRcopy' = Tail(toRcopy)
    BY <1>6 DEF HandshakeOk
  <2> QED
    BY <1>3, <2>1, ChildrenStay
<1>7. CASE RcopyReceives \/ RcopyTimeout
  <2>1. \A d \in Children : Moves(d)
    BY <1>7, PeerHeard DEF RcopyReceives, RcopyTimeout
  <2>2. CASE toRcopy' = toRcopy
    BY <2>1, <2>2 DEF Moved
  <2> QED
    BY <1>3, <1>7, <2>1, <2>2 DEF RcopyReceives, RcopyTimeout
<1>8. CASE ServerIgnores
  BY <1>1, <1>8 DEF ServerIgnores
<1>9. CASE ServerForks
  <2>1. toRcopy' = toRcopy
    BY <1>9 DEF ServerForks
  <2> QED
    BY <1>9, <2>1, Forked DEF Moved
<1>10. CASE NetworkDuplicates
  <2>1. children' = children
    BY <1>10 DEF NetworkDuplicates
  <2> QED
    BY <1>10, <2>1, ChildrenStay
<1>11. ASSUME NEW c \in Children, ChildNext(c)
       PROVE  /\ \A d \in Children : Moves(d)
              /\ \A i \in 1..Len(toRcopy') :
                    \/ Moved(i)
                    \/ i = Len(toRcopy) + 1 /\ Tells(toRcopy'[i].child, toRcopy'[i])
  <2>1. \A d \in Children : Moves(d)
    BY <1>11, ChildStep DEF Moves, CountInv
  <2> QED
    BY <1>11, <2>1, ChildQueue
<1> QED
  BY <1>4, <1>5, <1>6, <1>7, <1>8, <1>9, <1>10, <1>11
     DEF Next, RcopyNext, Handshake, ServerNext

DeniedInv ==
    \A i \in 1..Len(toRcopy) :
        toRcopy[i].kind = "NotOk" => children[toRcopy[i].child].pc = "denied"

RefusalInv == SInv /\ DeniedInv /\ RefusedIfUnreadable

LEMMA DeniedStep ==
    ASSUME RefusalInv, Next, "child" \notin Flip
    PROVE  DeniedInv'
<1> USE DEF RefusalInv
<1> SUFFICES ASSUME NEW i \in 1..Len(toRcopy'), toRcopy'[i].kind = "NotOk"
             PROVE  children'[toRcopy'[i].child].pc = "denied"
  BY DEF DeniedInv
<1>1. SInv' 
  BY SessionStep
<1>2. toRcopy'[i].child \in Children
  <2>1. toRcopy'[i] \in Reply
    BY <1>1 DEF SInv, TypeOK
  <2> QED
    BY <2>1 DEF Reply
<1>3. Moves(toRcopy'[i].child)
  BY <1>2, QueueStep
<1>4. FromQueue(i) \/ Tells(toRcopy'[i].child, toRcopy'[i])
  BY QueueStep, DuplicateQueue DEF Moved, FromQueue, SInv
<1>5. CASE FromQueue(i)
  <2>1. children[toRcopy'[i].child].pc = "denied"
    BY <1>5 DEF FromQueue, DeniedInv
  <2> QED
    BY <1>3, <2>1 DEF Moves
<1>6. CASE Tells(toRcopy'[i].child, toRcopy'[i])
  BY <1>6 DEF Tells
<1> QED
  BY <1>4, <1>5, <1>6

LEMMA RefusedStep ==
    ASSUME RefusalInv, Next
    PROVE  RefusedIfUnreadable'
<1> USE DEF RefusalInv
<1> SUFFICES ASSUME rcopyPc' = "refused"
             PROVE  \E c \in Children : children'[c].pc = "denied" /\ children'[c].client = attempts'
  BY DEF RefusedIfUnreadable
<1>1. CASE rcopyPc = "refused"
  <2>1. PICK c \in Children : children[c].pc = "denied" /\ children[c].client = attempts
    BY <1>1 DEF RefusedIfUnreadable
  <2>2. Moves(c)
    BY QueueStep
  <2>3. attempts' = attempts
    <3>1. ~RcopyNext
      BY <1>1 DEF RcopyNext, Handshake, SendFilename, HandshakeOk, HandshakeRefused,
                  HandshakeFails, HandshakeBackoff, RcopyReceives, RcopyTimeout
    <3> QED
      BY <3>1, ChildStep DEF SInv, Next, ServerNext, ServerIgnores, ServerForks, NetworkDuplicates, rcopyVars
  <2> QED
    BY <2>1, <2>2, <2>3 DEF Moves
<1>2. CASE rcopyPc # "refused"
  <2>1. HandshakeRefused
    <3>1. CASE RcopyNext
      BY <1>2, <3>1 DEF RcopyNext, Handshake, SendFilename, HandshakeOk, HandshakeRefused,
                        HandshakeFails, HandshakeBackoff, RcopyReceives, RcopyTimeout
    <3>2. CASE ~RcopyNext
      <4>1. rcopyPc' = rcopyPc
        BY <3>2, ChildStep DEF SInv, Next, ServerNext, ServerIgnores, ServerForks, NetworkDuplicates, rcopyVars
      <4> QED
        BY <1>2, <4>1
    <3> QED
      BY <3>1, <3>2
  <2>2. /\ toRcopy # <<>> /\ Head(toRcopy).kind = "NotOk"
        /\ children' = children /\ attempts' = attempts
    BY <2>1 DEF HandshakeRefused, IsAnswer
  <2>3. toRcopy \in Seq(Reply)
    BY DEF SInv, TypeOK
  <2>4. Head(toRcopy) = toRcopy[1] /\ 1 \in 1..Len(toRcopy) /\ Head(toRcopy) \in Reply
    BY <2>2, <2>3, Tails
  <2>5. Head(toRcopy).child \in Children
    BY <2>4 DEF Reply
  <2> QED
    BY <2>2, <2>4, <2>5 DEF SInv, RepliesInv, DeniedInv
<1> QED
  BY <1>1, <1>2

\* rcopy reports a refusal only of a file that a child found unreadable, when no
\* packet of a child is corrupted (rcopy.c:231-234).
THEOREM RefusalSafe ==
    ASSUME "child" \notin Flip
    PROVE  Spec => []RefusedIfUnreadable
<1>1. Init => RefusalInv
  <2> SUFFICES ASSUME Init PROVE RefusalInv
    OBVIOUS
  <2>1. Len(toRcopy) = 0 /\ rcopyPc = "send"
    BY DEF Init
  <2> QED
    BY <2>1, SessionStart DEF RefusalInv, DeniedInv, RefusedIfUnreadable
<1>2. RefusalInv /\ [Next]_vars => RefusalInv'
  <2>1. RefusalInv /\ Next => RefusalInv'
    BY SessionStep, DeniedStep, RefusedStep DEF RefusalInv
  <2>2. RefusalInv /\ UNCHANGED vars => RefusalInv'
    BY DEF RefusalInv, SInv, TypeOK, CountInv, RepliesInv, PeerIsItsOwn, DeniedInv,
           RefusedIfUnreadable, vars, rcopyVars
  <2> QED
    BY <2>1, <2>2
<1>3. RefusalInv => RefusedIfUnreadable
  BY DEF RefusalInv
<1> QED
  BY <1>1, <1>2, <1>3, PTL DEF Spec

-----------------------------------------------------------------------------
(* One child for every attempt, when no request is duplicated.             *)

Serves(c) == children[c].pc # "none" /\ children[c].client # NoClient

\* No two requests are of one attempt, nor are two children, nor a request and
\* a child; and none is of an attempt to come.
UniqueRequests ==
    \A i, j \in 1..Len(toServer) : toServer[i].client = toServer[j].client => i = j
UniqueChildren ==
    \A c, d \in Children :
        (Serves(c) /\ Serves(d) /\ children[c].client = children[d].client) => c = d
NotServedYet ==
    \A i \in 1..Len(toServer), c \in Children :
        Serves(c) => toServer[i].client # children[c].client
Begun(client) == client < attempts \/ (client = attempts /\ rcopyPc \notin {"send", "backoff"})
NoneToCome ==
    /\ \A i \in 1..Len(toServer) : Begun(toServer[i].client)
    /\ \A c \in Children : Serves(c) => Begun(children[c].client)

UniqueInv == SInv /\ UniqueRequests /\ UniqueChildren /\ NotServedYet /\ NoneToCome

\* No request is added and no child gets a client.
LEMMA UniqueStays ==
    ASSUME UniqueInv, SInv', toServer' = toServer,
           \A c \in Children : children'[c].client = children[c].client,
           \A c \in Children : children'[c].pc # "none" => children[c].pc # "none",
           \A n \in Sockets : Begun(n) => Begun(n)'
    PROVE  UniqueInv'
<1>1. UniqueRequests' /\ UniqueChildren' /\ NotServedYet'
  BY DEF UniqueInv, UniqueRequests, UniqueChildren, NotServedYet, Serves
<1>2. \A i \in 1..Len(toServer) : toServer[i].client \in Sockets
  <2>1. \A i \in 1..Len(toServer) : toServer[i] \in Request
    BY DEF UniqueInv, SInv, TypeOK
  <2> QED
    BY <2>1 DEF Request
<1>3. \A c \in Children : Serves(c) => children[c].client \in Sockets
  BY DEF UniqueInv, SInv, TypeOK, Serves, Child
<1>4. NoneToCome'
  BY <1>2, <1>3 DEF UniqueInv, NoneToCome, Serves
<1> QED
  BY <1>1, <1>4 DEF UniqueInv

\* The steps of rcopy that leave the attempt as it is, or end it.
LEMMA BegunStays ==
    ASSUME TypeOK,
           \/ attempts' = attempts /\ (rcopyPc' \in {"send", "backoff"} => rcopyPc' = rcopyPc \/ rcopyPc = "backoff")
           \/ attempts' = attempts + 1
    PROVE  \A n \in Sockets : Begun(n) => Begun(n)'
BY SessionAssumption DEF TypeOK, Begun, Sockets

LEMMA RequestStep ==
    ASSUME UniqueInv, SendFilename
    PROVE  UniqueInv'
<1>1. SInv'
  BY SendFilenameStep DEF UniqueInv
<1>2. /\ rcopyPc = "send" /\ rcopyPc' = "wait" /\ attempts' = attempts /\ children' = children
  BY DEF SendFilename
<1>3. CASE toServer' = toServer
  BY <1>1, <1>2, <1>3, UniqueStays, BegunStays DEF UniqueInv, SInv
<1>4. CASE toServer' # toServer
  <2>1. PICK ok \in BOOLEAN : toServer' = Enqueue(toServer, [client |-> attempts, ok |-> ok])
    BY <1>4 DEF SendFilename
  <2> DEFINE q == [client |-> attempts, ok |-> ok]
  <2>2. q \in Request /\ q.client = attempts
    BY DEF UniqueInv, SInv, TypeOK, Request
  <2> HIDE DEF q
  <2>3. toServer \in Seq(Request) /\ Len(toServer) <= QCap /\ Len(toServer) \in Nat /\ attempts \in Nat
    BY SessionAssumption DEF UniqueInv, SInv, TypeOK, Sockets
  <2>4. Enqueue(toServer, q) # toServer /\ toServer' = Enqueue(toServer, q)
    BY <1>4, <2>1 DEF q
  <2>5. /\ Len(toServer') = Len(toServer) + 1
        /\ \A i \in 1..Len(toServer) : toServer'[i] = toServer[i]
        /\ toServer'[Len(toServer) + 1] = q
    <3>1. Grown(toServer, q, toServer')
      BY <2>2, <2>3, <2>4, RequestQueued
    <3> QED
      BY <3>1 DEF Grown
  <2>6. \A i \in 1..Len(toServer') : i \in 1..Len(toServer) \/ i = Len(toServer) + 1
    BY <2>3, <2>5
  <2>7. \A i \in 1..Len(toServer) : toServer[i].client < attempts
    BY <1>2 DEF UniqueInv, NoneToCome, Begun
  <2>8. \A c \in Children : Serves(c) => children[c].client < attempts
    BY <1>2 DEF UniqueInv, NoneToCome, Begun
  <2>9. \A i \in 1..Len(toServer) : toServer[i].client # attempts
    BY <2>3, <2>7
  <2>10. \A c \in Children : Serves(c) => children[c].client # attempts
    BY <2>3, <2>8
  <2>11. UniqueRequests'
    BY <2>2, <2>5, <2>6, <2>9 DEF UniqueInv, UniqueRequests
  <2>12. UniqueChildren'
    BY <1>2 DEF UniqueInv, UniqueChildren, Serves
  <2>13. NotServedYet'
    BY <1>2, <2>2, <2>5, <2>6, <2>10 DEF UniqueInv, NotServedYet, Serves
  <2>14. NoneToCome'
    BY <1>2, <2>2, <2>5, <2>6, <2>7, <2>8 DEF NoneToCome, Serves, Begun
  <2> QED
    BY <1>1, <2>11, <2>12, <2>13, <2>14 DEF UniqueInv
<1> QED
  BY <1>3, <1>4

LEMMA ForkStep ==
    ASSUME UniqueInv, ServerNext
    PROVE  UniqueInv'
<1>1. SInv'
  BY ServerStep DEF UniqueInv
<1>2. /\ toServer # <<>> /\ toServer' = Tail(toServer)
      /\ rcopyPc' = rcopyPc /\ attempts' = attempts
  BY DEF ServerNext, ServerIgnores, ServerForks, rcopyVars
<1>3. toServer \in Seq(Request)
  BY DEF UniqueInv, SInv, TypeOK
<1>4. /\ Len(toServer') = Len(toServer) - 1 /\ Len(toServer) \in Nat
      /\ Head(toServer) = toServer[1] /\ 1 \in 1..Len(toServer)
      /\ \A i \in 1..Len(toServer') :
            i + 1 \in 1..Len(toServer) /\ i + 1 # 1 /\ toServer'[i] = toServer[i + 1]
  BY <1>2, <1>3, Tails
<1>5. UniqueRequests'
  <2> SUFFICES ASSUME NEW i \in 1..Len(toServer'), NEW j \in 1..Len(toServer'),
                      toServer'[i].client = toServer'[j].client
               PROVE  i = j
    BY DEF UniqueRequests
  <2>1. i + 1 = j + 1
    BY <1>4 DEF UniqueInv, UniqueRequests
  <2> QED
    BY <2>1
<1>6. CASE ServerIgnores
  <2>1. children' = children
    BY <1>6 DEF ServerIgnores
  <2>2. UniqueChildren' /\ NotServedYet' /\ NoneToCome'
    BY <1>2, <1>4, <2>1 DEF UniqueInv, UniqueChildren, NotServedYet, NoneToCome, Serves, Begun
  <2> QED
    BY <1>1, <1>5, <2>2 DEF UniqueInv
<1>7. CASE ServerForks
  <2>1. PICK c \in Children :
           /\ children[c].pc = "none"
           /\ \A d \in Children : d # c => children'[d] = children[d]
           /\ children'[c].pc = "answer"
           /\ children'[c].client \in {toServer[1].client, NoClient}
    BY <1>4, <1>7, Forked DEF UniqueInv, SInv
  <2>2. /\ ~Serves(c)
        /\ Serves(c)' => children'[c].client = toServer[1].client
        /\ \A d \in Children : d # c =>
              (Serves(d)' <=> Serves(d)) /\ children'[d].client = children[d].client
    BY <2>1 DEF Serves
  <2>3. UniqueChildren'
    BY <1>4, <2>2 DEF UniqueInv, UniqueChildren, NotServedYet
  <2>4. \A i \in 1..Len(toServer') : toServer'[i].client # toServer[1].client
    BY <1>4 DEF UniqueInv, UniqueRequests
  <2>5. NotServedYet'
    BY <1>4, <2>2, <2>4 DEF UniqueInv, NotServedYet
  <2>6. NoneToCome'
    BY <1>2, <1>4, <2>2 DEF UniqueInv, NoneToCome, Begun
  <2> QED
    BY <1>1, <1>5, <2>3, <2>5, <2>6 DEF UniqueInv
<1> QED
  BY <1>6, <1>7 DEF ServerNext

LEMMA UniqueStep ==
    ASSUME UniqueInv, Next, "rcopy" \notin Dup
    PROVE  UniqueInv'
<1>1. SInv'
  BY SessionStep DEF UniqueInv
<1>2. CASE SendFilename
  BY <1>2, RequestStep
<1>3. CASE ServerNext
  BY <1>3, ForkStep
<1>4. CASE HandshakeOk \/ HandshakeRefused \/ HandshakeFails \/ HandshakeBackoff
  <2>1. children' = children /\ toServer' = toServer
    BY <1>4 DEF HandshakeOk, HandshakeRefused, HandshakeFails, HandshakeBackoff
  <2>2. \/ attempts' = attempts /\ (rcopyPc' \in {"send", "backoff"} => rcopyPc = "backoff")
        \/ attempts' = attempts + 1
    BY <1>4 DEF HandshakeOk, HandshakeRefused, HandshakeFails, HandshakeBackoff, OneMore
  <2>3. \A n \in Sockets : Begun(n) => Begun(n)'
    BY <2>2, BegunStays DEF UniqueInv, SInv
  <2> QED
    BY <1>1, <2>1, <2>3, UniqueStays
<1>5. CASE RcopyReceives \/ RcopyTimeout
  <2>1. /\ rcopyPc = "receive" /\ rcopyPc' \in {"receive", "left"} /\ PeerHears
        /\ attempts' = attempts /\ toServer' = toServer
    BY <1>5 DEF RcopyReceives, RcopyTimeout
  <2>2. /\ \A c \in Children : children'[c].client = children[c].client
        /\ \A c \in Children : children'[c].pc # "none" => children[c].pc # "none"
    <3>1. children \in [Children -> Child] /\ peer \in Children
      BY <2>1 DEF UniqueInv, SInv, TypeOK, CountInv
    <3>2. CASE children' = children
      BY <3>2
    <3>3. CASE children' = [children EXCEPT ![peer].attempts = 0]
      BY <3>1, <3>3 DEF Child
    <3> QED
      BY <2>1, <3>2, <3>3 DEF PeerHears
  <2>3. \A n \in Sockets : Begun(n) => Begun(n)'
    BY <2>1, BegunStays DEF UniqueInv, SInv
  <2> QED
    BY <1>1, <2>1, <2>2, <2>3, UniqueStays
<1>6. ASSUME NEW c \in Children, ChildNext(c)
      PROVE  UniqueInv'
  <2>1. /\ UNCHANGED <<rcopyVars, toServer>>
        /\ children[c].pc # "none" /\ Moves(c)
        /\ \A d \in Children : d # c => children'[d] = children[d]
    BY <1>6, ChildStep DEF UniqueInv, SInv
  <2>2. UNCHANGED <<rcopyPc, attempts, toServer>>
    BY <2>1 DEF rcopyVars
  <2>3. \A d \in Children : children'[d].client = children[d].client
    BY <2>1 DEF Moves
  <2>4. \A n \in Sockets : Begun(n) => Begun(n)'
    BY <2>2 DEF Begun
  <2>5. \A d \in Children : children'[d].pc # "none" => children[d].pc # "none"
    BY <2>1
  <2> QED
    BY <1>1, <2>2, <2>3, <2>4, <2>5, UniqueStays
<1>7. CASE NetworkDuplicates
  <2>1. UNCHANGED <<rcopyPc, attempts, toServer, children>>
    BY <1>7 DEF NetworkDuplicates, Inject, rcopyVars
  <2>2. \A n \in Sockets : Begun(n) => Begun(n)'
    BY <2>1 DEF Begun
  <2> QED
    BY <1>1, <2>1, <2>2, UniqueStays
<1> QED
  BY <1>2, <1>3, <1>4, <1>5, <1>6, <1>7 DEF Next, RcopyNext, Handshake

THEOREM UniqueInductive ==
    ASSUME "rcopy" \notin Dup
    PROVE  Spec => []UniqueInv
<1>1. Init => UniqueInv
  <2> SUFFICES ASSUME Init PROVE UniqueInv
    OBVIOUS
  <2>1. Len(toServer) = 0 /\ \A c \in Children : ~Serves(c)
    BY DEF Init, Serves
  <2> QED
    BY <2>1, SessionStart
       DEF UniqueInv, UniqueRequests, UniqueChildren, NotServedYet, NoneToCome
<1>2. UniqueInv /\ UNCHANGED vars => UniqueInv'
  BY DEF UniqueInv, SInv, TypeOK, CountInv, RepliesInv, PeerIsItsOwn, UniqueRequests,
         UniqueChildren, NotServedYet, NoneToCome, Serves, Begun, vars, rcopyVars
<1>3. UniqueInv /\ [Next]_vars => UniqueInv'
  BY <1>2, UniqueStep
<1> QED
  BY <1>1, <1>3, PTL DEF Spec

\* At most one child sends the file to the socket rcopy has open, when no
\* request is duplicated (server.c:146-160, rcopy.c:243-247).
THEOREM OneChildSafe ==
    ASSUME "rcopy" \notin Dup
    PROVE  Spec => []OneChildReaches
<1>1. UniqueInv => OneChildReaches
  <2> SUFFICES ASSUME UniqueInv, NEW c \in Children, NEW d \in Children,
                      Serving(c), Serving(d),
                      Reaches(children[c].client), Reaches(children[d].client)
               PROVE  c = d
    BY DEF OneChildReaches
  <2>1. attempts \in Sockets /\ children[c].client = attempts /\ children[d].client = attempts
    BY DEF UniqueInv, SInv, TypeOK, Reaches
  <2>2. attempts # NoClient
    BY <2>1, SessionAssumption DEF Sockets, NoClient
  <2>3. Serves(c) /\ Serves(d)
    BY <2>1, <2>2 DEF Serving, Serves
  <2> QED
    BY <2>1, <2>3 DEF UniqueInv, UniqueChildren
<1> QED
  BY <1>1, UniqueInductive, PTL

-----------------------------------------------------------------------------
(* The first block, when nothing is duplicated.                            *)

IsIntactAnswer(r) == r.ok /\ r.kind # "data"

\* The answer comes before all data, and there is no second.
AnswerFirst ==
    /\ \A i \in 1..Len(toRcopy) : IsIntactAnswer(toRcopy[i]) => i = 1
    /\ rcopyPc = "receive" => \A i \in 1..Len(toRcopy) : ~IsIntactAnswer(toRcopy[i])

FirstInv == UniqueInv /\ AnswerFirst /\ FirstBlockIsFile

\* The child that answers the attempt is the only one that has sent anything.
LEMMA FirstToAnswer ==
    ASSUME UniqueInv, NEW c \in Children, children[c].pc = "answer",
           children[c].client = attempts
    PROVE  Len(toRcopy) = 0 /\ rcopyPc # "receive"
<1>1. attempts \in Sockets /\ attempts # NoClient
  BY SessionAssumption DEF UniqueInv, SInv, TypeOK, Sockets, NoClient
<1>2. Serves(c)
  BY <1>1 DEF Serves
<1>3. \A d \in Children :
         (children[d].client = attempts /\ children[d].pc # "none") => d = c
  BY <1>1, <1>2 DEF UniqueInv, UniqueChildren, Serves
<1>4. rcopyPc # "receive"
  BY <1>3 DEF UniqueInv, SInv, PeerIsItsOwn, CountInv
<1>5. \A i \in 1..Len(toRcopy) : FALSE
  <2> SUFFICES ASSUME NEW i \in 1..Len(toRcopy)
               PROVE  FALSE
    OBVIOUS
  <2>1. toRcopy[i] \in Reply
    BY DEF UniqueInv, SInv, TypeOK
  <2>2. toRcopy[i].child \in Children
    BY <2>1 DEF Reply
  <2> QED
    BY <1>3, <2>2 DEF UniqueInv, SInv, RepliesInv
<1>6. Len(toRcopy) \in Nat
  BY DEF UniqueInv, SInv, TypeOK
<1> QED
  BY <1>4, <1>5, <1>6

LEMMA AnswerFirstStep ==
    ASSUME FirstInv, Next, Dup = {}
    PROVE  AnswerFirst'
<1> USE DEF FirstInv
<1>1. ~NetworkDuplicates
  BY DEF NetworkDuplicates, Inject
<1>2. Len(toRcopy) \in Nat /\ toRcopy \in Seq(Reply) /\ toRcopy' \in Seq(Reply)
  BY SessionStep DEF UniqueInv, SInv, TypeOK
<1>3. \A i \in 1..Len(toRcopy') :
         \/ Moved(i)
         \/ i = Len(toRcopy) + 1 /\ Tells(toRcopy'[i].child, toRcopy'[i])
  BY <1>1, QueueStep DEF UniqueInv
<1>4. ASSUME NEW i \in 1..Len(toRcopy'), IsIntactAnswer(toRcopy'[i])
      PROVE  i = 1
  <2>1. CASE Moved(i)
    BY <1>4, <2>1 DEF Moved, AnswerFirst
  <2>2. CASE i = Len(toRcopy) + 1 /\ Tells(toRcopy'[i].child, toRcopy'[i])
    <3>1. toRcopy'[i].child \in Children
      <4>1. toRcopy'[i] \in Reply
        BY <1>2
      <4> QED
        BY <4>1 DEF Reply
    <3>2. Len(toRcopy) = 0
      BY <1>4, <2>2, <3>1, FirstToAnswer DEF Tells, IsIntactAnswer
    <3> QED
      BY <2>2, <3>2
  <2> QED
    BY <1>3, <2>1, <2>2
<1>5. ASSUME rcopyPc' = "receive", NEW i \in 1..Len(toRcopy'), IsIntactAnswer(toRcopy'[i])
      PROVE  FALSE
  <2>1. CASE HandshakeOk
    <3>1. toRcopy # <<>> /\ toRcopy' = Tail(toRcopy)
      BY <2>1 DEF HandshakeOk
    <3>2. i + 1 \in 1..Len(toRcopy) /\ toRcopy'[i] = toRcopy[i + 1]
      BY <1>2, <3>1, Tails
    <3>3. i + 1 = 1
      BY <1>5, <3>2 DEF AnswerFirst
    <3> QED
      BY <3>3
  <2>2. CASE ~HandshakeOk
    <3>1. rcopyPc = "receive"
      <4>1. CASE RcopyNext
        BY <1>5, <2>2, <4>1 DEF RcopyNext, Handshake, SendFilename, HandshakeRefused,
                        HandshakeFails, HandshakeBackoff, RcopyReceives, RcopyTimeout
      <4>2. CASE ~RcopyNext
        BY <1>5, <4>2, ChildStep DEF UniqueInv, SInv, Next, ServerNext, ServerIgnores,
                   ServerForks, NetworkDuplicates, rcopyVars
      <4> QED
        BY <4>1, <4>2
    <3>2. CASE Moved(i)
      BY <1>5, <3>1, <3>2 DEF Moved, AnswerFirst
    <3>3. CASE i = Len(toRcopy) + 1 /\ Tells(toRcopy'[i].child, toRcopy'[i])
      <4>1. toRcopy'[i] \in Reply
        BY <1>2
      <4>2. toRcopy'[i].child \in Children
        BY <4>1 DEF Reply
      <4> QED
        BY <1>5, <3>1, <3>3, <4>2, FirstToAnswer DEF Tells, IsIntactAnswer
    <3> QED
      BY <1>3, <3>2, <3>3
  <2> QED
    BY <2>1, <2>2
<1> QED
  BY <1>4, <1>5 DEF AnswerFirst

LEMMA FirstBlockStep ==
    ASSUME FirstInv, Next
    PROVE  FirstBlockIsFile'
<1> USE DEF FirstInv
<1>1. CASE RcopyReceives
  <2>1. toRcopy # <<>> /\ rcopyPc = "receive"
    BY <1>1 DEF RcopyReceives
  <2>2. toRcopy \in Seq(Reply)
    BY DEF UniqueInv, SInv, TypeOK
  <2>3. Head(toRcopy) = toRcopy[1] /\ 1 \in 1..Len(toRcopy)
    BY <2>1, <2>2, Tails
  <2>4. Head(toRcopy).ok => Head(toRcopy).kind = "data"
    BY <2>1, <2>3 DEF AnswerFirst, IsIntactAnswer
  <2> QED
    BY <1>1, <2>4 DEF RcopyReceives, FirstBlockIsFile
<1>2. CASE ~RcopyReceives
  <2>1. firstBlock' = firstBlock
    <3>1. CASE RcopyNext
      BY <1>2, <3>1 DEF RcopyNext, Handshake, SendFilename, HandshakeOk, HandshakeRefused,
                        HandshakeFails, HandshakeBackoff, RcopyTimeout
    <3>2. CASE ~RcopyNext
      BY <3>2, ChildStep DEF UniqueInv, SInv, Next, ServerNext, ServerIgnores, ServerForks,
                             NetworkDuplicates, rcopyVars
    <3> QED
      BY <3>1, <3>2
  <2> QED
    BY <2>1 DEF FirstBlockIsFile
<1> QED
  BY <1>1, <1>2

\* rcopy never writes an answer of the handshake into the file, when nothing is
\* duplicated (rcopy.c:337-350).
THEOREM FirstBlockSafe ==
    ASSUME Dup = {}
    PROVE  Spec => []FirstBlockIsFile
<1>1. Init => FirstInv
  <2> SUFFICES ASSUME Init PROVE FirstInv
    OBVIOUS
  <2>1. /\ Len(toServer) = 0 /\ Len(toRcopy) = 0 /\ rcopyPc = "send" /\ firstBlock = "none"
        /\ \A c \in Children : ~Serves(c)
    BY DEF Init, Serves
  <2> QED
    BY <2>1, SessionStart
       DEF FirstInv, UniqueInv, UniqueRequests, UniqueChildren, NotServedYet, NoneToCome,
           AnswerFirst, FirstBlockIsFile
<1>2. FirstInv /\ [Next]_vars => FirstInv'
  <2>1. FirstInv /\ Next => FirstInv'
    BY UniqueStep, AnswerFirstStep, FirstBlockStep DEF FirstInv
  <2>2. FirstInv /\ UNCHANGED vars => FirstInv'
    BY DEF FirstInv, UniqueInv, SInv, TypeOK, CountInv, RepliesInv, PeerIsItsOwn,
           UniqueRequests, UniqueChildren, NotServedYet, NoneToCome, Serves, Begun,
           AnswerFirst, IsIntactAnswer, FirstBlockIsFile, vars, rcopyVars
  <2> QED
    BY <2>1, <2>2
<1>3. FirstInv => FirstBlockIsFile
  BY DEF FirstInv
<1> QED
  BY <1>1, <1>2, <1>3, PTL DEF Spec
=============================================================================
