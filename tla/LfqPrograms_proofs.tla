------------------------- MODULE LfqPrograms_proofs -------------------------
(***************************************************************************)
(* LfqPrograms, for every number of messages: one creator of a queue       *)
(* whatever is in the segments, and with no segment left by an earlier run *)
(* no confusion of iterations and no number overwritten before it is read. *)
(***************************************************************************)
EXTENDS LfqPrograms, Integers, TLAPS

OpeningStates == {"open", "truncate", "construct"}
TesterStates == {"send", "receive", "close", "done", "failed", "fault"}
XpmemStates == {"main", "store", "post", "idle", "poll", "read", "write", "reply", "done",
                "fault"}
Running == IF program = "lfq" THEN TesterStates ELSE XpmemStates

Typed ==
  /\ program \in {"lfq", "xpmem"} /\ serial \in BOOLEAN
  /\ seg \in [Procs -> {"absent", "created", "sized", "ready"}]
  /\ opening \in [Procs -> Procs]
  /\ pc \in [Procs -> OpeningStates \cup Running]

(* p creates the queue it is opening. *)
Creating(p) == pc[p] \in {"truncate", "construct"}

(***************************************************************************)
(* A queue that is being created is not ready, and was only removed by a   *)
(* process that has exited: nobody finds it absent, to create it as well.  *)
(***************************************************************************)
CreatedApart ==
  /\ \A p \in Procs : Creating(p) =>
       /\ seg[opening[p]] # "ready"
       /\ seg[opening[p]] = "absent" => pc[Other(p)] = "done"
  /\ Creating(0) /\ Creating(1) => opening[0] # opening[1]

-----------------------------------------------------------------------------
(* Process 0 first: it creates both queues, if no segment was left. *)
FirstOpens ==
  /\ pc[1] = "open" /\ opening[1] = 0
  /\ IF opening[0] = 0 THEN seg[1] = "absent" ELSE seg[0] = "ready"
  /\ pc[0] = "open" => seg[opening[0]] = "absent"

(* The tester: before both queues are there ... *)
Before ==
  /\ FirstOpens
  /\ \A p \in Procs : queue[p] = << >> /\ it[p] = 0 /\ i[p] = 1

(* ... and process 1 finds them. *)
After ==
  /\ pc[0] \in {"send", "receive", "close", "done"}
  /\ pc[1] \in {"open", "send", "receive", "close", "done"}
  /\ \A p \in Procs : IF pc[1] = "open" THEN seg[p] = "ready"
                                        ELSE seg[p] \in {"ready", "absent"}
  /\ \A p \in Procs :
       /\ it[p] \in 0 .. NumMsgs /\ i[p] \in 1 .. NumMsgs
       /\ pc[p] \in {"send", "receive"} => it[p] < NumMsgs
       /\ pc[p] \in {"open", "close", "done"} => i[p] = 1
       /\ pc[p] = "open" => it[p] = 0
       /\ pc[p] \in {"close", "done"} => it[p] = NumMsgs

(* How many messages of its iteration p has sent, and received. *)
SentOf(p) ==
  IF pc[p] = "send" THEN i[p] - 1 ELSE IF pc[p] = "receive" THEN NumMsgs ELSE 0
ReceivedOf(p) == IF pc[p] = "receive" THEN i[p] - 1 ELSE 0

(* The n-th message after those of the iterations before k. *)
MessageOf(k, n) == IF n <= NumMsgs THEN <<k, n>> ELSE <<k + 1, n - NumMsgs>>

(***************************************************************************)
(* The queue of o holds what p has sent and o not yet received, in order;  *)
(* a process goes on to the next iteration when it has all the messages of *)
(* the other, which then receives.                                         *)
(***************************************************************************)
Stream(p, o) ==
  /\ \/ it[p] = it[o] /\ Len(queue[o]) = SentOf(p) - ReceivedOf(o)
     \/ /\ it[p] = it[o] + 1 /\ pc[o] = "receive"
        /\ Len(queue[o]) = NumMsgs + SentOf(p) - ReceivedOf(o)
     \/ /\ it[o] = it[p] + 1 /\ pc[p] = "receive"
        /\ Len(queue[o]) = 0 /\ ReceivedOf(o) = 0
  /\ \A k \in 1 .. Len(queue[o]) : queue[o][k] = MessageOf(it[o], ReceivedOf(o) + k)

Streams ==
  program = "lfq" /\ serial =>
    /\ queue \in [Procs -> Seq(Nat \X Nat)]
    /\ it \in [Procs -> Nat] /\ i \in [Procs -> Nat]
    /\ IF pc[0] \in OpeningStates THEN Before
                                  ELSE After /\ Stream(0, 1) /\ Stream(1, 0)

-----------------------------------------------------------------------------
(* The xpmem program: no message, and nobody at a number ... *)
Quiet == ~AtNumber(0) /\ ~AtNumber(1) /\ \A p \in Procs : queue[p] = << >>

(***************************************************************************)
(* ... or number received of process p is under way: in the queue, taken   *)
(* and to be read by the other, or not yet sent.                           *)
(***************************************************************************)
InQueue(p) ==
  /\ queue[p] = << <<p, data[p]>> >> /\ data[p] = received
  /\ ~AtNumber(p) /\ ~AtNumber(Other(p))

IsTaken(p) ==
  /\ queue[p] = << >> /\ taken[Other(p)] = <<p, data[p]>> /\ data[p] = received
  /\ ~AtNumber(p) /\ pc[Other(p)] = "read"

ToBeSent(p) ==
  /\ queue[p] = << >> /\ ~AtNumber(Other(p))
  /\ \/ pc[p] = "store" /\ p = 0 /\ received = 0
     \/ pc[p] = "write" /\ received = recvd[p] + 1
     \/ pc[p] = "post" /\ data[p] = received
     \/ pc[p] = "reply" /\ data[p] = received /\ received = recvd[p] + 1

Underway(p) ==
  /\ received % 2 = p /\ queue[Other(p)] = << >>
  /\ InQueue(p) \/ IsTaken(p) \/ ToBeSent(p)

OneMessage ==
  program = "xpmem" =>
    /\ it = [p \in Procs |-> 0]
    /\ queue \in [Procs -> Seq(Procs \X Nat)] /\ taken \in [Procs -> Procs \X Nat]
    /\ data \in [Procs -> Nat] /\ recvd \in [Procs -> Nat] /\ received \in Nat
    /\ Quiet \/ \E p \in Procs : Underway(p)
    /\ pc[0] \in OpeningStates \cup {"main"} => Quiet /\ received = 0

(* p is still to read a number. *)
MoreFor(p) == received < NumMsgs /\ (received % 2 = Other(p) \/ received + 1 < NumMsgs)

(* pseudo_scheduler has not begun on p, or it is at work while there is more for p. *)
NotStarted(p) ==
  /\ pc[0] = "main" \/ creating \/ p \in invoked
  /\ pc[p] \in {"open", "main", "store", "post", "idle"}
  /\ received <= Other(p)

Started(p) ==
  /\ pc[0] # "main" /\ ~creating /\ p \notin invoked
  /\ \/ pc[p] \in {"read", "write", "reply"}
     \/ pc[p] = "poll" /\ MoreFor(p)
     \/ pc[p] \in {"idle", "done"} /\ ~MoreFor(p)

(***************************************************************************)
(* The xpmem program, process 0 first: no message is lost, and each        *)
(* process goes on as long as there is a number for it.                    *)
(***************************************************************************)
AfterMain ==
  /\ \A p \in Procs : IF pc[1] = "open" THEN seg[p] = "ready"
                                        ELSE seg[p] \in {"ready", "absent"}
  /\ pc[0] = "main" => ~creating
  /\ pc[0] = "main" \/ creating => pc[1] \in {"open", "idle"} /\ invoked = {}
  /\ received <= NumMsgs /\ (Quiet <=> pc[0] = "main" \/ received = NumMsgs)
  /\ \A p \in Procs : NotStarted(p) \/ Started(p)

Turns ==
  program = "xpmem" /\ serial =>
    IF pc[0] \in OpeningStates THEN FirstOpens /\ ~creating /\ invoked = {} ELSE AfterMain

Safe == Typed /\ CreatedApart

-----------------------------------------------------------------------------
LEMMA SafeInit == Init => Safe
  BY ProgramsAssumption DEF Init, SegInit, Safe, Typed, CreatedApart, Creating, Procs,
     TesterStates, XpmemStates, Running, OpeningStates

(* The steps of a program proper: p was in none of the states of open. *)
LEMMA SafeRun ==
  ASSUME Safe, NEW p \in Procs, ~Creating(p), NEW s \in Running,
         pc[p] # "done" \/ s = "done",
         pc' = [pc EXCEPT ![p] = s], UNCHANGED <<program, serial, opening>>,
         \/ seg' = seg
         \/ s = "done" /\ seg' = [q \in Procs |-> "absent"]
  PROVE  Safe'
  BY DEF Safe, Typed, CreatedApart, Creating, Procs, Other, OpeningStates, TesterStates,
         XpmemStates, Running

LEMMA SafeOpen ==
  ASSUME Safe, NEW p \in Procs, NEW start, UNCHANGED program, Open(p, start),
         start \in Running
  PROVE  Safe'
  <1>2. CASE ShmOpen(p, start)
    BY <1>2 DEF ShmOpen, Opened, Safe, Typed, CreatedApart, Creating, Procs, Other,
       OpeningStates, Running, TesterStates, XpmemStates
  <1>3. CASE Truncate(p)
    BY <1>3 DEF Truncate, Safe, Typed, CreatedApart, Creating, Procs, Other,
       OpeningStates, Running, TesterStates, XpmemStates
  <1>4. CASE Construct(p, start)
    BY <1>4 DEF Construct, Opened, Safe, Typed, CreatedApart, Creating, Procs, Other,
       OpeningStates, Running, TesterStates, XpmemStates
  <1>5. QED
    BY <1>2, <1>3, <1>4 DEF Open

LEMMA SafeNext == Safe /\ [Next]_vars => Safe'
  <1> SUFFICES ASSUME Safe, [Next]_vars PROVE Safe'
    OBVIOUS
  <1>1. ASSUME NEW p \in Procs, program = "lfq", TesterProc(p), UNCHANGED program
        PROVE  Safe'
    <2> {"send", "receive", "close", "done", "failed", "fault"} \subseteq Running
      BY <1>1 DEF Running, TesterStates
    <2>1. CASE Open(p, "send")
      BY <1>1, <2>1, SafeOpen
    <2>2. CASE Send(p)
      <3>1. PICK s : s \in {"send", "receive"} /\ pc' = [pc EXCEPT ![p] = s]
        BY <2>2 DEF Send, Step
      <3>2. QED
        BY <1>1, <2>2, <3>1, SafeRun DEF Send, Creating
    <2>3. CASE Receive(p)
      <3>1. PICK s : /\ s \in {"send", "receive", "close", "failed"}
                     /\ pc' = [pc EXCEPT ![p] = s]
        BY <2>3 DEF Receive, Step
      <3>2. QED
        BY <1>1, <2>3, <3>1, SafeRun DEF Receive, Creating
    <2>4. CASE pc[p] \in {"send", "receive"} /\ \E q \in Procs : Fault(p, q)
      BY <1>1, <2>4, SafeRun DEF Fault, Creating
    <2>5. CASE pc[p] = "close" /\ Close(p)
      BY <1>1, <2>5, SafeRun DEF Close, Creating
    <2>6. QED
      BY <1>1, <2>1, <2>2, <2>3, <2>4, <2>5 DEF TesterProc, Procs, Other
  <1>2. ASSUME NEW p \in Procs, program = "xpmem", XpmemProc(p), UNCHANGED program
        PROVE  Safe'
    <2> XpmemStates \subseteq Running
      BY <1>2 DEF Running
    <2>1. CASE Open(p, IF p = 0 THEN "main" ELSE "idle")
      BY <1>2, <2>1, SafeOpen DEF XpmemStates
    <2>2. CASE p = 0 /\ (Main \/ StoreFirst)
      BY <1>2, <2>2, SafeRun DEF Main, StoreFirst, Creating, XpmemStates
    <2>3. CASE Neighbor
      BY <1>2, <2>3 DEF Neighbor, segVars, Safe, Typed, CreatedApart, Creating, Running
    <2>4. CASE PseudoScheduler(p) \/ TakeMsg(p) \/ WriteNumber(p)
      BY <1>2, <2>4, SafeRun DEF PseudoScheduler, TakeMsg, WriteNumber, Creating, XpmemStates
    <2>5. CASE ReadNumber(p) \/ SendMsg(p)
      <3>1. PICK s : s \in {"poll", "idle", "write"} /\ pc' = [pc EXCEPT ![p] = s]
        BY <2>5 DEF ReadNumber, SendMsg
      <3>2. QED
        BY <1>2, <2>5, <3>1, SafeRun DEF ReadNumber, SendMsg, Creating, XpmemStates
    <2>6. CASE ExitAfterQuiescence(p)
      BY <1>2, <2>6, SafeRun DEF ExitAfterQuiescence, Close, Creating, XpmemStates
    <2>7. CASE pc[p] \in {"post", "reply"} /\ Fault(p, SendQueue(p))
      BY <1>2, <2>7, SafeRun DEF Fault, Creating, XpmemStates
    <2>8. QED
      BY <1>2, <2>1, <2>2, <2>3, <2>4, <2>5, <2>6, <2>7 DEF XpmemProc
  <1>3. CASE UNCHANGED vars
    BY <1>3 DEF vars, segVars, Safe, Typed, CreatedApart, Creating, Running
  <1>4. QED
    BY <1>1, <1>2, <1>3 DEF Next, Proc, Exited

(***************************************************************************)
(* A queue is sized and constructed by one process and only once (shm_open *)
(* with O_EXCL in ipc_lfq::open), for both programs, any contents of       *)
(* segments left behind and both ways to start the processes.              *)
(***************************************************************************)
THEOREM OneCreatorHolds == Spec => []OneCreator
  <1>1. Safe => OneCreator
    BY DEF Safe, Typed, CreatedApart, Creating, OneCreator, Procs, Other, TesterStates,
       XpmemStates, Running, OpeningStates
  <1>2. QED
    BY <1>1, SafeInit, SafeNext, PTL DEF Spec

-----------------------------------------------------------------------------
LEMMA StreamsInit == Leftovers = {<< >>} /\ Init => Streams
  <1> SUFFICES ASSUME Leftovers = {<< >>}, Init PROVE Streams
    OBVIOUS
  <1>1. queue \in [Procs -> Seq(Nat \X Nat)] /\ \A p \in Procs : queue[p] = << >>
    BY SegmentsAssumption DEF Init, SegInit
  <1>2. it \in [Procs -> Nat] /\ i \in [Procs -> Nat]
    BY DEF Init, TesterInit
  <1>3. Before /\ pc[0] \in OpeningStates
    BY <1>1 DEF Init, SegInit, TesterInit, Before, FirstOpens, OpeningStates, Procs
  <1>4. QED
    BY <1>1, <1>2, <1>3 DEF Streams

(* Process 0 opens. *)
LEMMA BeforeOpen ==
  ASSUME Safe, Streams, program = "lfq", serial, pc[0] \in OpeningStates,
         NEW p \in Procs, Open(p, "send"), UNCHANGED <<program, testerVars>>
  PROVE  Streams'
  <1> Before /\ it \in [Procs -> Nat] /\ i \in [Procs -> Nat] /\ queue \in [Procs -> Seq(Nat \X Nat)]
    BY DEF Streams
  <1>1. p = 0
    BY DEF Open, ShmOpen, Truncate, Construct, MayStart, Before, FirstOpens, OpeningStates, Procs
  <1>2. CASE ShmOpen(0, "send")
    BY <1>2 DEF ShmOpen, Opened, Streams, Before, FirstOpens, OpeningStates, Procs, Safe, Typed, testerVars
  <1>3. CASE Truncate(0)
    BY <1>3 DEF Truncate, Streams, Before, FirstOpens, OpeningStates, Procs, Safe, Typed, testerVars
  <1>4. CASE Construct(0, "send")
    <2>1. CASE opening[0] = 0
      <3>1. queue' = queue
        BY <1>4, <2>1 DEF Construct, Before, FirstOpens, Procs
      <3>2. Before' /\ pc'[0] = "open"
        BY <1>4, <2>1, <3>1 DEF Construct, Opened, Before, FirstOpens, Procs, Safe, Typed, testerVars
      <3>3. QED
        BY <1>4, <3>1, <3>2 DEF Construct, Streams, OpeningStates, testerVars
    <2>2. CASE opening[0] = 1
      <3>1. After' /\ pc'[0] = "send" /\ pc'[1] = "open" /\ queue' = queue
        BY <1>4, <2>2, SegmentsAssumption DEF Construct, Opened, Before, FirstOpens, After,
           OpeningStates, Procs, Safe, Typed, testerVars
      <3>2. Stream(0, 1)' /\ Stream(1, 0)'
        BY <3>1 DEF Stream, SentOf, ReceivedOf, Before, FirstOpens, Procs, testerVars
      <3>3. QED
        BY <1>4, <3>1, <3>2 DEF Construct, Streams, OpeningStates, testerVars
    <2>3. QED
      BY <2>1, <2>2 DEF Safe, Typed, Procs
  <1>5. QED
    BY <1>1, <1>2, <1>3, <1>4 DEF Open

(* Process 1 opens: it finds both queues, and the streams are as they were. *)
LEMMA AfterOpen ==
  ASSUME Safe, Streams, program = "lfq", serial, pc[0] \notin OpeningStates,
         NEW p \in Procs, Open(p, "send"), UNCHANGED <<program, testerVars>>
  PROVE  Streams'
  <1> After /\ Stream(0, 1) /\ Stream(1, 0)
    BY DEF Streams
  <1>1. /\ p = 1 /\ pc[1] = "open" /\ UNCHANGED <<seg, queue, it, i>>
        /\ pc' = [pc EXCEPT ![1] = pc'[1]] /\ pc'[1] \in {"open", "send"}
    BY DEF Open, ShmOpen, Truncate, Construct, Opened, After, OpeningStates, Procs, Safe,
       Typed, testerVars
  <1>2. After' /\ pc'[0] = pc[0] /\ pc'[0] \notin OpeningStates
    BY <1>1, SegmentsAssumption DEF After, Procs, Safe, Typed, OpeningStates
  <1>3. \A r \in Procs : SentOf(r)' = SentOf(r) /\ ReceivedOf(r)' = ReceivedOf(r)
    BY <1>1 DEF SentOf, ReceivedOf, After, Procs, Safe, Typed
  <1>4. Stream(0, 1)' /\ Stream(1, 0)'
    BY <1>1, <1>2, <1>3 DEF Stream, MessageOf, Procs
  <1>5. QED
    BY <1>1, <1>2, <1>4 DEF Streams

(* What holds of both streams once both queues are there. *)
LEMMA StreamsAfter ==
  ASSUME Streams, program = "lfq", serial, NEW p \in Procs, pc[p] \notin OpeningStates
  PROVE  /\ After /\ Stream(p, Other(p)) /\ Stream(Other(p), p) /\ pc[0] \notin OpeningStates
         /\ queue \in [Procs -> Seq(Nat \X Nat)] /\ it \in [Procs -> Nat] /\ i \in [Procs -> Nat]
         /\ Other(p) \in Procs /\ Other(p) # p /\ Procs = {p, Other(p)}
  BY DEF Streams, Before, FirstOpens, OpeningStates, Procs, Other

LEMMA AfterStreams ==
  ASSUME NEW p \in Procs, After', Stream(p, Other(p))', Stream(Other(p), p)',
         (queue \in [Procs -> Seq(Nat \X Nat)] /\ it \in [Procs -> Nat] /\ i \in [Procs -> Nat])'
  PROVE  Streams'
  BY DEF Streams, After, OpeningStates, Procs, Other

(* Message n of iteration a, counted from iteration b, the same or the one before. *)
LEMMA NextMessage ==
  ASSUME NEW a \in Nat, NEW b \in Nat, NEW n \in 1 .. NumMsgs, NEW z \in Int,
         \/ a = b /\ z = n
         \/ a = b + 1 /\ z = NumMsgs + n
  PROVE  MessageOf(b, z) = <<a, n>>
  <1>1. \/ a = b /\ z = n /\ z <= NumMsgs
        \/ a = b + 1 /\ z - NumMsgs = n /\ ~(z <= NumMsgs)
    BY SegmentsAssumption
  <1>2. QED
    BY <1>1 DEF MessageOf

(* p appends its next message to the stream to the other process. *)
LEMMA StreamsSend ==
  ASSUME Safe, Streams, program = "lfq", serial, NEW p \in Procs, Send(p), UNCHANGED program
  PROVE  Streams'
  <1> DEFINE o == Other(p)
             m == <<it[p], i[p]>>
  <1>1. pc[p] = "send" /\ pc[p] \notin OpeningStates /\ pc \in [Procs -> OpeningStates \cup Running]
    BY DEF Send, OpeningStates, Safe, Typed
  <1>2. /\ After /\ Stream(p, o) /\ Stream(o, p)
        /\ queue \in [Procs -> Seq(Nat \X Nat)] /\ it \in [Procs -> Nat] /\ i \in [Procs -> Nat]
        /\ o \in Procs /\ o # p /\ Procs = {p, o}
    BY <1>1, StreamsAfter
  <1> HIDE DEF o
  <1>3. /\ queue' = [queue EXCEPT ![o] = Append(@, m)] /\ UNCHANGED <<serial, seg, it>>
        /\ i' = [i EXCEPT ![p] = IF @ < NumMsgs THEN @ + 1 ELSE 1]
        /\ pc' = [pc EXCEPT ![p] = IF i[p] < NumMsgs THEN @ ELSE "receive"]
    BY DEF Send, Step, o
  <1>4. i[p] \in 1 .. NumMsgs /\ it[p] < NumMsgs /\ it[o] \in Nat /\ NumMsgs \in Nat \ {0}
    BY <1>1, <1>2, SegmentsAssumption DEF After
  <1>5. After'
    <2>1. pc'[p] \in {"send", "receive"} /\ pc'[o] = pc[o] /\ i'[p] \in 1 .. NumMsgs /\ i'[o] = i[o]
      BY <1>1, <1>2, <1>3, <1>4
    <2>2. QED
      BY <1>1, <1>2, <1>3, <1>4, <2>1 DEF After, Procs
  <1>6. /\ SentOf(p)' = SentOf(p) + 1 /\ SentOf(p) = i[p] - 1
        /\ ReceivedOf(p)' = ReceivedOf(p) /\ ReceivedOf(p) = 0
        /\ SentOf(o)' = SentOf(o) /\ ReceivedOf(o)' = ReceivedOf(o)
    BY <1>1, <1>2, <1>3, <1>4 DEF SentOf, ReceivedOf
  <1>7. /\ SentOf(p) \in Int /\ SentOf(o) \in Int /\ ReceivedOf(o) \in Int
        /\ Len(queue[o]) \in Int /\ it[p] \in Nat
    BY <1>2, <1>4, <1>6 DEF SentOf, ReceivedOf, After
  <1>8. /\ queue[o] \in Seq(Nat \X Nat) /\ m \in Nat \X Nat /\ queue'[o] = Append(queue[o], m)
        /\ queue'[p] = queue[p] /\ it'[p] = it[p] /\ it'[o] = it[o]
    BY <1>2, <1>3
  <1>9. /\ Len(queue'[o]) = Len(queue[o]) + 1 /\ queue'[o][Len(queue[o]) + 1] = m
        /\ \A k \in 1 .. Len(queue[o]) : queue'[o][k] = queue[o][k]
    BY <1>8
  <1>10. /\ Len(queue[o]) \in Nat
         /\ \/ it[p] = it[o] /\ Len(queue[o]) = SentOf(p) - ReceivedOf(o)
            \/ /\ it[p] = it[o] + 1 /\ pc[o] = "receive"
               /\ Len(queue[o]) = NumMsgs + SentOf(p) - ReceivedOf(o)
    BY <1>1, <1>2, <1>8 DEF Stream
  <1>11. Stream(p, o)'
    <2>1. m = MessageOf(it[o], ReceivedOf(o) + (Len(queue[o]) + 1))
      <3>1. PICK S \in Int, R \in Int, L \in Int :
                   S = SentOf(p) /\ R = ReceivedOf(o) /\ L = Len(queue[o])
        BY <1>7
      <3>2. PICK z \in Int : z = R + (L + 1)
        OBVIOUS
      <3>3. S = i[p] - 1 /\ i[p] \in Int /\ NumMsgs \in Nat
        BY <1>4, <1>6, <3>1
      <3>4. CASE it[p] = it[o] /\ L = S - R
        <4>1. z = i[p]
          BY <3>2, <3>3, <3>4
        <4>2. QED
          BY <1>4, <1>7, <3>1, <3>2, <3>4, <4>1, NextMessage
      <3>5. CASE it[p] = it[o] + 1 /\ L = NumMsgs + S - R
        <4>1. z = NumMsgs + i[p]
          BY <3>2, <3>3, <3>5
        <4>2. MessageOf(it[o], z) = m
          BY <1>4, <1>7, <3>5, <4>1, NextMessage
        <4>3. QED
          BY <3>1, <3>2, <4>2
      <3>6. QED
        BY <1>10, <3>1, <3>4, <3>5
    <2>2. \A k \in 1 .. Len(queue[o]) : queue[o][k] = MessageOf(it[o], ReceivedOf(o) + k)
      BY <1>2 DEF Stream
    <2>3. \A k \in 1 .. Len(queue'[o]) : queue'[o][k] = MessageOf(it[o], ReceivedOf(o) + k)
      <3>1. TAKE k \in 1 .. Len(queue'[o])
      <3>2. k \in 1 .. Len(queue[o]) \/ k = Len(queue[o]) + 1
        BY <1>9, <1>10
      <3>3. QED
        BY <1>9, <2>1, <2>2, <3>2
    <2>4. pc'[o] = pc[o]
      BY <1>2, <1>3
    <2>5. \A k \in 1 .. Len(queue'[o]) : queue'[o][k] = MessageOf(it'[o], ReceivedOf(o)' + k)
      BY <1>6, <1>8, <2>3
    <2>6. \/ it'[p] = it'[o] /\ Len(queue'[o]) = SentOf(p)' - ReceivedOf(o)'
          \/ /\ it'[p] = it'[o] + 1 /\ pc'[o] = "receive"
             /\ Len(queue'[o]) = NumMsgs + SentOf(p)' - ReceivedOf(o)'
      <3>1. PICK S \in Int, R \in Int, L \in Int : S = SentOf(p) /\ R = ReceivedOf(o) /\ L = Len(queue[o])
        BY <1>7
      <3>2. SentOf(p)' = S + 1 /\ ReceivedOf(o)' = R /\ Len(queue'[o]) = L + 1
        BY <1>6, <1>9, <3>1
      <3>3. (L = S - R => L + 1 = S + 1 - R) /\ (L = NumMsgs + S - R => L + 1 = NumMsgs + (S + 1) - R)
        BY <1>4
      <3>4. QED
        BY <1>8, <1>10, <2>4, <3>1, <3>2, <3>3
    <2>7. QED
      BY <2>5, <2>6 DEF Stream, MessageOf
  <1>12. Stream(o, p)'
    <2>1. Len(queue[p]) \in Nat /\ pc'[o] = pc[o]
      BY <1>2, <1>3
    <2>2. it[o] # it[p] + 1
      BY <1>1, <1>2, <1>4, <1>10
    <2>3. QED
      BY <1>2, <1>4, <1>6, <1>8, <2>1, <2>2 DEF Stream
  <1>13. queue' \in [Procs -> Seq(Nat \X Nat)] /\ it' \in [Procs -> Nat] /\ i' \in [Procs -> Nat]
    BY <1>2, <1>3, <1>4, <1>8
  <1>14. QED
    BY <1>5, <1>11, <1>12, <1>13, AfterStreams DEF o

(* What p receives is message i of its iteration: no assertion failure. *)
LEMMA HeadOfStream ==
  ASSUME Streams, program = "lfq", serial, NEW p \in Procs, pc[p] = "receive", queue[p] # << >>
  PROVE  queue[p][1] = <<it[p], i[p]>> /\ Len(queue[p]) \in Nat \ {0}
  <1>1. /\ After /\ Stream(Other(p), p) /\ queue[p] \in Seq(Nat \X Nat)
        /\ it[p] \in Nat
    BY StreamsAfter DEF OpeningStates
  <1>2. i[p] \in 1 .. NumMsgs
    BY <1>1 DEF After
  <1>3. Len(queue[p]) \in Nat \ {0}
    BY <1>1
  <1>4. ReceivedOf(p) + 1 = i[p]
    BY <1>2 DEF ReceivedOf
  <1>5. queue[p][1] = MessageOf(it[p], i[p])
    BY <1>1, <1>3, <1>4 DEF Stream
  <1>6. QED
    BY <1>1, <1>2, <1>3, <1>5, NextMessage

LEMMA StreamsReceive ==
  ASSUME Safe, Streams, program = "lfq", serial, NEW p \in Procs, Receive(p), UNCHANGED program
  PROVE  Streams'
  <1> DEFINE o == Other(p)
  <1>1. /\ pc[p] = "receive" /\ pc[p] \notin OpeningStates /\ queue[p] # << >>
        /\ pc \in [Procs -> OpeningStates \cup Running]
    BY DEF Receive, OpeningStates, Safe, Typed
  <1>2. /\ After /\ Stream(p, o) /\ Stream(o, p)
        /\ queue \in [Procs -> Seq(Nat \X Nat)] /\ it \in [Procs -> Nat] /\ i \in [Procs -> Nat]
        /\ o \in Procs /\ o # p /\ Procs = {p, o}
    BY <1>1, StreamsAfter
  <1> HIDE DEF o
  <1>3. queue[p][1] = <<it[p], i[p]>> /\ Len(queue[p]) \in Nat \ {0}
    BY <1>1, HeadOfStream
  <1>4. Head(queue[p])[2] = i[p]
    BY <1>1, <1>2, <1>3
  <1>5. /\ queue' = [queue EXCEPT ![p] = Tail(@)] /\ UNCHANGED <<serial, seg>>
        /\ i' = [i EXCEPT ![p] = IF @ < NumMsgs THEN @ + 1 ELSE 1]
        /\ pc' = [pc EXCEPT ![p] = IF i[p] < NumMsgs THEN @
                                   ELSE IF it[p] + 1 < NumMsgs THEN "send" ELSE "close"]
        /\ it' = [it EXCEPT ![p] = IF i[p] < NumMsgs THEN @ ELSE @ + 1]
    BY <1>4 DEF Receive, Step, NextIteration
  <1>6. /\ i[p] \in 1 .. NumMsgs /\ i[o] \in 1 .. NumMsgs /\ it[p] < NumMsgs
        /\ it[p] \in Nat /\ it[o] \in Nat /\ NumMsgs \in Nat \ {0}
    BY <1>1, <1>2, SegmentsAssumption DEF After
  <1>7. After'
    <2>1. pc'[o] = pc[o] /\ i'[o] = i[o] /\ it'[o] = it[o] /\ seg' = seg
      BY <1>2, <1>5
    <2>2. /\ i'[p] \in 1 .. NumMsgs /\ it'[p] \in 0 .. NumMsgs
          /\ pc'[p] \in {"send", "receive", "close"}
          /\ pc'[p] \in {"send", "receive"} => it'[p] < NumMsgs
          /\ pc'[p] = "close" => i'[p] = 1 /\ it'[p] = NumMsgs
      BY <1>1, <1>2, <1>5, <1>6, SMTT(30)
    <2>3. QED
      BY <1>1, <1>2, <2>1, <2>2, ZenonT(40) DEF After, Procs
  <1>8. PICK L \in Nat \ {0}, M \in Nat : L = Len(queue[p]) /\ M = Len(queue[o])
    BY <1>2, <1>3
  <1>9. PICK S \in Int, R \in Int : S = SentOf(o) /\ R = ReceivedOf(o)
    <2>1. SentOf(o) \in Int /\ ReceivedOf(o) \in Int
      BY <1>2, <1>6 DEF SentOf, ReceivedOf
    <2>2. QED
      BY <2>1
  <1>10. /\ SentOf(p) = NumMsgs /\ ReceivedOf(p) = i[p] - 1
         /\ SentOf(o)' = S /\ ReceivedOf(o)' = R /\ pc'[o] = pc[o] /\ it'[o] = it[o]
    BY <1>1, <1>2, <1>5, <1>9 DEF SentOf, ReceivedOf
  <1>11. S <= NumMsgs /\ (S = NumMsgs => pc[o] = "receive")
    BY <1>2, <1>6, <1>9 DEF SentOf
  <1>12. \/ it[o] = it[p] /\ L = S - (i[p] - 1)
         \/ it[o] = it[p] + 1 /\ L = NumMsgs + S - (i[p] - 1)
    BY <1>2, <1>8, <1>9, <1>10 DEF Stream
  <1>13. \/ it[p] = it[o] /\ M = NumMsgs - R
         \/ it[o] = it[p] + 1 /\ M = 0 /\ R = 0
    <2>1. \/ it[p] = it[o] /\ M = NumMsgs - R
          \/ it[p] = it[o] + 1
          \/ it[o] = it[p] + 1 /\ M = 0 /\ R = 0
      BY <1>2, <1>8, <1>9, <1>10 DEF Stream
    <2>2. it[p] # it[o] + 1
      BY <1>6, <1>12
    <2>3. QED
      BY <2>1, <2>2
  <1>14. /\ queue'[o] = queue[o] /\ Len(queue'[o]) = M /\ Len(queue'[p]) = L - 1
         /\ \A k \in 1 .. L - 1 : queue'[p][k] = queue[p][k + 1]
    BY <1>2, <1>5, <1>8
  <1>15. \A k \in 1 .. L : queue[p][k] = MessageOf(it[p], i[p] - 1 + k)
    BY <1>2, <1>8, <1>10 DEF Stream
  <1>16. \A k \in 1 .. Len(queue'[o]) : queue'[o][k] = MessageOf(it'[o], ReceivedOf(o)' + k)
    BY <1>2, <1>9, <1>10, <1>14 DEF Stream
  <1>17. \A k \in 1 .. L - 1 : queue'[p][k] = MessageOf(it[p], i[p] + k)
    <2>1. TAKE k \in 1 .. L - 1
    <2>2. PICK l \in 1 .. L : l = k + 1
      BY <1>8
    <2>3. i[p] - 1 + l = i[p] + k
      BY <1>6, <2>2
    <2>4. QED
      BY <1>14, <1>15, <2>2, <2>3
  <1>18. Stream(p, o)' /\ Stream(o, p)'
    <2>1. CASE i[p] < NumMsgs
      <3>1. /\ SentOf(p)' = NumMsgs /\ ReceivedOf(p)' = i[p] /\ it'[p] = it[p]
            /\ pc'[p] = "receive"
        BY <1>1, <1>2, <1>5, <1>6, <2>1 DEF SentOf, ReceivedOf
      <3>2. Stream(p, o)'
        BY <1>10, <1>13, <1>14, <1>16, <3>1 DEF Stream
      <3>3. Stream(o, p)'
        <4>1. \A k \in 1 .. Len(queue'[p]) : queue'[p][k] = MessageOf(it'[p], ReceivedOf(p)' + k)
          BY <1>14, <1>17, <3>1
        <4>2. \/ it'[o] = it'[p] /\ Len(queue'[p]) = S - i[p]
              \/ it'[o] = it'[p] + 1 /\ Len(queue'[p]) = NumMsgs + S - i[p]
          <5>1. \/ it[o] = it[p] /\ L - 1 = S - i[p]
                \/ it[o] = it[p] + 1 /\ L - 1 = NumMsgs + S - i[p]
            BY <1>6, <1>12
          <5>2. QED
            BY <1>10, <1>14, <3>1, <5>1
        <4>3. QED
          BY <1>10, <3>1, <4>1, <4>2 DEF Stream
      <3>4. QED
        BY <3>2, <3>3
    <2>2. CASE i[p] = NumMsgs
      <3>1. /\ SentOf(p)' = 0 /\ ReceivedOf(p)' = 0 /\ it'[p] = it[p] + 1
        BY <1>1, <1>2, <1>5, <1>6, <2>2 DEF SentOf, ReceivedOf
      <3>2. \/ it[o] = it[p] /\ L = 1 /\ pc[o] = "receive"
            \/ it[o] = it[p] + 1 /\ L - 1 = S
        BY <1>6, <1>11, <1>12, <2>2
      <3>3. Stream(p, o)'
        <4>1. \/ it'[p] = it'[o] + 1 /\ M = NumMsgs + 0 - R /\ pc[o] = "receive"
              \/ it'[p] = it'[o] /\ M = 0 - R
          BY <1>6, <1>10, <1>13, <3>1, <3>2
        <4>2. QED
          BY <1>10, <1>14, <1>16, <3>1, <4>1 DEF Stream
      <3>4. Stream(o, p)'
        <4>1. \A k \in 1 .. Len(queue'[p]) : queue'[p][k] = MessageOf(it'[p], ReceivedOf(p)' + k)
          <5>1. TAKE k \in 1 .. Len(queue'[p])
          <5>2. k \in 1 .. L - 1 /\ L - 1 <= NumMsgs
            BY <1>6, <1>11, <1>14, <3>2
          <5>3. MessageOf(it[p], i[p] + k) = <<it[p] + 1, k>>
            BY <1>6, <2>2, <5>2, NextMessage
          <5>4. MessageOf(it[p] + 1, k) = <<it[p] + 1, k>>
            BY <1>6, <5>2, NextMessage
          <5>5. QED
            BY <1>17, <3>1, <5>2, <5>3, <5>4
        <4>2. \/ it'[p] = it'[o] + 1 /\ Len(queue'[p]) = 0 /\ pc'[o] = "receive"
              \/ it'[o] = it'[p] /\ Len(queue'[p]) = S - 0
          BY <1>6, <1>10, <1>14, <3>1, <3>2
        <4>3. QED
          BY <1>10, <3>1, <4>1, <4>2 DEF Stream
      <3>5. QED
        BY <3>3, <3>4
    <2>3. QED
      BY <1>6, <2>1, <2>2
  <1>19. queue' \in [Procs -> Seq(Nat \X Nat)] /\ it' \in [Procs -> Nat] /\ i' \in [Procs -> Nat]
    BY <1>1, <1>2, <1>5, <1>6, SMTT(30)
  <1>20. QED
    BY <1>7, <1>18, <1>19, AfterStreams DEF o

(* A process closes when all streams are at their ends. *)
LEMMA StreamsClose ==
  ASSUME Safe, Streams, program = "lfq", serial, NEW p \in Procs, pc[p] = "close", Close(p),
         UNCHANGED <<program, testerVars>>
  PROVE  Streams'
  <1> DEFINE o == Other(p)
  <1>1. pc[p] \notin OpeningStates /\ pc \in [Procs -> OpeningStates \cup Running]
    BY DEF OpeningStates, Safe, Typed
  <1>2. /\ After /\ Stream(p, o) /\ Stream(o, p)
        /\ queue \in [Procs -> Seq(Nat \X Nat)] /\ it \in [Procs -> Nat] /\ i \in [Procs -> Nat]
        /\ o \in Procs /\ o # p /\ Procs = {p, o}
    BY <1>1, StreamsAfter
  <1> HIDE DEF o
  <1>3. /\ UNCHANGED <<serial, queue, it, i>> /\ seg' = [q \in Procs |-> "absent"]
        /\ pc' = [pc EXCEPT ![p] = "done"]
    BY DEF Close, testerVars
  <1>4. pc[o] # "open"
    BY <1>2, SegmentsAssumption DEF After, Stream
  <1>5. After'
    <2>1. pc'[p] = "done" /\ pc'[o] = pc[o] /\ \A q \in Procs : seg'[q] = "absent"
      BY <1>1, <1>2, <1>3
    <2>2. QED
      BY <1>2, <1>3, <1>4, <2>1 DEF After, Procs
  <1>6. \A r \in Procs : SentOf(r)' = SentOf(r) /\ ReceivedOf(r)' = ReceivedOf(r)
    BY <1>1, <1>2, <1>3 DEF SentOf, ReceivedOf
  <1>7. Stream(p, o)' /\ Stream(o, p)'
    BY <1>1, <1>2, <1>3, <1>6 DEF Stream, MessageOf
  <1>8. QED
    BY <1>2, <1>3, <1>5, <1>7, AfterStreams DEF o

(* How the programs were started does not change. *)
LEMMA ConstantsKept == [Next]_vars => UNCHANGED <<program, serial>>
  BY DEF Next, Proc, Exited, vars, segVars, TesterProc, XpmemProc, Open, ShmOpen, Truncate,
     Construct, Send, Receive, Fault, Close, Main, StoreFirst, Neighbor, PseudoScheduler,
     TakeMsg, ReadNumber, WriteNumber, SendMsg, ExitAfterQuiescence

LEMMA StreamsNext == Safe /\ Streams /\ [Next]_vars => Streams'
  <1> SUFFICES ASSUME Safe, Streams, [Next]_vars PROVE Streams'
    OBVIOUS
  <1>1. CASE program = "lfq" /\ serial
    <2>1. ASSUME NEW p \in Procs, TesterProc(p), UNCHANGED program
          PROVE  Streams'
      <3>1. CASE Open(p, "send") /\ UNCHANGED testerVars
        BY <1>1, <2>1, <3>1, BeforeOpen, AfterOpen
      <3>2. CASE Send(p)
        BY <1>1, <2>1, <3>2, StreamsSend
      <3>3. CASE Receive(p)
        BY <1>1, <2>1, <3>3, StreamsReceive
      <3>4. ASSUME NEW q \in Procs, pc[p] \in {"send", "receive"}, Fault(p, q) PROVE FALSE
        <4>1. After
          BY <1>1, <3>4, StreamsAfter DEF OpeningStates
        <4>2. QED
          BY <3>4, <4>1 DEF After, Fault
      <3>5. CASE pc[p] = "close" /\ Close(p) /\ UNCHANGED testerVars
        BY <1>1, <2>1, <3>5, StreamsClose
      <3>6. QED
        BY <2>1, <3>1, <3>2, <3>3, <3>4, <3>5 DEF TesterProc, Procs, Other
    <2>2. CASE UNCHANGED vars
      BY <2>2 DEF vars, segVars, testerVars, Streams, Before, FirstOpens, After, Stream, SentOf, ReceivedOf,
         MessageOf
    <2>3. QED
      BY <1>1, <2>1, <2>2 DEF Next, Proc, Exited
  <1>2. CASE ~(program = "lfq" /\ serial)
    BY <1>2, ConstantsKept DEF Streams
  <1>3. QED
    BY <1>1, <1>2

-----------------------------------------------------------------------------
LEMMA OneMessageInit == Leftovers = {<< >>} /\ Init => OneMessage
  <1> SUFFICES ASSUME Leftovers = {<< >>}, Init PROVE OneMessage
    OBVIOUS
  <1>1. << >> \in Seq(Procs \X Nat) /\ queue \in [Procs -> {<< >>}]
    BY DEF Init, SegInit
  <1>2. queue \in [Procs -> Seq(Procs \X Nat)] /\ \A p \in Procs : queue[p] = << >>
    BY <1>1
  <1>3. data \in [Procs -> Nat] /\ taken \in [Procs -> Procs \X Nat] /\ recvd \in [Procs -> Nat]
    BY SegmentsAssumption DEF Init, XpmemInit
  <1>4. Quiet
    BY <1>2 DEF Init, SegInit, Quiet, AtNumber, Procs
  <1>5. QED
    BY <1>2, <1>3, <1>4 DEF Init, TesterInit, XpmemInit, OneMessage

(* Process 0 is on its way to the first message. *)
LEMMA OneMessageMain ==
  ASSUME Safe, OneMessage, program = "xpmem", Main \/ StoreFirst,
         UNCHANGED <<program, testerVars>>
  PROVE  OneMessage'
  <1>1. CASE Main
    <2>1. Quiet /\ received = 0
      BY <1>1 DEF OneMessage, Main
    <2>2. pc'[0] = "store" /\ pc'[1] = pc[1] /\ ~AtNumber(1)'
      BY <1>1, <2>1 DEF Main, Quiet, AtNumber, Safe, Typed, Procs
    <2>3. Underway(0)'
      BY <1>1, <2>1, <2>2 DEF Main, Underway, ToBeSent, Quiet, Procs, Other
    <2>4. QED
      BY <1>1, <2>2, <2>3 DEF OneMessage, Main, OpeningStates, Procs, testerVars
  <1>2. CASE StoreFirst
    <2>1. Underway(0) /\ ToBeSent(0) /\ received = 0
      BY <1>2 DEF OneMessage, StoreFirst, Quiet, Underway, InQueue, IsTaken, ToBeSent, AtNumber,
         Procs, Other
    <2>2. pc'[0] = "post" /\ pc'[1] = pc[1] /\ data' \in [Procs -> Nat] /\ data'[0] = 0
      BY <1>2 DEF OneMessage, StoreFirst, Safe, Typed, Procs
    <2>3. Underway(0)'
      BY <1>2, <2>1, <2>2 DEF StoreFirst, Underway, ToBeSent, AtNumber, Procs, Other
    <2>4. QED
      BY <1>2, <2>2, <2>3 DEF OneMessage, StoreFirst, OpeningStates, Procs, testerVars
  <1>3. QED
    BY <1>1, <1>2

(* Where number received is when its reader, or its sender, acts on it. *)
LEMMA WhereItIs ==
  ASSUME OneMessage, program = "xpmem", NEW p \in Procs
  PROVE  /\ pc[p] = "poll" /\ queue[Other(p)] # << >> =>
              Underway(Other(p)) /\ InQueue(Other(p))
         /\ pc[p] = "read" => Underway(Other(p)) /\ IsTaken(Other(p))
         /\ pc[p] \in {"write", "post", "reply"} => Underway(p) /\ ToBeSent(p)
         /\ AtNumber(p) => pc[0] \notin OpeningStates \cup {"main"}
         /\ queue[Other(p)] # << >> => pc[0] \notin OpeningStates \cup {"main"}
  <1> DEFINE o == Other(p)
  <1>1. o \in Procs /\ p = Other(o) /\ p # o /\ Procs = {p, o} /\ Procs = {0, 1}
    BY DEF Procs, Other
  <1> HIDE DEF o
  <1>2. Quiet => ~AtNumber(p) /\ queue[o] = << >>
    BY <1>1 DEF Quiet
  <1>3. pc[0] \in OpeningStates \cup {"main"} => Quiet
    BY DEF OneMessage
  <1>4. ~Quiet => Underway(p) \/ Underway(o)
    BY <1>1 DEF OneMessage
  <1>5. CASE Quiet
    BY <1>2, <1>5 DEF AtNumber, o
  <1>6. CASE ~Quiet /\ Underway(p)
    <2>1. queue[o] = << >> /\ (InQueue(p) \/ IsTaken(p) \/ ToBeSent(p))
      BY <1>6 DEF Underway, o
    <2>2. pc[p] # "read" /\ (AtNumber(p) => ToBeSent(p))
      BY <2>1 DEF InQueue, IsTaken, ToBeSent, AtNumber
    <2>3. QED
      BY <1>3, <1>6, <2>1, <2>2 DEF AtNumber, o
  <1>7. CASE ~Quiet /\ Underway(o)
    <2>1. InQueue(o) \/ IsTaken(o) \/ ToBeSent(o)
      BY <1>7 DEF Underway
    <2>2. /\ pc[p] \notin {"write", "post", "reply"} /\ (pc[p] = "read" => IsTaken(o))
          /\ pc[p] = "poll" /\ queue[o] # << >> => InQueue(o)
      BY <1>1, <2>1 DEF InQueue, IsTaken, ToBeSent, AtNumber
    <2>3. QED
      BY <1>3, <1>7, <2>2 DEF o
  <1>8. QED
    BY <1>4, <1>5, <1>6, <1>7

LEMMA OneMessageTakeMsg ==
  ASSUME Safe, OneMessage, program = "xpmem", NEW p \in Procs, TakeMsg(p),
         UNCHANGED <<program, testerVars>>
  PROVE  OneMessage'
  <1> DEFINE o == Other(p)
  <1>1. o \in Procs /\ p = Other(o) /\ p # o /\ Procs = {p, o}
    BY DEF Procs, Other
  <1>2. queue \in [Procs -> Seq(Procs \X Nat)] /\ taken \in [Procs -> Procs \X Nat]
    BY DEF OneMessage
  <1>3. Underway(o) /\ InQueue(o) /\ pc[0] \notin OpeningStates \cup {"main"}
    BY WhereItIs DEF TakeMsg, RecvQueue
  <1>4. Head(queue[o]) = <<o, data[o]>> /\ Tail(queue[o]) = << >> /\ queue[p] = << >>
    BY <1>1, <1>3 DEF InQueue, Underway
  <1>5. /\ queue' = [queue EXCEPT ![o] = << >>] /\ taken' = [taken EXCEPT ![p] = <<o, data[o]>>]
        /\ pc' = [pc EXCEPT ![p] = "read"] /\ UNCHANGED <<data, recvd, received>>
    BY <1>4 DEF TakeMsg, RecvQueue
  <1>6. queue' \in [Procs -> Seq(Procs \X Nat)] /\ queue'[o] = << >> /\ queue'[p] = << >>
    <2>1. << >> \in Seq(Procs \X Nat)
      OBVIOUS
    <2>2. QED
      BY <1>1, <1>2, <1>4, <1>5, <2>1
  <1>7. /\ taken' \in [Procs -> Procs \X Nat] /\ taken'[p] = <<o, data[o]>>
        /\ pc'[p] = "read" /\ pc'[o] = pc[o]
    BY <1>1, <1>2, <1>5 DEF OneMessage, Safe, Typed
  <1>8. Underway(o)'
    <2>1. ~AtNumber(o)' /\ data'[o] = received'
      BY <1>3, <1>5, <1>7 DEF InQueue, AtNumber
    <2>2. QED
      BY <1>1, <1>3, <1>5, <1>6, <1>7, <2>1 DEF Underway, IsTaken
  <1>9. pc'[0] \notin OpeningStates \cup {"main"}
    BY <1>1, <1>3, <1>7 DEF OpeningStates, Procs
  <1>10. QED
    BY <1>1, <1>5, <1>6, <1>7, <1>8, <1>9 DEF OneMessage, testerVars

(* The number read is the one that was sent; after the last nothing is left. *)
LEMMA NumberRead ==
  ASSUME OneMessage, program = "xpmem", NEW p \in Procs, ReadNumber(p)
  PROVE  /\ data[taken[p][1]] = received /\ received' = received + 1
         /\ recvd' = [recvd EXCEPT ![p] = received]
         /\ pc' = [pc EXCEPT ![p] = IF received >= NumMsgs - 1 THEN "idle" ELSE "write"]
         /\ received \in Nat /\ received % 2 = Other(p)
  <1>1. Underway(Other(p)) /\ IsTaken(Other(p)) /\ Other(Other(p)) = p
    BY WhereItIs DEF ReadNumber, Procs, Other
  <1>2. data[taken[p][1]] = received
    BY <1>1 DEF IsTaken
  <1>3. QED
    BY <1>1, <1>2 DEF ReadNumber, Last, OneMessage, Underway

LEMMA OneMessageReadNumber ==
  ASSUME Safe, OneMessage, program = "xpmem", NEW p \in Procs, ReadNumber(p),
         UNCHANGED <<program, testerVars>>
  PROVE  OneMessage'
  <1> DEFINE o == Other(p)
  <1>1. o \in Procs /\ p = Other(o) /\ p # o /\ Procs = {p, o}
    BY DEF Procs, Other
  <1>2. Underway(o) /\ IsTaken(o) /\ pc[0] \notin OpeningStates \cup {"main"}
    BY WhereItIs DEF ReadNumber, AtNumber
  <1>3. /\ received' = received + 1 /\ recvd' = [recvd EXCEPT ![p] = received]
        /\ pc' = [pc EXCEPT ![p] = IF received >= NumMsgs - 1 THEN "idle" ELSE "write"]
        /\ received \in Nat /\ UNCHANGED <<queue, data, taken>> /\ received % 2 = o
    BY NumberRead DEF ReadNumber
  <1>4. /\ recvd' \in [Procs -> Nat] /\ recvd'[p] = received
        /\ pc'[o] = pc[o] /\ pc'[p] \in {"idle", "write"} /\ ~AtNumber(o)'
    BY <1>1, <1>2, <1>3 DEF OneMessage, Safe, Typed, IsTaken, AtNumber
  <1>5. received' % 2 = p
    <2>1. (received % 2 = 0 => (received + 1) % 2 = 1) /\ (received % 2 = 1 => (received + 1) % 2 = 0)
      BY <1>3
    <2>2. QED
      BY <1>3, <2>1 DEF Procs, Other
  <1>6. queue'[p] = << >> /\ queue'[o] = << >>
    BY <1>1, <1>2, <1>3 DEF Underway, IsTaken
  <1>7. pc'[p] = "idle" => Quiet'
    BY <1>1, <1>4, <1>6 DEF Quiet, AtNumber, Procs
  <1>8. pc'[p] = "write" => Underway(p)'
    BY <1>3, <1>4, <1>5, <1>6 DEF Underway, ToBeSent
  <1>9. pc'[0] \notin OpeningStates \cup {"main"}
    BY <1>1, <1>2, <1>4 DEF OpeningStates, Procs
  <1>10. Quiet' \/ \E q \in Procs : Underway(q)'
    BY <1>4, <1>7, <1>8
  <1>11. /\ it' = [q \in Procs |-> 0] /\ queue' \in [Procs -> Seq(Procs \X Nat)]
         /\ taken' \in [Procs -> Procs \X Nat] /\ data' \in [Procs -> Nat]
         /\ received' \in Nat
    BY <1>3 DEF OneMessage, testerVars
  <1>12. QED
    BY <1>4, <1>9, <1>10, <1>11 DEF OneMessage

LEMMA OneMessageWriteNumber ==
  ASSUME Safe, OneMessage, program = "xpmem", NEW p \in Procs, WriteNumber(p),
         UNCHANGED <<program, testerVars>>
  PROVE  OneMessage'
  <1> DEFINE o == Other(p)
  <1>1. o \in Procs /\ p # o /\ Procs = {p, o}
    BY DEF Procs, Other
  <1>2. Underway(p) /\ ToBeSent(p) /\ pc[0] \notin OpeningStates \cup {"main"}
    BY WhereItIs DEF WriteNumber, AtNumber
  <1>3. received = recvd[p] + 1 /\ recvd \in [Procs -> Nat] /\ data \in [Procs -> Nat]
    BY <1>2 DEF WriteNumber, ToBeSent, OneMessage
  <1>4. /\ data' = [data EXCEPT ![p] = received] /\ pc' = [pc EXCEPT ![p] = "reply"]
        /\ UNCHANGED <<queue, taken, recvd, received>>
    BY <1>3 DEF WriteNumber
  <1>5. /\ data' \in [Procs -> Nat] /\ data'[p] = received /\ pc'[p] = "reply" /\ pc'[o] = pc[o]
    BY <1>1, <1>3, <1>4 DEF Safe, Typed
  <1>6. Underway(p)'
    BY <1>2, <1>3, <1>4, <1>5 DEF Underway, ToBeSent, AtNumber
  <1>7. pc'[0] \notin OpeningStates \cup {"main"}
    BY <1>1, <1>2, <1>5 DEF OpeningStates, Procs
  <1>8. QED
    BY <1>4, <1>5, <1>6, <1>7 DEF OneMessage, testerVars

(* The message joins a queue that is empty, so it is not lost. *)
LEMMA MessageSent ==
  ASSUME Safe, OneMessage, program = "xpmem", NEW p \in Procs, SendMsg(p)
  PROVE  /\ queue' = [queue EXCEPT ![p] = << <<p, data[p]>> >>]
         /\ queue' \in [Procs -> Seq(Procs \X Nat)] /\ queue'[p] = << <<p, data[p]>> >>
  <1>1. queue[p] = << >> /\ queue \in [Procs -> Seq(Procs \X Nat)] /\ data \in [Procs -> Nat]
    BY WhereItIs DEF SendMsg, ToBeSent, OneMessage
  <1>2. Len(queue[p]) < Capacity
    BY <1>1, SegmentsAssumption
  <1>3. Append(queue[p], <<p, data[p]>>) = << <<p, data[p]>> >>
    BY <1>1, SMTT(30)
  <1>4. queue' = [queue EXCEPT ![p] = Append(@, <<p, data[p]>>)]
    BY <1>2 DEF SendMsg, SendQueue
  <1>5. queue' = [queue EXCEPT ![p] = << <<p, data[p]>> >>]
    BY <1>3, <1>4
  <1>6. << <<p, data[p]>> >> \in Seq(Procs \X Nat)
    BY <1>1
  <1>7. QED
    BY <1>1, <1>5, <1>6

LEMMA OneMessageSendMsg ==
  ASSUME Safe, OneMessage, program = "xpmem", NEW p \in Procs, SendMsg(p),
         UNCHANGED <<program, testerVars>>
  PROVE  OneMessage'
  <1> DEFINE o == Other(p)
  <1>1. o \in Procs /\ p # o /\ Procs = {p, o}
    BY DEF Procs, Other
  <1>2. Underway(p) /\ ToBeSent(p) /\ pc[0] \notin OpeningStates \cup {"main"}
    BY WhereItIs DEF SendMsg, AtNumber
  <1>3. /\ queue' = [queue EXCEPT ![p] = << <<p, data[p]>> >>]
        /\ queue' \in [Procs -> Seq(Procs \X Nat)] /\ queue'[p] = << <<p, data[p]>> >>
    BY MessageSent
  <1>4. /\ queue'[o] = << >> /\ UNCHANGED <<data, taken, recvd, received>>
        /\ pc'[p] \in {"poll", "idle"} /\ pc'[o] = pc[o]
    BY <1>1, <1>2, <1>3 DEF SendMsg, xpmemVars, Underway, OneMessage, Safe, Typed
  <1>5. data[p] = received /\ ~AtNumber(o)
    BY <1>2 DEF SendMsg, ToBeSent
  <1>6. Underway(p)'
    BY <1>2, <1>3, <1>4, <1>5 DEF Underway, InQueue, AtNumber
  <1>7. pc'[0] \notin OpeningStates \cup {"main"}
    BY <1>1, <1>2, <1>4 DEF OpeningStates, Procs
  <1>8. QED
    BY <1>3, <1>4, <1>6, <1>7 DEF OneMessage, testerVars

(* Steps that touch no number: a construction may lose the message. *)
LEMMA OneMessageAside ==
  ASSUME Safe, OneMessage, program = "xpmem", NEW p \in Procs,
         queue' = queue \/ \E q \in Procs : queue' = [queue EXCEPT ![q] = << >>],
         ~AtNumber(p) \/ pc'[p] = "fault", ~AtNumber(p)', pc'[Other(p)] = pc[Other(p)],
         pc[p] \notin OpeningStates \cup {"main"} =>
           pc'[p] \notin OpeningStates \cup {"main"},
         UNCHANGED <<program, testerVars, data, taken, recvd, received>>
  PROVE  OneMessage'
  <1> DEFINE o == Other(p)
  <1>1. o \in Procs /\ p = Other(o) /\ p # o /\ Procs = {p, o}
    BY DEF Procs, Other
  <1>2. queue \in [Procs -> Seq(Procs \X Nat)] /\ << >> \in Seq(Procs \X Nat)
    BY DEF OneMessage
  <1>3. /\ queue' \in [Procs -> Seq(Procs \X Nat)]
        /\ queue'[p] \in {queue[p], << >>} /\ queue'[o] \in {queue[o], << >>}
    BY <1>1, <1>2
  <1>4. AtNumber(o)' = AtNumber(o)
    BY DEF AtNumber
  <1>5. Quiet => Quiet'
    BY <1>1, <1>3, <1>4 DEF Quiet, Procs
  <1>6. CASE ~AtNumber(p)
    <2>1. Underway(p) => Underway(p)' \/ Quiet'
      BY <1>1, <1>3, <1>4, <1>6 DEF Underway, InQueue, IsTaken, ToBeSent, AtNumber, Quiet, Procs
    <2>2. Underway(o) => Underway(o)' \/ Quiet'
      BY <1>1, <1>3, <1>4, <1>6 DEF Underway, InQueue, IsTaken, ToBeSent, AtNumber, Quiet, Procs
    <2>3. Quiet' \/ \E q \in Procs : Underway(q)'
      BY <1>1, <1>5, <2>1, <2>2 DEF OneMessage
    <2>4. QED
      BY <1>1, <1>3, <1>5, <2>3 DEF OneMessage, testerVars, Procs
  <1>7. CASE AtNumber(p)
    <2>1. ~Quiet /\ (Underway(p) \/ Underway(o))
      BY <1>1, <1>7 DEF OneMessage, Quiet, Procs
    <2>2. ASSUME Underway(p) PROVE Quiet'
      <3>1. queue[o] = << >> /\ ToBeSent(p)
        BY <1>7, <2>2 DEF Underway, InQueue, IsTaken
      <3>2. QED
        BY <1>1, <1>3, <1>4, <3>1 DEF ToBeSent, Quiet, Procs
    <2>3. ASSUME Underway(o) PROVE Quiet'
      <3>1. queue[p] = << >> /\ IsTaken(o)
        BY <1>1, <1>7, <2>3 DEF Underway, InQueue, ToBeSent
      <3>2. QED
        BY <1>1, <1>3, <1>4, <3>1 DEF IsTaken, Quiet, Procs
    <2>4. Quiet'
      BY <2>1, <2>2, <2>3
    <2>5. QED
      BY <1>1, <1>3, <1>5, <2>4 DEF OneMessage, testerVars, Procs
  <1>8. QED
    BY <1>6, <1>7

LEMMA OneMessageNext == Safe /\ OneMessage /\ [Next]_vars => OneMessage'
  <1> SUFFICES ASSUME Safe, OneMessage, [Next]_vars PROVE OneMessage'
    OBVIOUS
  <1>1. CASE program = "xpmem"
    <2>1. ASSUME NEW p \in Procs, XpmemProc(p), UNCHANGED <<program, testerVars>>
          PROVE  OneMessage'
      <3> Other(p) \in Procs /\ Other(p) # p
        BY DEF Procs, Other
      <3>1. CASE Open(p, IF p = 0 THEN "main" ELSE "idle") /\ UNCHANGED xpmemVars
        <4>1. \/ queue' = queue
              \/ queue' = [queue EXCEPT ![opening[p]] = << >>] /\ opening[p] \in Procs
          BY <3>1 DEF Open, ShmOpen, Truncate, Construct, Safe, Typed
        <4>2. /\ pc[p] \in OpeningStates /\ pc'[Other(p)] = pc[Other(p)]
              /\ pc'[p] \in OpeningStates \cup {"main", "idle"}
          BY <3>1 DEF Open, ShmOpen, Truncate, Construct, Opened, OpeningStates, Safe, Typed
        <4>3. ~AtNumber(p) /\ ~AtNumber(p)'
          BY <4>2 DEF AtNumber, OpeningStates
        <4>4. QED
          BY <1>1, <2>1, <3>1, <4>1, <4>2, <4>3, OneMessageAside DEF xpmemVars
      <3>2. CASE p = 0 /\ (Main \/ StoreFirst)
        BY <1>1, <2>1, <3>2, OneMessageMain
      <3>3. CASE p = 1 /\ Neighbor
        BY <1>1, <2>1, <3>3, OneMessageAside DEF Neighbor, segVars, AtNumber
      <3>4. CASE PseudoScheduler(p)
        BY <1>1, <2>1, <3>4, OneMessageAside DEF PseudoScheduler, AtNumber, OpeningStates, Safe, Typed
      <3>5. CASE TakeMsg(p) \/ ReadNumber(p) \/ WriteNumber(p) \/ SendMsg(p)
        BY <1>1, <2>1, <3>5, OneMessageTakeMsg, OneMessageReadNumber, OneMessageWriteNumber,
           OneMessageSendMsg
      <3>6. CASE ExitAfterQuiescence(p)
        <4>1. pc' = [pc EXCEPT ![p] = "done"] /\ pc[p] = "idle" /\ UNCHANGED <<queue, xpmemVars>>
          BY <3>6 DEF ExitAfterQuiescence, Close
        <4>2. QED
          BY <1>1, <2>1, <4>1, OneMessageAside DEF xpmemVars, AtNumber, OpeningStates, Safe, Typed
      <3>7. CASE pc[p] \in {"post", "reply"} /\ Fault(p, SendQueue(p)) /\ UNCHANGED xpmemVars
        BY <1>1, <2>1, <3>7, OneMessageAside DEF xpmemVars, Fault, AtNumber, OpeningStates, Safe, Typed
      <3>8. QED
        BY <2>1, <3>1, <3>2, <3>3, <3>4, <3>5, <3>6, <3>7 DEF XpmemProc
    <2>2. CASE UNCHANGED vars
      BY <2>2 DEF vars, segVars, testerVars, xpmemVars, OneMessage, Quiet, Underway, InQueue,
         IsTaken, ToBeSent, AtNumber
    <2>3. QED
      BY <1>1, <2>1, <2>2 DEF Next, Proc, Exited
  <1>2. CASE program # "xpmem"
    BY <1>2 DEF Next, Proc, Exited, vars, OneMessage
  <1>3. QED
    BY <1>1, <1>2

-----------------------------------------------------------------------------
LEMMA TurnsInit == Leftovers = {<< >>} /\ Init => Turns
  BY DEF Init, SegInit, XpmemInit, Turns, FirstOpens, OpeningStates, Procs

(* Process 0 opens. *)
LEMMA TurnsFirst ==
  ASSUME Safe, OneMessage, Turns, program = "xpmem", serial, pc[0] \in OpeningStates,
         NEW p \in Procs, Open(p, IF p = 0 THEN "main" ELSE "idle"),
         UNCHANGED <<program, xpmemVars>>, OneMessage'
  PROVE  Turns'
  <1> FirstOpens /\ ~creating /\ invoked = {} /\ Quiet /\ received = 0
    BY DEF Turns, OneMessage
  <1>1. p = 0
    BY DEF Open, ShmOpen, Truncate, Construct, MayStart, FirstOpens, OpeningStates, Procs
  <1>2. CASE ShmOpen(0, "main")
    BY <1>2 DEF ShmOpen, Opened, Turns, FirstOpens, OpeningStates, Procs, Safe, Typed, xpmemVars
  <1>3. CASE Truncate(0)
    BY <1>3 DEF Truncate, Turns, FirstOpens, OpeningStates, Procs, Safe, Typed, xpmemVars
  <1>4. CASE Construct(0, "main") /\ opening[0] = 0
    BY <1>4 DEF Construct, Opened, Turns, FirstOpens, OpeningStates, Procs, Safe, Typed, xpmemVars
  <1>5. CASE Construct(0, "main") /\ opening[0] = 1
    <2>1. /\ pc'[0] = "main" /\ pc'[1] = "open" /\ seg' = [seg EXCEPT ![1] = "ready"]
          /\ UNCHANGED <<serial, creating, invoked, received>>
      BY <1>5 DEF Construct, Opened, FirstOpens, Procs, Safe, Typed, xpmemVars
    <2>2. \A q \in Procs : seg'[q] = "ready"
      BY <1>5, <2>1 DEF FirstOpens, Procs, Safe, Typed
    <2>3. Quiet' /\ received' <= NumMsgs
      BY <2>1, SegmentsAssumption DEF OneMessage
    <2>4. \A q \in Procs : NotStarted(q)'
      BY <2>1 DEF NotStarted, Procs, Other
    <2>5. AfterMain'
      BY <2>1, <2>2, <2>3, <2>4 DEF AfterMain
    <2>6. QED
      BY <2>1, <2>5 DEF Turns, OpeningStates
  <1>6. QED
    BY <1>1, <1>2, <1>3, <1>4, <1>5 DEF Open, Safe, Typed, Procs

(* A step that changes the program counter of p only, and maybe data and queues. *)
LEMMA TurnsSame ==
  ASSUME Safe, AfterMain, NEW p \in Procs, NEW s, pc' = [pc EXCEPT ![p] = s],
         UNCHANGED <<seg, creating, invoked, received>>, Quiet' <=> Quiet,
         pc[p] # "main", s # "main", pc[p] # "open" \/ pc[p] = s \/ s = "idle",
         pc[p] # "open" => s # "open", p = 1 /\ (creating \/ pc[0] = "main") => s \in {"open", "idle"},
         NotStarted(p)' \/ Started(p)'
  PROVE  AfterMain'
  <1> DEFINE o == Other(p)
  <1>1. o \in Procs /\ p # o /\ Procs = {p, o} /\ pc'[o] = pc[o] /\ pc'[p] = s
    BY DEF Procs, Other, Safe, Typed
  <1>2. (pc'[0] = "main") = (pc[0] = "main") /\ (pc'[1] = "open" => pc[1] = "open")
    BY <1>1 DEF Procs
  <1>3. NotStarted(o)' \/ Started(o)'
    BY <1>1, <1>2 DEF AfterMain, NotStarted, Started, MoreFor
  <1>4. \A q \in Procs : NotStarted(q)' \/ Started(q)'
    BY <1>1, <1>3
  <1>5. \A q \in Procs : IF pc'[1] = "open" THEN seg'[q] = "ready" ELSE seg'[q] \in {"ready", "absent"}
    BY <1>2 DEF AfterMain
  <1>6. pc'[0] = "main" \/ creating' => pc'[1] \in {"open", "idle"} /\ invoked' = {}
    BY <1>1, <1>2 DEF AfterMain, Procs
  <1>7. QED
    BY <1>2, <1>4, <1>5, <1>6 DEF AfterMain

(* The constructor of main, and process 1 when it finds the queues. *)
LEMMA TurnsStart ==
  ASSUME Safe, OneMessage, AfterMain, program = "xpmem", NEW p \in Procs,
         \/ p = 0 /\ (Main \/ StoreFirst)
         \/ p = 1 /\ Neighbor
         \/ PseudoScheduler(p)
         \/ p = 1 /\ Open(p, "idle") /\ UNCHANGED xpmemVars,
         1 < NumMsgs
  PROVE  AfterMain'
  <1>1. CASE Main
    <2>1. pc'[0] = "store" /\ pc'[1] = pc[1] /\ creating' /\ UNCHANGED <<seg, queue, invoked, received>>
      BY <1>1 DEF Main, Safe, Typed, Procs
    <2>2. received = 0 /\ ~Quiet'
      BY <1>1, <2>1 DEF Main, OneMessage, Quiet, AtNumber
    <2>3. \A q \in Procs : NotStarted(q)'
      BY <1>1, <2>1, <2>2 DEF Main, AfterMain, NotStarted, Procs, Other
    <2>4. /\ received' <= NumMsgs /\ ~(pc'[0] = "main" \/ received' = NumMsgs)
          /\ pc'[1] \in {"open", "idle"} /\ invoked' = {}
      BY <1>1, <2>1, <2>2, SegmentsAssumption DEF AfterMain, Main
    <2>5. \A q \in Procs : IF pc'[1] = "open" THEN seg'[q] = "ready" ELSE seg'[q] \in {"ready", "absent"}
      BY <2>1 DEF AfterMain
    <2>6. \A q \in Procs : NotStarted(q)' \/ Started(q)'
      BY <2>3
    <2>7. pc'[0] # "main"
      BY <2>1
    <2>8. QED
      BY <2>2, <2>4, <2>5, <2>6, <2>7 DEF AfterMain
  <1>2. CASE StoreFirst
    <2>1. pc' = [pc EXCEPT ![0] = "post"] /\ pc'[0] = "post" /\ UNCHANGED <<seg, creating, invoked, received>>
      BY <1>2 DEF StoreFirst, Safe, Typed, Procs
    <2>2. ~Quiet /\ ~Quiet'
      BY <1>2, <2>1 DEF StoreFirst, Quiet, AtNumber
    <2>3. NotStarted(0)'
      BY <1>2, <2>1 DEF StoreFirst, AfterMain, NotStarted, Started, Procs
    <2>4. QED
      <3>1. pc[0] = "store" /\ 0 \in Procs /\ 0 # 1
        BY <1>2 DEF StoreFirst, Procs
      <3>2. Quiet' <=> Quiet
        BY <2>2
      <3>3. QED
        BY <2>1, <2>3, <3>1, <3>2, TurnsSame
  <1>3. CASE Neighbor
    <2>1. UNCHANGED <<seg, queue, pc, received>> /\ ~creating' /\ invoked' = Procs /\ creating /\ pc[1] = "idle"
      BY <1>3 DEF Neighbor, segVars
    <2>2. Quiet' = Quiet /\ pc[0] # "main"
      BY <2>1 DEF Quiet, AtNumber, AfterMain
    <2>3. \A q \in Procs : NotStarted(q)'
      BY <2>1 DEF AfterMain, NotStarted, Started
    <2>4. QED
      BY <2>1, <2>2, <2>3 DEF AfterMain
  <1>4. CASE PseudoScheduler(p)
    <2> DEFINE o == Other(p)
    <2>1. o \in Procs /\ p # o /\ Procs = {p, o} /\ o = Other(p) /\ p = Other(o)
      BY DEF Procs, Other
    <2>2. /\ pc'[p] = "poll" /\ pc'[o] = pc[o] /\ invoked' = invoked \ {p} /\ pc[p] = "idle" /\ p \in invoked
          /\ UNCHANGED <<seg, queue, creating, received>>
      BY <1>4, <2>1 DEF PseudoScheduler, Safe, Typed
    <2>3. pc[0] # "main" /\ ~creating /\ pc'[0] # "main"
      BY <2>1, <2>2 DEF AfterMain, Procs
    <2>4. Quiet' = Quiet
      BY <2>1, <2>2 DEF Quiet, AtNumber, Procs
    <2>5. Started(p)'
      <3>1. NotStarted(p) /\ received \in Nat
        BY <2>2 DEF AfterMain, Started, OneMessage
      <3>2. MoreFor(p)
        <4>1. NumMsgs \in Nat /\ received \in {0, 1} /\ (p = 1 => received = 0) /\ 0 % 2 = 0 /\ 1 % 2 = 1
          BY <3>1, <2>1, SegmentsAssumption DEF NotStarted, Procs, Other
        <4>2. QED
          BY <4>1 DEF MoreFor, Procs, Other
      <3>3. QED
        BY <2>2, <2>3, <3>2 DEF Started, MoreFor
    <2>6. NotStarted(o)' \/ Started(o)'
      BY <2>1, <2>2, <2>3 DEF AfterMain, NotStarted, Started, MoreFor
    <2>7. \A q \in Procs : NotStarted(q)' \/ Started(q)'
      BY <2>1, <2>5, <2>6
    <2>8. pc'[1] = "open" => pc[1] = "open"
      BY <2>1, <2>2 DEF Procs
    <2>9. QED
      BY <2>2, <2>3, <2>4, <2>7, <2>8 DEF AfterMain
  <1>5. CASE p = 1 /\ Open(1, "idle") /\ UNCHANGED xpmemVars
    <2>1. pc[1] = "open"
      BY <1>5 DEF Open, ShmOpen, Truncate, Construct, AfterMain, NotStarted, Started, Procs
    <2>2. \E s \in {"open", "idle"} : pc' = [pc EXCEPT ![1] = s]
      BY <1>5, <2>1 DEF Open, ShmOpen, Opened, Truncate, Construct, AfterMain, Safe, Typed, Procs
    <2>3. PICK s \in {"open", "idle"} : pc' = [pc EXCEPT ![1] = s]
      BY <2>2
    <2>4. UNCHANGED <<seg, queue, creating, invoked, received>>
      BY <1>5, <2>1 DEF Open, ShmOpen, Opened, Truncate, Construct, AfterMain, Safe, Typed, Procs, xpmemVars
    <2>5. pc'[0] = pc[0] /\ pc'[1] = s
      BY <2>3 DEF Safe, Typed, Procs
    <2>6. Quiet' <=> Quiet
      BY <2>1, <2>4, <2>5 DEF Quiet, AtNumber
    <2>7. NotStarted(1)'
      BY <2>1, <2>4, <2>5 DEF AfterMain, NotStarted, Started, Procs
    <2>8. QED
      BY <2>1, <2>3, <2>4, <2>6, <2>7, TurnsSame DEF Procs
  <1>6. QED
    BY <1>1, <1>2, <1>3, <1>4, <1>5

(* The loop of pseudo_scheduler, except for the read. *)
LEMMA TurnsPass ==
  ASSUME Safe, OneMessage, AfterMain, program = "xpmem", NEW p \in Procs,
         TakeMsg(p) \/ WriteNumber(p) \/ SendMsg(p)
  PROVE  AfterMain'
  <1>1. CASE TakeMsg(p)
    <2>1. pc' = [pc EXCEPT ![p] = "read"] /\ pc'[p] = "read" /\ UNCHANGED <<seg, creating, invoked, received>>
      BY <1>1 DEF TakeMsg, Safe, Typed
    <2>2. ~Quiet /\ ~Quiet'
      BY <1>1, <2>1 DEF TakeMsg, RecvQueue, Quiet, AtNumber, Procs, Other
    <2>3. pc[p] = "poll" /\ Started(p) /\ pc[0] # "main" /\ ~creating
      BY <1>1 DEF TakeMsg, AfterMain, NotStarted, Started
    <2>4. Started(p)'
      <3>1. pc'[0] # "main"
        BY <2>1, <2>3 DEF Safe, Typed, Procs
      <3>2. QED
        BY <2>1, <2>3, <3>1 DEF Started
    <2>5. QED
      BY <2>1, <2>2, <2>3, <2>4, TurnsSame
  <1>2. CASE WriteNumber(p)
    <2>1. pc' = [pc EXCEPT ![p] = "reply"] /\ pc'[p] = "reply" /\ UNCHANGED <<seg, creating, invoked, received>>
      BY <1>2 DEF WriteNumber, Safe, Typed
    <2>2. ~Quiet /\ ~Quiet'
      BY <1>2, <2>1 DEF WriteNumber, Quiet, AtNumber, Procs
    <2>3. pc[p] = "write" /\ Started(p) /\ pc[0] # "main" /\ ~creating
      BY <1>2 DEF WriteNumber, AfterMain, NotStarted, Started
    <2>4. Started(p)'
      <3>1. pc'[0] # "main"
        BY <2>1, <2>3 DEF Safe, Typed, Procs
      <3>2. QED
        BY <2>1, <2>3, <3>1 DEF Started
    <2>5. QED
      BY <2>1, <2>2, <2>3, <2>4, TurnsSame
  <1>3. CASE SendMsg(p)
    <2> DEFINE s == IF pc[p] = "reply" /\ GoesOn(recvd[p]) THEN "poll" ELSE "idle"
    <2>1. pc' = [pc EXCEPT ![p] = s] /\ pc'[p] = s /\ UNCHANGED <<seg, creating, invoked, received>>
      BY <1>3 DEF SendMsg, Safe, Typed, xpmemVars
    <2>2. pc[p] \in {"post", "reply"} /\ Underway(p) /\ ToBeSent(p)
      BY <1>3, WhereItIs DEF SendMsg
    <2>3. ~Quiet /\ ~Quiet'
      <3>1. queue'[p] = << <<p, data[p]>> >>
        BY <1>3, MessageSent
      <3>2. QED
        BY <2>2, <3>1 DEF Quiet, AtNumber, Procs
    <2>4. CASE pc[p] = "post"
      <3>1. NotStarted(p) /\ s = "idle" /\ (p = 1 => ~creating)
        BY <2>4 DEF AfterMain, NotStarted, Started
      <3>2. pc'[0] = "main" <=> pc[0] = "main"
        BY <2>1, <2>4, <3>1 DEF Safe, Typed, Procs
      <3>3. NotStarted(p)'
        BY <2>1, <3>1, <3>2 DEF NotStarted
      <3>4. QED
        BY <2>1, <2>3, <2>4, <3>1, <3>3, TurnsSame
    <2>5. CASE pc[p] = "reply"
      <3>1. Started(p) /\ pc[0] # "main" /\ ~creating
        BY <2>5 DEF AfterMain, NotStarted, Started
      <3>2. received = recvd[p] + 1 /\ received \in Nat /\ recvd[p] \in Nat /\ received % 2 = p
        BY <2>2, <2>5 DEF ToBeSent, OneMessage, Underway
      <3>3. received < NumMsgs
        BY <2>3, <3>2, SegmentsAssumption DEF AfterMain
      <3>4. MoreFor(p) <=> s = "poll"
        <4>1. p # Other(p) /\ NumMsgs \in Nat
          BY SegmentsAssumption DEF Procs, Other
        <4>2. MoreFor(p) <=> received + 1 < NumMsgs
          BY <3>2, <3>3, <4>1 DEF MoreFor
        <4>3. GoesOn(recvd[p]) <=> received + 1 < NumMsgs
          BY <3>2, <4>1 DEF GoesOn
        <4>4. QED
          BY <2>5, <4>2, <4>3
      <3>5. MoreFor(p)' <=> MoreFor(p)
        BY <2>1 DEF MoreFor
      <3>6. Started(p)'
        <4>1. pc'[0] # "main"
          BY <2>1, <3>1 DEF Safe, Typed, Procs
        <4>2. QED
          BY <2>1, <3>1, <3>4, <3>5, <4>1 DEF Started
      <3>7. QED
        BY <2>1, <2>3, <2>5, <3>1, <3>6, TurnsSame
    <2>6. QED
      BY <2>2, <2>4, <2>5
  <1>4. QED
    BY <1>1, <1>2, <1>3

(* The read: one number more is received, and there is no more for one of the two. *)
LEMMA TurnsRead ==
  ASSUME Safe, OneMessage, AfterMain, program = "xpmem", NEW p \in Procs, ReadNumber(p),
         1 < NumMsgs
  PROVE  AfterMain'
  <1> DEFINE o == Other(p)
  <1>1. o \in Procs /\ p = Other(o) /\ p # o /\ Procs = {p, o}
    BY DEF Procs, Other
  <1>2. /\ received' = received + 1 /\ received \in Nat /\ received % 2 = o
        /\ pc' = [pc EXCEPT ![p] = IF received >= NumMsgs - 1 THEN "idle" ELSE "write"]
        /\ UNCHANGED <<seg, queue, creating, invoked>> /\ pc[p] = "read"
    BY NumberRead DEF ReadNumber
  <1>3. /\ pc'[o] = pc[o] /\ pc'[p] = IF received >= NumMsgs - 1 THEN "idle" ELSE "write"
    BY <1>1, <1>2 DEF Safe, Typed
  <1>4. Started(p) /\ pc[0] # "main" /\ ~creating /\ pc'[0] # "main"
    BY <1>1, <1>2, <1>3 DEF AfterMain, NotStarted, Started, Procs
  <1>5. NumMsgs \in Nat /\ received < NumMsgs
    BY <1>1, <1>2, <1>4, SegmentsAssumption DEF AfterMain, Quiet, AtNumber, Procs
  <1>6. Quiet' <=> received >= NumMsgs - 1
    <2>1. queue[p] = << >> /\ queue[o] = << >> /\ ~AtNumber(o)
      BY <1>1, <1>2, WhereItIs DEF Underway, IsTaken
    <2>2. ~AtNumber(o)' /\ (AtNumber(p)' <=> ~(received >= NumMsgs - 1))
      BY <1>3, <2>1 DEF AtNumber
    <2>3. QED
      BY <1>1, <1>2, <2>1, <2>2 DEF Quiet, Procs
  <1>7. received' <= NumMsgs /\ (Quiet' <=> received' = NumMsgs)
    BY <1>2, <1>5, <1>6
  <1>8. received' % 2 = p
    <2>1. (received % 2 = 0 => (received + 1) % 2 = 1) /\ (received % 2 = 1 => (received + 1) % 2 = 0)
      BY <1>2
    <2>2. QED
      BY <1>2, <2>1 DEF Procs, Other
  <1>9. Started(p)'
    <2>1. received >= NumMsgs - 1 => ~MoreFor(p)'
      BY <1>2, <1>5 DEF MoreFor
    <2>2. QED
      BY <1>2, <1>3, <1>4, <2>1 DEF Started
  <1>10. NotStarted(o)' \/ Started(o)'
    <2>1. CASE NotStarted(o)
      <3>1. received <= p /\ received % 2 = o
        BY <1>1, <1>2, <2>1 DEF NotStarted
      <3>2. received' <= p
        BY <1>1, <1>2, <3>1 DEF Procs, Other
      <3>3. QED
        BY <1>1, <1>2, <1>3, <2>1, <3>2 DEF NotStarted
    <2>2. CASE Started(o)
      <3>1. MoreFor(o) <=> received + 1 < NumMsgs
        BY <1>1, <1>2, <1>5 DEF MoreFor
      <3>2. MoreFor(o)' <=> received + 1 < NumMsgs
        BY <1>1, <1>2, <1>8, <1>5 DEF MoreFor
      <3>3. QED
        BY <1>2, <1>3, <1>4, <2>2, <3>1, <3>2 DEF Started
    <2>3. QED
      BY <1>1, <2>1, <2>2 DEF AfterMain
  <1>11. \A q \in Procs : NotStarted(q)' \/ Started(q)'
    BY <1>1, <1>9, <1>10
  <1>12. \A q \in Procs : IF pc'[1] = "open" THEN seg'[q] = "ready" ELSE seg'[q] \in {"ready", "absent"}
    <2>1. pc'[1] = "open" => pc[1] = "open"
      BY <1>1, <1>3 DEF Procs
    <2>2. QED
      BY <1>2, <2>1 DEF AfterMain
  <1>13. QED
    BY <1>2, <1>4, <1>7, <1>11, <1>12 DEF AfterMain

(* At quiescence both have started and have no more to read. *)
LEMMA TurnsExit ==
  ASSUME Safe, OneMessage, AfterMain, program = "xpmem", NEW p \in Procs, ExitAfterQuiescence(p)
  PROVE  AfterMain'
  <1> DEFINE o == Other(p)
  <1>1. o \in Procs /\ p # o /\ Procs = {p, o} /\ 0 \in Procs /\ 1 \in Procs
    BY DEF Procs, Other
  <1>2. /\ \A r \in Procs : pc[r] \in {"idle", "done"}
        /\ ~creating /\ invoked = {} /\ pc' = [pc EXCEPT ![p] = "done"]
        /\ seg' = seg \/ seg' = [q \in Procs |-> "absent"]
        /\ UNCHANGED <<queue, creating, invoked, received>>
    BY DEF ExitAfterQuiescence, Close, xpmemVars
  <1>3. pc'[p] = "done" /\ pc'[o] = pc[o]
    BY <1>1, <1>2 DEF Safe, Typed
  <1>4. \A r \in Procs : pc'[r] \in {"idle", "done"}
    BY <1>1, <1>2, <1>3
  <1>5. pc[0] # "main" /\ pc[1] # "open" /\ pc'[0] # "main" /\ pc'[1] # "open"
    BY <1>1, <1>2, <1>4
  <1>6. \A r \in Procs : Started(r)'
    <2>1. \A r \in Procs : Started(r)
      BY <1>2, <1>5 DEF AfterMain, NotStarted
    <2>2. QED
      BY <1>2, <1>4, <1>5, <2>1 DEF Started, MoreFor
  <1>7. Quiet' <=> Quiet
    BY <1>1, <1>2, <1>4 DEF Quiet, AtNumber
  <1>8. \A q \in Procs : seg'[q] \in {"ready", "absent"}
    BY <1>2, <1>5 DEF AfterMain
  <1>9. QED
    BY <1>2, <1>5, <1>6, <1>7, <1>8 DEF AfterMain

LEMMA TurnsNext ==
  1 < NumMsgs /\ Safe /\ OneMessage /\ Turns /\ OneMessage' /\ [Next]_vars => Turns'
  <1> SUFFICES ASSUME 1 < NumMsgs, Safe, OneMessage, Turns, OneMessage', [Next]_vars
               PROVE  Turns'
    OBVIOUS
  <1>1. CASE program = "xpmem" /\ serial
    <2>1. ASSUME NEW p \in Procs, XpmemProc(p), UNCHANGED program
          PROVE  Turns'
      <3>1. CASE pc[0] \in OpeningStates
        <4>1. FirstOpens /\ ~creating /\ invoked = {}
          BY <1>1, <3>1 DEF Turns
        <4>2. Open(p, IF p = 0 THEN "main" ELSE "idle") /\ UNCHANGED xpmemVars
          BY <2>1, <3>1, <4>1 DEF XpmemProc, FirstOpens, OpeningStates, Main, StoreFirst, Neighbor,
             PseudoScheduler, TakeMsg, ReadNumber, WriteNumber, SendMsg, Fault, ExitAfterQuiescence,
             Procs
        <4>3. QED
          BY <1>1, <2>1, <3>1, <4>2, TurnsFirst
      <3>2. CASE pc[0] \notin OpeningStates
        <4>1. AfterMain
          BY <1>1, <3>2 DEF Turns
        <4>2. AfterMain'
          <5>1. CASE Open(p, IF p = 0 THEN "main" ELSE "idle") /\ UNCHANGED xpmemVars
            <6>1. p = 1
              BY <3>2, <5>1 DEF Open, ShmOpen, Truncate, Construct, OpeningStates, Procs
            <6>2. QED
              BY <1>1, <4>1, <5>1, <6>1, TurnsStart
          <5>2. CASE \/ p = 0 /\ (Main \/ StoreFirst)
                     \/ p = 1 /\ Neighbor
                     \/ PseudoScheduler(p)
            BY <1>1, <4>1, <5>2, TurnsStart
          <5>3. CASE TakeMsg(p) \/ WriteNumber(p) \/ SendMsg(p)
            BY <1>1, <4>1, <5>3, TurnsPass
          <5>4. CASE ReadNumber(p)
            BY <1>1, <4>1, <5>4, TurnsRead
          <5>5. CASE ExitAfterQuiescence(p)
            BY <1>1, <4>1, <5>5, TurnsExit
          <5>6. ~Fault(p, SendQueue(p))
            BY <4>1 DEF AfterMain, Fault, SendQueue
          <5>7. QED
            BY <2>1, <5>1, <5>2, <5>3, <5>4, <5>5, <5>6 DEF XpmemProc
        <4>3. pc'[0] \notin OpeningStates
          <5>1. 0 \in Procs
            BY DEF Procs
          <5>2. pc'[0] # "open"
            BY <2>1, <3>2 DEF XpmemProc, Open, ShmOpen, Truncate, Construct, Opened, Main, StoreFirst,
               Neighbor, PseudoScheduler, TakeMsg, ReadNumber, WriteNumber, SendMsg, Fault, Close,
               ExitAfterQuiescence, Safe, Typed, OpeningStates, segVars, Procs
          <5>3. QED
            BY <3>2, <4>2, <5>1, <5>2 DEF AfterMain, NotStarted, Started, OpeningStates
        <4>4. QED
          BY <4>2, <4>3 DEF Turns
      <3>3. QED
        BY <3>1, <3>2
    <2>2. CASE UNCHANGED vars
      BY <2>2 DEF vars, segVars, testerVars, xpmemVars, Turns, FirstOpens, AfterMain, NotStarted,
         Started, MoreFor, Quiet, AtNumber
    <2>3. QED
      BY <1>1, <2>1, <2>2 DEF Next, Proc, Exited
  <1>2. CASE ~(program = "xpmem" /\ serial)
    BY <1>2, ConstantsKept DEF Turns
  <1>3. QED
    BY <1>1, <1>2

(***************************************************************************)
(* The tester cannot confuse iterations, for any number of messages, when  *)
(* process 1 starts after process 0 has opened and no segment is left from *)
(* an earlier run (the queues are what carries messages over from it).     *)
(***************************************************************************)
THEOREM IterationsStayAligned ==
  ASSUME Leftovers = {<< >>} PROVE Spec => []IterationsAligned
  <1>1. Safe /\ Streams /\ OneMessage => IterationsAligned
    <2> SUFFICES ASSUME Safe, Streams, OneMessage, serial PROVE IterationsAligned
      BY DEF IterationsAligned
    <2>1. CASE program = "lfq"
      <3>1. \A p \in Procs : pc[p] = "receive" /\ queue[p] # << >> =>
                               Head(queue[p]) = <<it[p], i[p]>>
        <4> SUFFICES ASSUME NEW p \in Procs, pc[p] = "receive", queue[p] # << >>
                     PROVE  Head(queue[p]) = <<it[p], i[p]>>
          OBVIOUS
        <4>1. queue[p] \in Seq(Nat \X Nat)
          BY <2>1 DEF Streams
        <4>2. QED
          BY <2>1, <4>1, HeadOfStream
      <3>2. it[0] <= it[1] + 1 /\ it[1] <= it[0] + 1
        BY <2>1 DEF Streams, Before, FirstOpens, Stream, Procs
      <3>3. QED
        BY <3>1, <3>2 DEF IterationsAligned
    <2>2. CASE program = "xpmem"
      <3>1. \A p \in Procs : pc[p] # "receive"
        BY <2>2 DEF Safe, Typed, Running, XpmemStates, OpeningStates
      <3>2. it[0] = 0 /\ it[1] = 0
        BY <2>2 DEF OneMessage, Procs
      <3>3. QED
        BY <3>1, <3>2 DEF IterationsAligned
    <2>3. QED
      BY <2>1, <2>2 DEF Safe, Typed
  <1>2. QED
    BY <1>1, SafeInit, SafeNext, StreamsInit, StreamsNext, OneMessageInit, OneMessageNext, PTL
    DEF Spec

(***************************************************************************)
(* In the xpmem program the number a message points to is still there when *)
(* it is read, after the message has left the queue, for any number of     *)
(* messages, any capacity and both ways to start, with no segment left     *)
(* from an earlier run.                                                    *)
(***************************************************************************)
THEOREM DataStaysForReader ==
  ASSUME Leftovers = {<< >>} PROVE Spec => []DataAwaitsReader
  <1>1. OneMessage => DataAwaitsReader
    <2> SUFFICES ASSUME OneMessage, program = "xpmem" PROVE DataAwaitsReader
      BY DEF DataAwaitsReader
    <2>1. CASE Quiet
      <3>1. ~AtNumber(0) /\ ~AtNumber(1) /\ queue[0] = << >> /\ queue[1] = << >>
        BY <2>1 DEF Quiet, Procs
      <3>2. Len(queue[0]) = 0 /\ Len(queue[1]) = 0
        BY <3>1
      <3>3. \A p \in Procs : Unread(p) = {}
        BY <3>1 DEF Unread, SendQueue, Procs, AtNumber
      <3>4. QED
        BY <3>1, <3>2, <3>3 DEF DataAwaitsReader, Procs
    <2>2. ASSUME NEW p \in Procs, Underway(p) PROVE DataAwaitsReader
      <3> DEFINE o == Other(p)
      <3>1. /\ o \in Procs /\ p = Other(o) /\ p # o /\ Procs = {p, o} /\ queue[o] = << >>
            /\ received % 2 = p
        BY <2>2 DEF Procs, Other, Underway
      <3> HIDE DEF o
      <3>2. Unread(o) = {}
        BY <2>2, <3>1 DEF Unread, SendQueue, Underway, InQueue, IsTaken, ToBeSent, AtNumber, o
      <3>3. \A m \in Unread(p) : m = <<p, data[p]>> /\ data[p] = received
        <4>1. CASE InQueue(p)
          <5>1. Unread(p) = {queue[p][k] : k \in DOMAIN queue[p]}
            BY <3>1, <4>1 DEF Unread, SendQueue, InQueue, AtNumber
          <5>2. \A k \in DOMAIN queue[p] : queue[p][k] = <<p, data[p]>>
            BY <4>1 DEF InQueue
          <5>3. QED
            BY <4>1, <5>1, <5>2 DEF InQueue
        <4>2. CASE IsTaken(p)
          <5>1. queue[p] = << >> /\ DOMAIN << >> = {}
            BY <4>2 DEF IsTaken
          <5>2. \A m \in Unread(p) : m = taken[o]
            BY <5>1 DEF Unread, SendQueue, o
          <5>3. QED
            BY <4>2, <5>2 DEF IsTaken, o
        <4>3. CASE ToBeSent(p)
          BY <3>1, <4>3 DEF Unread, SendQueue, ToBeSent, AtNumber, o
        <4>4. QED
          BY <2>2, <4>1, <4>2, <4>3 DEF Underway
      <3>4. ~(AtNumber(p) /\ AtNumber(o))
        BY <2>2 DEF Underway, InQueue, IsTaken, ToBeSent, AtNumber, o
      <3>5. /\ queue[p] = << >> \/ queue[p] = << <<p, data[p]>> >>
            /\ AtNumber(p) \/ AtNumber(o) => queue[p] = << >>
        BY <2>2 DEF Underway, InQueue, IsTaken, ToBeSent, AtNumber, o
      <3>6. Len(queue[p]) + Len(queue[o]) <= 1 /\ Len(queue[o]) + Len(queue[p]) <= 1
        <4>1. Len(queue[o]) = 0 /\ (queue[p] = << >> => Len(queue[p]) = 0)
          BY <3>1
        <4>2. queue[p] = << <<p, data[p]>> >> => Len(queue[p]) = 1
          OBVIOUS
        <4>3. QED
          BY <3>5, <4>1, <4>2
      <3>7. /\ ~(AtNumber(0) /\ AtNumber(1)) /\ Len(queue[0]) + Len(queue[1]) <= 1
        BY <3>1, <3>4, <3>6 DEF Procs
      <3>8. QED
        BY <3>1, <3>2, <3>3, <3>5, <3>7 DEF DataAwaitsReader
    <2>3. QED
      BY <2>1, <2>2 DEF OneMessage
  <1>2. QED
    BY <1>1, SafeInit, SafeNext, OneMessageInit, OneMessageNext, PTL DEF Spec

(* The queue test: a queue is full or empty only while its other end is at work. *)
LEMMA TesterNobodyLeft ==
  ASSUME Safe, Streams, program = "lfq", serial, NumMsgs <= Capacity
  PROVE  NobodyLeftWaiting
  <1>1. CASE pc[0] \in OpeningStates
    <2>1. Before
      BY <1>1 DEF Streams
    <2>2. \A p \in Procs : ~Waits(p) /\ pc[p] # "done"
      BY <1>1, <2>1 DEF Before, FirstOpens, OpeningStates, Waits, TesterWaits, Procs
    <2>3. QED
      BY <2>2 DEF NobodyLeftWaiting, Procs
  <1>2. CASE pc[0] \notin OpeningStates
    <2>1. ASSUME NEW p \in Procs, Waits(p) PROVE Works(Other(p))
      <3> DEFINE o == Other(p)
      <3>1. /\ After /\ pc[p] \in {"send", "receive"}
            /\ \/ pc[p] = "send" /\ Len(queue[o]) >= Capacity
               \/ pc[p] = "receive" /\ Len(queue[p]) = 0
        BY <1>2, <2>1 DEF Streams, Waits, TesterWaits
      <3>2. /\ Stream(p, o) /\ Stream(o, p) /\ o \in Procs /\ p = Other(o)
            /\ queue \in [Procs -> Seq(Nat \X Nat)] /\ it \in [Procs -> Nat] /\ i \in [Procs -> Nat]
            /\ Other(o) = p
        BY <1>2 DEF Streams, Procs, Other
      <3> HIDE DEF o
      <3>3. PICK L, M : L = Len(queue[o]) /\ M = Len(queue[p]) /\ L \in Nat /\ M \in Nat
        <4>1. Len(queue[o]) \in Nat /\ Len(queue[p]) \in Nat
          BY <3>2
        <4>2. QED
          BY <4>1
      <3>4. /\ i[p] \in 1 .. NumMsgs /\ i[o] \in 1 .. NumMsgs /\ it[p] < NumMsgs
            /\ pc[o] \in {"open", "send", "receive", "close", "done"}
            /\ pc[o] \in {"close", "done"} => it[o] = NumMsgs
            /\ NumMsgs \in Nat /\ Capacity \in Nat
        BY <3>1, <3>2, SegmentsAssumption DEF After, Procs
      <3>5. CASE pc[p] = "send"
        <4>1. SentOf(p) = i[p] - 1 /\ ReceivedOf(p) = 0 /\ L >= NumMsgs
          BY <3>1, <3>3, <3>4, <3>5 DEF SentOf, ReceivedOf
        <4>2. ReceivedOf(o) \in Nat
          BY <3>4 DEF ReceivedOf
        <4>3. it[p] = it[o] + 1 /\ pc[o] = "receive"
          <5>1. SentOf(p) - ReceivedOf(o) < NumMsgs
            BY <3>4, <4>1, <4>2
          <5>2. ~(L = SentOf(p) - ReceivedOf(o))
            BY <3>3, <3>4, <4>1, <4>2, <5>1
          <5>3. pc[p] # "receive"
            BY <3>5
          <5>4. QED
            BY <3>2, <3>3, <5>2, <5>3 DEF Stream
        <4>4. L # 0
          BY <3>4, <4>1, SegmentsAssumption
        <4>5. QED
          BY <3>3, <4>3, <4>4 DEF Works, Waits, TesterWaits, o
      <3>6. CASE pc[p] = "receive"
        <4>1. ReceivedOf(p) = i[p] - 1 /\ SentOf(p) = NumMsgs /\ M = 0
          BY <3>1, <3>3, <3>5, <3>6 DEF SentOf, ReceivedOf
        <4>2. \/ it[o] = it[p] /\ SentOf(o) = i[p] - 1
              \/ it[p] = it[o] + 1 /\ pc[o] = "receive" /\ L = NumMsgs + NumMsgs - ReceivedOf(o)
          <5>1. SentOf(o) \in Nat /\ ReceivedOf(o) \in Nat
            BY <3>4 DEF SentOf, ReceivedOf
          <5>2. it[o] = it[p] => M = SentOf(o) - ReceivedOf(p)
            BY <3>2, <3>3 DEF Stream
          <5>3. it[o] = it[p] + 1 => FALSE
            <6>1. it[o] = it[p] + 1 => M = NumMsgs + SentOf(o) - ReceivedOf(p)
              BY <3>2, <3>3 DEF Stream
            <6>2. ReceivedOf(p) < NumMsgs
              BY <3>4, <4>1
            <6>3. QED
              BY <3>4, <4>1, <5>1, <6>1, <6>2
          <5>4. it[o] = it[p] \/ it[o] = it[p] + 1 \/ it[p] = it[o] + 1
            BY <3>2 DEF Stream
          <5>5. it[p] = it[o] + 1 => pc[o] = "receive" /\ L = NumMsgs + SentOf(p) - ReceivedOf(o)
            BY <3>2, <3>3 DEF Stream
          <5>6. QED
            BY <3>4, <4>1, <5>1, <5>2, <5>3, <5>4, <5>5
        <4>3. CASE it[o] = it[p] /\ SentOf(o) = i[p] - 1
          <5>1. pc[o] \in {"open", "send"}
            BY <3>4, <4>3 DEF SentOf
          <5>2. ~(Len(queue[p]) >= Capacity)
            BY <3>3, <3>4, <4>1, SegmentsAssumption
          <5>3. ~TesterWaits(o)
            BY <3>2, <5>1, <5>2 DEF TesterWaits
          <5>4. QED
            BY <5>1, <5>3 DEF Works, Waits, o
        <4>4. CASE it[p] = it[o] + 1 /\ pc[o] = "receive" /\ L = NumMsgs + NumMsgs - ReceivedOf(o)
          <5>1. L # 0
            BY <3>4, <4>4 DEF ReceivedOf
          <5>2. QED
            BY <3>3, <4>4, <5>1 DEF Works, Waits, TesterWaits, o
        <4>5. QED
          BY <4>2, <4>3, <4>4
      <3>7. QED
        BY <3>1, <3>5, <3>6
    <2>2. ASSUME \A p \in Procs : pc[p] = "done", NEW p \in Procs PROVE queue[p] = << >>
      <3>1. After /\ Stream(Other(p), p) /\ Other(p) \in Procs
        BY <1>2, <2>2 DEF Streams, Procs, Other
      <3>2. it[p] = NumMsgs /\ it[Other(p)] = NumMsgs
        BY <2>2, <3>1 DEF After
      <3>3. SentOf(Other(p)) = 0 /\ ReceivedOf(p) = 0
        BY <2>2, <3>1 DEF SentOf, ReceivedOf
      <3>4. Len(queue[p]) = 0
        BY <3>1, <3>2, <3>3, SegmentsAssumption DEF Stream
      <3>5. queue[p] \in Seq(Nat \X Nat)
        BY DEF Streams
      <3>6. QED
        BY <3>4, <3>5
    <2>3. QED
      BY <2>1, <2>2 DEF NobodyLeftWaiting
  <1>3. QED
    BY <1>1, <1>2

(* The xpmem program: a number is with one process while the other polls. *)
LEMMA XpmemNobodyLeft ==
  ASSUME Safe, OneMessage, Turns, program = "xpmem", serial, 1 < NumMsgs
  PROVE  NobodyLeftWaiting
  <1>1. CASE pc[0] \in OpeningStates
    <2>1. \A p \in Procs : ~Waits(p) /\ pc[p] # "done"
      BY <1>1 DEF Turns, FirstOpens, OpeningStates, Waits, XpmemWaits, Procs
    <2>2. QED
      BY <2>1 DEF NobodyLeftWaiting, Procs
  <1>2. CASE pc[0] \notin OpeningStates
    <2>1. AfterMain
      BY <1>2 DEF Turns
    <2>2. ASSUME NEW p \in Procs, Waits(p) PROVE Works(Other(p))
      <3> DEFINE o == Other(p)
      <3>1. o \in Procs /\ p = Other(o) /\ p # o /\ Procs = {p, o}
        BY DEF Procs, Other
      <3>2. pc[p] = "poll" /\ queue[o] = << >> /\ ~AtNumber(p)
        BY <2>2 DEF Waits, XpmemWaits, RecvQueue, AtNumber
      <3>3. Started(p) /\ MoreFor(p) /\ pc[0] # "main" /\ ~creating
        BY <2>1, <3>2 DEF AfterMain, NotStarted, Started
      <3>4. ~Quiet
        BY <2>1, <3>3, SegmentsAssumption DEF AfterMain, MoreFor
      <3>5. PICK q \in Procs : Underway(q)
        BY <3>4 DEF OneMessage
      <3>6. CASE AtNumber(o)
        BY <3>2, <3>6 DEF Works, AtNumber, Waits, XpmemWaits
      <3>7. CASE ~AtNumber(o)
        <4>1. queue[p] # << >> /\ received % 2 = p
          BY <3>1, <3>2, <3>5, <3>7 DEF Underway, InQueue, IsTaken, ToBeSent, AtNumber
        <4>2. MoreFor(o)
          BY <3>1, <3>3, <4>1 DEF MoreFor
        <4>3. \/ pc[o] = "poll"
              \/ o \in invoked /\ pc[o] \in {"open", "main", "store", "post", "idle"}
          BY <2>1, <3>1, <3>3, <3>7, <4>2 DEF AfterMain, NotStarted, Started, AtNumber
        <4>4. QED
          BY <3>1, <4>1, <4>3 DEF Works, Waits, XpmemWaits, RecvQueue
      <3>8. QED
        BY <3>6, <3>7
    <2>3. ASSUME \A p \in Procs : pc[p] = "done"
          PROVE  (\A p \in Procs : queue[p] = << >>) /\ received = NumMsgs
      <3>1. \A p \in Procs : ~MoreFor(p)
        BY <2>1, <2>3 DEF AfterMain, NotStarted, Started
      <3>2. received \in Nat /\ received <= NumMsgs /\ NumMsgs \in Nat
        BY <2>1, SegmentsAssumption DEF AfterMain, OneMessage
      <3>3. received % 2 = 0 \/ received % 2 = 1
        BY <3>2
      <3>4. received = NumMsgs
        BY <3>1, <3>2, <3>3 DEF MoreFor, Procs, Other
      <3>5. Quiet
        BY <2>1, <3>4 DEF AfterMain
      <3>6. QED
        BY <3>4, <3>5 DEF Quiet
    <2>4. QED
      BY <2>2, <2>3 DEF NobodyLeftWaiting
  <1>3. QED
    BY <1>1, <1>2

(***************************************************************************)
(* Nobody is left waiting in either program, for any number of messages    *)
(* but one and any capacity that holds the messages of an iteration, when  *)
(* the processes start one after the other and no segment is left from an  *)
(* earlier run.  (With one message process 0 of the xpmem program polls    *)
(* for an answer that process 1 does not send.)                            *)
(***************************************************************************)
THEOREM NobodyIsLeftWaiting ==
  ASSUME Leftovers = {<< >>}, 1 < NumMsgs, NumMsgs <= Capacity
  PROVE  Spec => []NobodyLeftWaiting
  <1>1. Safe /\ Streams /\ OneMessage /\ Turns => NobodyLeftWaiting
    <2>1. ~serial => NobodyLeftWaiting
      BY DEF NobodyLeftWaiting
    <2>2. QED
      BY <2>1, TesterNobodyLeft, XpmemNobodyLeft DEF Safe, Typed
  <1>2. QED
    BY <1>1, SafeInit, SafeNext, StreamsInit, StreamsNext, OneMessageInit, OneMessageNext,
       TurnsInit, TurnsNext, PTL DEF Spec
=============================================================================
