-------------------------------- MODULE Warp --------------------------------
(***************************************************************************)
(* warp/warp.hpp: tasks that send each other messages over MPI.  A rank    *)
(* runs __run_once again and again; a pass goes over the sends, the        *)
(* receives and the probes, in this order, and the entry method of a       *)
(* message runs inside the pass that finds its receive complete.  MPI is   *)
(* external: a message is matched with a posted receive of its tag at any  *)
(* time, and a send may be found complete at any time.  WarpPingpong is    *)
(* the program on top.                                                     *)
(***************************************************************************)
EXTENDS Naturals, Sequences, SequencesExt

CONSTANTS
  Sizes,      \* MPI_COMM_WORLD sizes to run on
  MaxSerial   \* bound: the number of messages

ASSUME WarpAssumption ==
  /\ Sizes \subseteq Nat \ {0} /\ \E n \in Sizes : \A k \in Sizes : k <= n
  /\ MaxSerial \in Nat

Ranks == 0 .. (CHOOSE n \in Sizes : \A k \in Sizes : k <= n) - 1

(* A message: its number, the rank it is sent to, the task it is for, its tag. *)
Messages == [id : 1 .. MaxSerial, to : Ranks, obj : Nat, tag : Nat]

VARIABLES
  nRanks,    \* the number of ranks
  sized,     \* whether the entry was registered with a message size
  pc,        \* per rank: the part of the pass it is in, or what comes after
  net,       \* messages sent and not matched
  serial,    \* history: the number of messages sent
  sends,     \* per rank: the sends (message numbers) not seen complete
  receives,  \* per rank: the receives posted, in the order of the map
  at,        \* per rank: the position of the receive to be tested next
  probes     \* per rank: probes, the tags to be probed for

warpVars == <<nRanks, sized, pc, net, serial, sends, receives, at, probes>>

(* A receive posted for a tag, and what it matched: nothing, or one message. *)
Receives == [tag : Nat, got : SUBSET Messages]
Posted(tag) == [tag |-> tag, got |-> {}]

WarpTypeOK ==
  /\ nRanks \in Sizes /\ sized \in BOOLEAN
  /\ pc \in [Ranks -> {"sends", "receives", "probes", "finalize", "done"}]
  /\ net \subseteq Messages /\ serial \in 0 .. MaxSerial
  /\ sends \in [Ranks -> SUBSET (1 .. MaxSerial)]
  /\ receives \in [Ranks -> Seq(Receives)] /\ at \in [Ranks -> Nat]
  /\ probes \in [Ranks -> Seq(Nat)]

-----------------------------------------------------------------------------
(***************************************************************************)
(* A receive joins the map posted, whose keys are the handles MPI hands    *)
(* out: it can come before or after the position the pass is at.           *)
(***************************************************************************)
Insert(r, tag, posted) ==
  \E k \in 1 .. Len(posted[r]) + 1 :
    /\ receives' = [posted EXCEPT ![r] = InsertAt(@, k, Posted(tag))]
    /\ \/ k <= at[r] /\ at' = [at EXCEPT ![r] = @ + 1]
       \/ k >= at[r] /\ UNCHANGED at

(* request: post a receive, or leave it to the probes. *)
Request(r, tag, posted) ==
  \/ sized /\ Insert(r, tag, posted) /\ UNCHANGED probes
  \/ /\ ~sized
     /\ receives' = posted
     /\ probes' = [probes EXCEPT ![r] = Append(@, tag)]
     /\ UNCHANGED at

(* Faulty: the tag is that of the sender. *)
SendOwnTag(r, to, obj, tag) ==
  /\ serial' = serial + 1
  /\ net' = net \cup {[id |-> serial', to |-> to, obj |-> obj, tag |-> 1 - tag]}
  /\ sends' = [sends EXCEPT ![r] = @ \cup {serial'}]

(* send *)
Send(r, to, obj, tag) ==
  /\ serial' = serial + 1
  /\ net' = net \cup {[id |-> serial', to |-> to, obj |-> obj, tag |-> tag]}
  /\ sends' = [sends EXCEPT ![r] = @ \cup {serial'}]

(* MPI: a message and a receive of its tag are matched. *)
Match(m) ==
  /\ m \in net
  /\ \E k \in DOMAIN receives[m.to] :
       /\ receives[m.to][k] = Posted(m.tag)
       /\ receives' = [receives EXCEPT ![m.to][k].got = {m}]
  /\ net' = net \ {m}
  /\ UNCHANGED <<nRanks, sized, pc, serial, sends, at, probes>>

(* "iterate through all sends (free'ing done ones)" *)
TestSends(r) ==
  /\ pc[r] = "sends"
  /\ \E finished \in SUBSET sends[r] :
       sends' = [sends EXCEPT ![r] = @ \ finished]
  /\ at' = [at EXCEPT ![r] = 1]
  /\ pc' = [pc EXCEPT ![r] = "receives"]
  /\ UNCHANGED <<nRanks, sized, net, serial, receives, probes>>

(* MPI_Test of a receive that is not complete. *)
TestPending(r) ==
  /\ pc[r] = "receives" /\ at[r] \in DOMAIN receives[r]
  /\ receives[r][at[r]].got = {}
  /\ at' = [at EXCEPT ![r] = @ + 1]
  /\ UNCHANGED <<nRanks, sized, pc, net, serial, sends, receives, probes>>

(***************************************************************************)
(* MPI_Test of a receive that is complete: the entry method is run on the  *)
(* message m.  What it does is up to the program; the receive is erased.   *)
(***************************************************************************)
TestComplete(r, m) ==
  /\ pc[r] = "receives" /\ at[r] \in DOMAIN receives[r]
  /\ receives[r][at[r]].got = {m}
  /\ UNCHANGED <<nRanks, sized, pc>>

Erased(r) == [receives EXCEPT ![r] = RemoveAt(@, at[r])]

EndReceives(r) ==
  /\ pc[r] = "receives" /\ at[r] > Len(receives[r])
  /\ pc' = [pc EXCEPT ![r] = "probes"]
  /\ UNCHANGED <<nRanks, sized, net, serial, sends, receives, at, probes>>

(* MPI_Iprobe for the first probe finds a message with its tag. *)
Ready(r) ==
  probes[r] # << >> /\ \E m \in net : m.to = r /\ m.tag = Head(probes[r])

(* The first probe is ready: a receive of the size found is posted. *)
Probe(r) ==
  /\ pc[r] = "probes" /\ Ready(r)
  /\ Insert(r, Head(probes[r]), receives)
  /\ probes' = [probes EXCEPT ![r] = Tail(@)]
  /\ UNCHANGED <<nRanks, sized, pc, net, serial, sends>>

(***************************************************************************)
(* No probe, or the first one is not ready and the others are not looked   *)
(* at: __run_once returns, and its caller's loop looks at running.         *)
(***************************************************************************)
EndPass(r, running) ==
  /\ pc[r] = "probes" /\ ~Ready(r)
  /\ pc' = [pc EXCEPT ![r] = IF running THEN "sends" ELSE "finalize"]
  /\ UNCHANGED <<nRanks, sized, net, serial, sends, receives, at, probes>>

(* MPI_Finalize returns once every rank has called it. *)
Finalize(r) ==
  /\ pc[r] = "finalize" /\ \A s \in 0 .. nRanks - 1 : pc[s] \in {"finalize", "done"}
  /\ pc' = [pc EXCEPT ![r] = "done"]
  /\ UNCHANGED <<nRanks, sized, net, serial, sends, receives, at, probes>>
==============================================================================
