------------------------------- MODULE ByGop -------------------------------
(***************************************************************************)
(* The by-GOP encoder channel: `Config::new_by_gop_channel` of             *)
(* src/api/channel/by_gop.rs.  Four kinds of task run on one thread pool:  *)
(* scenechange (module GopSplit), `encode`, which dispatches each GOP to a *)
(* worker, the workers, each an encoder of its own, and `reassemble`,      *)
(* which puts the packets of the GOPs back in order.                       *)
(*                                                                         *)
(* Channels keep order, so a channel of frames or packets is represented   *)
(* by how many have been put in and taken out.  A worker's encoder is the  *)
(* service of module FrameService: one packet per frame, in order, at a    *)
(* time of its own choosing while its input is open.                       *)
(***************************************************************************)
EXTENDS GopSplit, FiniteSets

CONSTANTS
  Slots,         \* number of worker tasks
  Threads,       \* threads of the pool
  InputLen,      \* capacity of the input channel
  Cuts,          \* frames the detector may take for a cut
  MaxFrames      \* bound: frames the application sends

ASSUME ByGopAssumption ==
  /\ Slots \in Nat \ {0}
  /\ Threads \in Nat \ {0}
  /\ InputLen \in Nat \ {0}
  /\ Cuts \subseteq Nat
  /\ MaxFrames \in Nat

VARIABLES
  sent,          \* frames the application has sent
  dropped,       \* whether it has dropped its FrameSender
  taken,         \* SubGops `encode` has received
  enc_pc,        \* "get_worker", "recv" or "done"
  count,         \* GOPs dispatched: WorkerPoolSend::count
  gop_first,     \* per GOP: its first frame,
  gop_sent,      \*   frames sent to its worker,
  gop_packets,   \*   packets its worker has sent
  gop_closed,    \* GOPs whose sender `encode` has dropped
  gop_done,      \* GOPs whose packet sender the worker has dropped
  idle,          \* recv_workers: handles of workers without work
  mail,          \* per worker: the WorkLoad (a GOP) or None in its channel
  doing,         \* per worker: "wait", "encode", "return" or "exit"
  gop_of,        \* per worker: the GOP it encodes
  gops_read,     \* GOPs `reassemble` has received
  last_idx,      \* the GOP whose packets it forwards
  drained,       \* packets of that GOP forwarded
  rea_pc,        \* "recv", "drain", "close" or "done"
  delivered,     \* the frames whose packets the application has got
  started        \* tasks the pool has started, in spawn order

gopVars  == <<gop_first, gop_sent, gop_closed, gop_packets, gop_done>>
encVars  == <<taken, enc_pc, count>>
workVars == <<idle, mail, doing, gop_of>>
reaVars  == <<gops_read, last_idx, drained, rea_pc, delivered>>
vars == <<splitVars, sent, dropped, encVars, gopVars, workVars, reaVars,
          started>>

None == -1
SubGopCap == lookahead_distance * 2

Workers == 1 .. Slots

\* Spawn order: scenechange, the workers, encode, reassemble.
WorkerTask(w)  == 1 + w
EncodeTask     == Slots + 2
ReassembleTask == Slots + 3
Tasks          == Slots + 3

Finished ==
  (IF sc_pc = "done" THEN 1 ELSE 0) + (IF enc_pc = "done" THEN 1 ELSE 0)
    + (IF rea_pc = "done" THEN 1 ELSE 0)
    + Cardinality({w \in Workers : doing[w] = "exit"})

Init ==
  /\ SplitInit
  /\ sent = 0 /\ dropped = FALSE
  /\ taken = 0 /\ enc_pc = "get_worker" /\ count = 0
  /\ gop_first = <<>> /\ gop_sent = <<>> /\ gop_packets = <<>>
  /\ gop_closed = {} /\ gop_done = {}
  /\ idle = [i \in 1 .. Slots |-> i]
  /\ mail = [w \in Workers |-> <<>>]
  /\ doing = [w \in Workers |-> "wait"]
  /\ gop_of = [w \in Workers |-> None]
  /\ gops_read = 0 /\ last_idx = 0 /\ drained = 0 /\ rea_pc = "recv"
  /\ delivered = <<>>
  /\ started = 0

\* A thread of the pool takes the next task: a task keeps its thread, also
\* while it is blocked on a channel, until it ends.
StartTask ==
  /\ started < Tasks
  /\ started - Finished < Threads
  /\ started' = started + 1
  /\ UNCHANGED <<splitVars, sent, dropped, encVars, gopVars, workVars, reaVars>>

-----------------------------------------------------------------------------
(* The application *)

AppSend ==
  /\ ~dropped
  /\ sent < MaxFrames
  /\ sent - received < InputLen
  /\ sent' = sent + 1
  /\ UNCHANGED <<splitVars, dropped, encVars, gopVars, workVars, reaVars, started>>

AppDrop ==
  /\ ~dropped
  /\ dropped' = TRUE
  /\ UNCHANGED <<splitVars, sent, encVars, gopVars, workVars, reaVars, started>>

-----------------------------------------------------------------------------
(* scenechange: a step that may send waits for room in the channel. *)

NewGop(n) == IF n \in Cuts THEN BOOLEAN ELSE {FALSE}

ScReceive ==
  /\ started >= 1
  /\ received < sent
  /\ \/ Collect
     \/ /\ Len(subgops) - taken < SubGopCap
        /\ \E new_gop \in NewGop(processed + 1) : Analyse(new_gop)
  /\ UNCHANGED <<sent, dropped, encVars, gopVars, workVars, reaVars, started>>

ScFinish ==
  /\ started >= 1
  /\ \/ dropped /\ received = sent /\ InputEnds
     \/ /\ Len(subgops) - taken < SubGopCap
        /\ EmitRest \/ \E new_gop \in NewGop(processed + 1) : Drain(new_gop)
  /\ UNCHANGED <<sent, dropped, encVars, gopVars, workVars, reaVars, started>>

-----------------------------------------------------------------------------
(* encode *)

Extend(f, v) == [g \in 0 .. count |-> IF g = count THEN v ELSE f[g]]

\* Mutation: the first idle worker is used but stays on offer.
GetWorkerKept ==
  /\ started >= EncodeTask
  /\ enc_pc = "get_worker"
  /\ idle # <<>>
  /\ mail' = [mail EXCEPT ![Head(idle)] = Append(@, count)]
  /\ gop_first' = Extend(gop_first, EndOf(taken))
  /\ gop_sent' = Extend(gop_sent, 0)
  /\ gop_closed' = 0 .. count - 1
  /\ gop_packets' = Extend(gop_packets, 0)
  /\ count' = count + 1
  /\ enc_pc' = "recv"
  /\ UNCHANGED <<splitVars, sent, dropped, taken, gop_done, idle, doing, gop_of, reaVars,
                 started>>

\* Mutation: GOPs are not counted.
GetWorkerUncounted ==
  /\ started >= EncodeTask
  /\ enc_pc = "get_worker"
  /\ idle # <<>>
  /\ idle' = Tail(idle)
  /\ mail' = [mail EXCEPT ![Head(idle)] = Append(@, count)]
  /\ gop_first' = Extend(gop_first, EndOf(taken))
  /\ gop_sent' = Extend(gop_sent, 0)
  /\ gop_closed' = 0 .. count - 1
  /\ gop_packets' = Extend(gop_packets, 0)
  /\ enc_pc' = "recv"
  /\ UNCHANGED <<splitVars, sent, dropped, taken, count, gop_done, doing, gop_of, reaVars,
                 started>>

\* get_worker: wait for an idle worker, announce the new GOP to reassemble,
\* hand the WorkLoad over; then the sender of the previous GOP is dropped.
GetWorker ==
  /\ started >= EncodeTask
  /\ enc_pc = "get_worker"
  /\ idle # <<>>
  /\ idle' = Tail(idle)
  /\ mail' = [mail EXCEPT ![Head(idle)] = Append(@, count)]
  /\ gop_first' = Extend(gop_first, EndOf(taken))
  /\ gop_sent' = Extend(gop_sent, 0)
  /\ gop_closed' = 0 .. count - 1
  /\ gop_packets' = Extend(gop_packets, 0)
  /\ count' = count + 1
  /\ enc_pc' = "recv"
  /\ UNCHANGED <<splitVars, sent, dropped, taken, gop_done, doing, gop_of, reaVars,
                 started>>

\* A SubGop goes to the current worker; the end of a GOP asks for another.
Dispatch ==
  /\ started >= EncodeTask
  /\ enc_pc = "recv"
  /\ taken < Len(subgops)
  /\ taken' = taken + 1
  /\ gop_sent' = [gop_sent EXCEPT ![count - 1] = @ + subgops[taken + 1].len]
  /\ enc_pc' = IF subgops[taken + 1].end_gop THEN "get_worker" ELSE "recv"
  /\ UNCHANGED <<splitVars, sent, dropped, count, gop_first, gop_closed,
                 gop_packets, gop_done, workVars, reaVars, started>>

\* scenechange has ended: the task drops its sender and the worker pool.
EncodeEnds ==
  /\ started >= EncodeTask
  /\ enc_pc = "recv"
  /\ sc_pc = "done" /\ taken = Len(subgops)
  /\ enc_pc' = "done"
  /\ gop_closed' = gop_closed \cup {count - 1}
  /\ UNCHANGED <<splitVars, sent, dropped, taken, count, gop_first, gop_sent,
                 gop_packets, gop_done, workVars, reaVars, started>>

-----------------------------------------------------------------------------
(* Workers *)

\* Mutation: None does not end the worker, which offers itself again.
WorkerReceivesOn(w) ==
  /\ started >= WorkerTask(w)
  /\ doing[w] = "wait"
  /\ mail[w] # <<>>
  /\ mail' = [mail EXCEPT ![w] = Tail(@)]
  /\ doing' = [doing EXCEPT ![w] = IF Head(mail[w]) = None THEN "wait"
                                                           ELSE "encode"]
  /\ idle' = IF Head(mail[w]) = None THEN Append(idle, w) ELSE idle
  /\ gop_of' = [gop_of EXCEPT ![w] = Head(mail[w])]
  /\ UNCHANGED <<splitVars, sent, dropped, encVars, gopVars, reaVars, started>>

WorkerReceives(w) ==
  /\ started >= WorkerTask(w)
  /\ doing[w] = "wait"
  /\ mail[w] # <<>>
  /\ mail' = [mail EXCEPT ![w] = Tail(@)]
  /\ doing' = [doing EXCEPT ![w] = IF Head(mail[w]) = None THEN "exit"
                                                           ELSE "encode"]
  /\ gop_of' = [gop_of EXCEPT ![w] = Head(mail[w])]
  /\ UNCHANGED <<splitVars, sent, dropped, encVars, gopVars, idle, reaVars, started>>

WorkerEncodes(w) ==
  /\ doing[w] = "encode"
  /\ gop_packets[gop_of[w]] < gop_sent[gop_of[w]]
  /\ gop_packets' = [gop_packets EXCEPT ![gop_of[w]] = @ + 1]
  /\ UNCHANGED <<splitVars, sent, dropped, encVars, gop_first, gop_sent,
                 gop_closed, gop_done, workVars, reaVars, started>>

\* The GOP's frames have all come and all its packets are out: the worker
\* offers itself again ...
WorkerReturns(w) ==
  /\ doing[w] = "encode"
  /\ gop_of[w] \in gop_closed
  /\ gop_packets[gop_of[w]] = gop_sent[gop_of[w]]
  /\ idle' = Append(idle, w)
  /\ doing' = [doing EXCEPT ![w] = "return"]
  /\ UNCHANGED <<splitVars, sent, dropped, encVars, gopVars, mail, gop_of, reaVars,
                 started>>

\* ... and only then drops the packet sender of its GOP.
WorkerDropsLoad(w) ==
  /\ doing[w] = "return"
  /\ gop_done' = gop_done \cup {gop_of[w]}
  /\ doing' = [doing EXCEPT ![w] = "wait"]
  /\ UNCHANGED <<splitVars, sent, dropped, encVars, gop_first, gop_sent, gop_closed,
                 gop_packets, idle, mail, gop_of, reaVars, started>>

-----------------------------------------------------------------------------
(* reassemble *)

\* GOPs are announced in the order of their numbers, so the one received is
\* the one to forward; without one, when encode has ended, the pool closes.
NextGop ==
  /\ started >= ReassembleTask
  /\ rea_pc = "recv"
  /\ \/ /\ gops_read < count
        /\ gops_read' = gops_read + 1
        /\ rea_pc' = IF gops_read = last_idx THEN "drain" ELSE "recv"
        /\ drained' = 0
     \/ /\ gops_read = count /\ enc_pc = "done"
        /\ rea_pc' = "close"
        /\ UNCHANGED <<gops_read, drained>>
  /\ UNCHANGED <<splitVars, sent, dropped, encVars, gopVars, workVars, last_idx,
                 delivered, started>>

Forward ==
  /\ rea_pc = "drain"
  /\ drained < gop_packets[last_idx]
  /\ delivered' = Append(delivered, gop_first[last_idx] + drained)
  /\ drained' = drained + 1
  /\ UNCHANGED <<splitVars, sent, dropped, encVars, gopVars, workVars, gops_read,
                 last_idx, rea_pc, started>>

\* Mutation: an empty packet channel is taken for a finished GOP.
GopForwardedEarly ==
  /\ rea_pc = "drain"
  /\ drained = gop_packets[last_idx]
  /\ last_idx' = last_idx + 1
  /\ rea_pc' = "recv"
  /\ UNCHANGED <<splitVars, sent, dropped, encVars, gopVars, workVars, gops_read,
                 drained, delivered, started>>

GopForwarded ==
  /\ rea_pc = "drain"
  /\ last_idx \in gop_done /\ drained = gop_packets[last_idx]
  /\ last_idx' = last_idx + 1
  /\ rea_pc' = "recv"
  /\ UNCHANGED <<splitVars, sent, dropped, encVars, gopVars, workVars, gops_read,
                 drained, delivered, started>>

\* WorkerPoolRecv::close: None to every worker that offers itself, until
\* they have all exited.
Close ==
  /\ rea_pc = "close"
  /\ \/ /\ idle # <<>>
        /\ idle' = Tail(idle)
        /\ mail' = [mail EXCEPT ![Head(idle)] = Append(@, None)]
        /\ UNCHANGED rea_pc
     \/ /\ idle = <<>> /\ \A w \in Workers : doing[w] = "exit"
        /\ rea_pc' = "done"
        /\ UNCHANGED <<idle, mail>>
  /\ UNCHANGED <<splitVars, sent, dropped, encVars, gopVars, doing, gop_of,
                 gops_read, last_idx, drained, delivered, started>>

-----------------------------------------------------------------------------
AllDone == Finished = Tasks

Terminated == AllDone /\ UNCHANGED vars

Progress ==
  \/ StartTask
  \/ ScReceive \/ ScFinish
  \/ GetWorker \/ Dispatch \/ EncodeEnds
  \/ NextGop \/ Forward \/ GopForwarded \/ Close

WorkerStep(w) ==
  WorkerReceives(w) \/ WorkerEncodes(w) \/ WorkerReturns(w) \/ WorkerDropsLoad(w)

Next ==
  \/ AppSend \/ AppDrop
  \/ Progress
  \/ \E w \in Workers : WorkerStep(w)
  \/ Terminated

Spec == Init /\ [][Next]_vars

\* A task that can proceed does: each has a thread once it is started.  A
\* worker need not output while its GOP is open (the lookahead of its
\* encoder), only once it has been closed.  Nothing is assumed of the
\* application.
Fairness ==
  /\ WF_vars(StartTask)
  /\ WF_vars(ScReceive \/ ScFinish)
  /\ WF_vars(GetWorker \/ Dispatch \/ EncodeEnds)
  /\ WF_vars(NextGop \/ Forward \/ GopForwarded \/ Close)
  /\ \A w \in Workers :
       WF_vars(\/ WorkerReceives(w) \/ WorkerReturns(w) \/ WorkerDropsLoad(w)
               \/ WorkerEncodes(w) /\ gop_of[w] \in gop_closed)

FairSpec == Spec /\ Fairness

-----------------------------------------------------------------------------
(* Correctness *)

TypeOK ==
  /\ received \in Nat /\ emitted \in Nat /\ frames \in Nat /\ processed \in Nat
  /\ sent \in 0 .. MaxFrames /\ dropped \in BOOLEAN
  /\ taken \in 0 .. Len(subgops)
  /\ enc_pc \in {"get_worker", "recv", "done"}
  /\ count \in Nat
  /\ gop_first \in [0 .. count - 1 -> Nat]
  /\ gop_sent \in [0 .. count - 1 -> Nat]
  /\ gop_packets \in [0 .. count - 1 -> Nat]
  /\ gop_closed \subseteq 0 .. count - 1
  /\ gop_done \subseteq gop_closed
  /\ idle \in Seq(Workers)
  /\ mail \in [Workers -> Seq(Int)]
  /\ doing \in [Workers -> {"wait", "encode", "return", "exit"}]
  /\ gop_of \in [Workers -> Int]
  /\ gops_read \in 0 .. count
  /\ last_idx \in 0 .. gops_read
  /\ drained \in Nat
  /\ rea_pc \in {"recv", "drain", "close", "done"}
  /\ delivered \in Seq(Nat)
  /\ started \in 0 .. Tasks

\* Whatever the workers' speeds, the application gets the packets of the
\* frames it sent in their order, none lost or repeated: reassemble numbers
\* them (packet_index) by the order in which it forwards them.
DeliveredInOrder == \A i \in DOMAIN delivered : delivered[i] = i - 1

\* A GOP begins at the first frame, at a cut the detector reported, or at
\* the end of the input, and a reported cut that has been dispatched begins
\* a GOP: SceneChange::split and the dispatch in `encode` agree.
GopsStartAtCuts ==
  LET starts == {gop_first[g] : g \in 0 .. count - 1}
  IN /\ \A f \in starts : f \in cuts \cup {0} \/ (sc_pc = "done" /\ f = received)
     /\ \A c \in cuts : c < EndOf(taken) => c \in starts

\* A worker has one GOP at a time: it is offered to `encode` only when it
\* has no work, and at most one GOP or None waits in its channel.
OneGopPerWorker ==
  \A w \in Workers :
    LET offers == Cardinality({i \in DOMAIN idle : idle[i] = w})
    IN /\ offers + Len(mail[w]) <= 1
       /\ doing[w] \in {"encode", "exit"} => offers + Len(mail[w]) = 0

\* The by-GOP channel is the in-order frame service.
Service == INSTANCE FrameService WITH
  submitted <- sent,
  closed    <- dropped,
  delivered <- delivered

\* Seen from outside, the tasks, their channels and the parallel GOPs never
\* show: only frames that were sent come out, in order (reassemble).
ImplementsService == Service!SafeSpec

\* Dropping the FrameSender flushes the encoder: every frame's packet is
\* delivered and every task ends.
DropFlushes == dropped ~> (Len(delivered) = sent /\ AllDone)

=============================================================================
