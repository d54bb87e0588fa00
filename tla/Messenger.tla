----------------------------- MODULE Messenger -----------------------------
(***************************************************************************)
(* The active messenger: how a message, its put payload and the chunks of  *)
(* a large message travel over MPI, and what termination detection is told *)
(* of them.                                                                *)
(*                                                                         *)
(* A message is sent in one of three ways (doMessageSend and what it calls)*)
(*   "small"  one MPI message; a payload that fits is packed behind it;    *)
(*   "put"    the payload goes as data under a fresh tag, the message      *)
(*            follows and carries the tag;                                 *)
(*   "multi"  at least vt_max_mpi_send_size bytes: all of it goes as data  *)
(*            chunks under a fresh tag, then a small MultiMsg control      *)
(*            message announces them.                                      *)
(* The receiving node polls for active messages, keeps the put payloads it *)
(* waits for in pending_recvs_, which is keyed by the tag alone, and runs  *)
(* continuations from the scheduler's queue.                               *)
(*                                                                         *)
(* Messages are numbered in the order they are sent.  MPI is external: it  *)
(* loses nothing, matches per source and tag in the order of the sends,    *)
(* and completes receives in any order.                                    *)
(***************************************************************************)
EXTENDS Naturals, Integers, Sequences, FiniteSets

CONSTANTS
  Sender,    \* the nodes that send
  Receiver,  \* the nodes that receive
  MaxMsgs,   \* bound: how many messages are sent in all
  MaxTag,    \* the tags of a sender run over 0 .. MaxTag - 1 and wrap
  Chunks,    \* how many MPI sends a "multi" message takes
  None       \* no message

ASSUME MessengerAssumption ==
  /\ MaxMsgs \in Nat \ {0} /\ MaxTag \in Nat \ {0} /\ Chunks \in Nat \ {0}
  /\ None \notin 1 .. MaxMsgs

VARIABLES
  msgs,      \* every message sent so far: where it is and what it got
  curTag,    \* cur_direct_buffer_tag_ of each sender
  data,      \* data sent under a source, destination and tag, not matched
  pending,   \* pending_recvs_ of each receiver: the message waiting at a tag
  epoch,     \* produced minus consumed, summed over the nodes: their epoch
  anyEpoch   \* the same for the any-epoch sentinel

vars == <<msgs, curTag, data, pending, epoch, anyEpoch>>

Tag == 0 .. MaxTag - 1
Channel == Sender \X Receiver \X Tag  \* what MPI matches data by
Kind == {"small", "put", "multi"}

(***************************************************************************)
(* Where a message is: its (control) message on the wire or matched by an  *)
(* MPI_Irecv; the control message's handler queued; waiting in             *)
(* pending_recvs_; its data being received; its continuation queued;       *)
(* handed to the scheduler as a runnable; or its receive dropped:          *)
(* stages "wire", "irecv", "control", "pending", "data", "cont", "run" and *)
(* "dropped".                                                              *)
(***************************************************************************)

Msg == 1 .. Len(msgs)

\* The source, destination and tag the data of message m goes under.
ChannelOf(m) == <<msgs[m].from, msgs[m].to, msgs[m].tag>>

\* The data that belongs to message m when it takes n MPI sends.
Payload(m, n) == [i \in 1 .. n |-> <<m, i>>]

\* How many MPI sends a message of a kind makes under its own tag.  A put
\* payload is received with one MPI_Irecv whatever its size: this is the
\* payload of less than vt_max_mpi_send_size bytes.
NumChunks(kind) == CASE kind = "multi" -> Chunks [] kind = "put" -> 1 [] OTHER -> 0

\* allocateNewTag: the tag handed out when the counter stands at t, and the
\* counter afterwards (MaxTag is reached before it wraps).
allocateNewTag(t) == LET r == IF t = MaxTag THEN 0 ELSE t IN [tag |-> r, next |-> r + 1]

Init ==
  /\ msgs = << >>
  /\ curTag = [s \in Sender |-> 0]
  /\ data = [c \in Channel |-> << >>]
  /\ pending = [d \in Receiver |-> [t \in Tag |-> None]]
  /\ epoch = 0
  /\ anyEpoch = 0

(***************************************************************************)
(* Sending.                                                                *)
(***************************************************************************)

\* sendData: the chunks go out under the tag; it counts one unit on the
\* any-epoch only (the caller adds it up).
sendData(c, m, n) == data' = [data EXCEPT ![c] = @ \o Payload(m, n)]

\* doMessageSend, sendMsgBytesWithPut, sendMsgMPI: what a send of each kind
\* puts on the wire and produces.  Every produce on an epoch is also one on
\* the any-epoch.
SendMsg(s, d, kind) ==
  LET m == Len(msgs) + 1
      a == allocateNewTag(curTag[s])
      direct == kind = "small"
      control == IF kind = "multi" THEN 1 ELSE 0
  IN /\ Len(msgs) < MaxMsgs
     /\ msgs' = Append(msgs, [from |-> s, to |-> d, kind |-> kind,
                              tag |-> IF direct THEN 0 ELSE a.tag,
                              stage |-> "wire", got |-> << >>])
     /\ IF direct
          THEN UNCHANGED <<curTag, data>>
          ELSE /\ curTag' = [curTag EXCEPT ![s] = a.next]
               /\ sendData(<<s, d, a.tag>>, m, NumChunks(kind))
     /\ epoch' = epoch + 1 + control
     /\ anyEpoch' = anyEpoch + 1 + control + (IF direct THEN 0 ELSE 1)
     /\ UNCHANGED pending

(***************************************************************************)
(* Receiving.                                                              *)
(***************************************************************************)

Go(m, stage) == msgs' = [msgs EXCEPT ![m].stage = stage]

\* prepareActiveMsgToRun: the runnable is enqueued and the message consumed.
Consume(n, k) == epoch' = epoch - n /\ anyEpoch' = anyEpoch - k

\* tryProcessIncomingActiveMsg: MPI_Iprobe finds the oldest active message
\* of some source; MPI_Irecv is posted for it.
tryProcessIncomingActiveMsg(m) ==
  /\ msgs[m].stage = "wire"
  /\ \A k \in 1 .. m - 1 :
        ~ (msgs[k].stage = "wire" /\ msgs[k].from = msgs[m].from
                                  /\ msgs[k].to = msgs[m].to)
  /\ Go(m, "irecv")
  /\ UNCHANGED <<curTag, data, pending, epoch, anyEpoch>>

\* recvDataMsgBuffer with enqueue set: emplace does nothing when the tag is
\* already a key of pending_recvs_, whoever the sender of that entry is.
recvDataMsg(m) ==
  LET d == msgs[m].to
      t == msgs[m].tag
  IN IF pending[d][t] = None
       THEN /\ pending' = [pending EXCEPT ![d][t] = m]
            /\ Go(m, "pending")
       ELSE /\ Go(m, "dropped")
            /\ UNCHANGED pending

\* Mutant: the message is consumed when its header arrives.
FinishActiveMsgEarly(m) ==
  /\ msgs[m].stage = "irecv"
  /\ CASE msgs[m].kind = "small" -> Go(m, "run") /\ UNCHANGED pending
       [] msgs[m].kind = "multi" -> Go(m, "control") /\ UNCHANGED pending
       [] OTHER -> recvDataMsg(m)
  /\ Consume(1, 1)
  /\ UNCHANGED <<curTag, data>>

\* finishPendingActiveMsgAsyncRecv on a message that came by itself: a put
\* waits for its payload, any other message is processed.
finishPendingActiveMsgAsyncRecv(m) ==
  /\ msgs[m].stage = "irecv"
  /\ IF msgs[m].kind = "put"
       THEN recvDataMsg(m) /\ UNCHANGED <<epoch, anyEpoch>>
       ELSE /\ Go(m, IF msgs[m].kind = "small" THEN "run" ELSE "control")
            /\ Consume(1, 1)
            /\ UNCHANGED pending
  /\ UNCHANGED <<curTag, data>>

\* Mutant: the receive is posted for any source with the tag.
RecvDataAnySource(m, n) ==
  \E s \in Sender :
    LET c == <<s, msgs[m].to, msgs[m].tag>>
    IN /\ Len(data[c]) >= n
       /\ msgs' = [msgs EXCEPT ![m].stage = "data", ![m].got = SubSeq(data[c], 1, n)]
       /\ data' = [data EXCEPT ![c] = SubSeq(@, n + 1, Len(@))]
       /\ UNCHANGED <<curTag, epoch, anyEpoch>>

\* recvDataDirect: n receives are posted for the sender and the tag; they
\* match the sends made under them in order.
recvDataDirect(m, n) ==
  LET c == ChannelOf(m)
  IN /\ Len(data[c]) >= n
     /\ msgs' = [msgs EXCEPT ![m].stage = "data", ![m].got = SubSeq(data[c], 1, n)]
     /\ data' = [data EXCEPT ![c] = SubSeq(@, n + 1, Len(@))]
     /\ UNCHANGED <<curTag, epoch, anyEpoch>>

\* Mutant: one chunk too many is waited for.
HandleChunkedMultiMsgExtra(m) ==
  /\ msgs[m].stage = "control"
  /\ recvDataDirect(m, Chunks + 1)
  /\ UNCHANGED pending

\* handleChunkedMultiMsg: the control message's handler receives the chunks.
handleChunkedMultiMsg(m) ==
  /\ msgs[m].stage = "control"
  /\ recvDataDirect(m, Chunks)
  /\ UNCHANGED pending

\* tryProcessDataMsgRecv: some entry of pending_recvs_ finds its data with
\* MPI_Iprobe; the receive is posted and the entry erased.
tryProcessDataMsgRecv(m) ==
  /\ msgs[m].stage = "pending"
  /\ recvDataDirect(m, 1)
  /\ pending' = [pending EXCEPT ![msgs[m].to][msgs[m].tag] = None]

\* finishPendingDataMsgAsyncRecv: the continuation is enqueued.
finishPendingDataMsgAsyncRecv(m) ==
  /\ msgs[m].stage = "data"
  /\ Go(m, "cont")
  /\ UNCHANGED <<curTag, data, pending, epoch, anyEpoch>>

\* The continuation: the message, now whole, is processed and consumed; then
\* the data is consumed on the any-epoch.
RunContinuation(m) ==
  /\ msgs[m].stage = "cont"
  /\ Go(m, "run")
  /\ Consume(1, 2)
  /\ UNCHANGED <<curTag, data, pending>>

\* What a receiving node's progress and scheduler do for message m.
Progress(m) ==
  \/ tryProcessIncomingActiveMsg(m)
  \/ finishPendingActiveMsgAsyncRecv(m)
  \/ handleChunkedMultiMsg(m)
  \/ tryProcessDataMsgRecv(m)
  \/ finishPendingDataMsgAsyncRecv(m)
  \/ RunContinuation(m)

Next ==
  \/ \E s \in Sender, d \in Receiver, kind \in Kind : SendMsg(s, d, kind)
  \/ \E m \in Msg : Progress(m)

\* The scheduler polls for as long as the node runs, testAll tests every
\* receive in progress and the queue is drained: each message's next step is
\* taken if it stays possible.
Fairness == \A m \in 1 .. MaxMsgs : WF_vars(m \in Msg /\ Progress(m))

Spec == Init /\ [][Next]_vars /\ Fairness

(***************************************************************************)
(* Properties.                                                             *)
(***************************************************************************)

\* A tag came round again: another transfer between the two nodes used it.
TagShared(m) ==
  \E k \in Msg \ {m} : /\ msgs[k].kind # "small" /\ msgs[m].kind # "small"
                       /\ ChannelOf(k) = ChannelOf(m)

\* A message is run with its own payload, all of it and in order: the
\* receives posted by recvDataDirect never take data that belongs to another
\* message, as long as the sender's tags have not wrapped onto it.
PayloadOwn ==
  \A m \in Msg : msgs[m].stage = "run" /\ ~ TagShared(m)
                   => msgs[m].got = Payload(m, NumChunks(msgs[m].kind))

\* The produce and consume calls of the messenger hold the message's epoch,
\* and the any-epoch, exactly as long as some message sent in it has not
\* been handed over to run: header, payload, chunks and queued continuations
\* all keep it open, and nothing is left over once all have run.
EpochHeld ==
  LET allRun == \A m \in Msg : msgs[m].stage = "run"
  IN (epoch = 0 <=> allRun) /\ (anyEpoch = 0 <=> allRun)

\* Every message sent is run in the end, unless emplace dropped its receive.
RunOrDropped ==
  \A m \in 1 .. MaxMsgs :
     (m \in Msg) ~> (m \in Msg /\ msgs[m].stage \in {"run", "dropped"})

\* active.h promises of recvDataMsg that "next" is "a continuation to execute
\* when data arrives": a put whose payload was sent is run in the end.
ContinuationRuns ==
  \A m \in 1 .. MaxMsgs :
     (m \in Msg /\ msgs[m].kind = "put") ~> (m \in Msg /\ msgs[m].stage = "run")
=============================================================================
