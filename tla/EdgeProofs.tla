----------------------------- MODULE EdgeProofs -----------------------------
(***************************************************************************)
(* The parts between the public edge and the providers, each proved of its *)
(* own specification for every value of its constants, and then of the     *)
(* behaviours MCEdge puts together.                                        *)
(***************************************************************************)
EXTENDS MCEdge, FiniteSetTheorems, SequenceTheorems, NaturalsInduction, WellFoundedInduction, TLAPS

-----------------------------------------------------------------------------
\* The relay stream: one direction of writing, then what reached the client.

StreamSpec == StreamInit /\ [][StreamNext]_streamVars

Sockets == [dead : BOOLEAN, full : BOOLEAN, closing : BOOLEAN]

\* A write waits only behind its listeners, and only in one of the two states.
WriterInv == writer \in {"idle", "waiting"} /\ sock \in Sockets /\ NoLostWakeup

\* writeChunk leaves the writer idle, or waiting on a socket that can still wake it.
LEMMA WriteKeepsWriter ==
    ASSUME WriterInv, writer = "idle", NEW c, NEW onOk, WriteChunk(c, onOk)
    PROVE  WriterInv'
  <1>1. CASE UNCHANGED <<writer, sock, aborted, listening>>
    BY <1>1 DEF WriterInv, NoLostWakeup
  <1>2. ASSUME NEW dies \in BOOLEAN, NEW aborts \in BOOLEAN,
               LET s == [dead |-> dies, full |-> TRUE, closing |-> dies]
                   w == Recheck(s, aborts)
               IN  /\ sock' = s /\ aborted' = aborts
                   /\ writer' = w.writer /\ listening' = w.listening
        PROVE  WriterInv'
    <2>1. CASE aborts \/ dies
      BY <1>2, <2>1 DEF Recheck, WriterInv, NoLostWakeup, Sockets
    <2>2. CASE ~(aborts \/ dies)
      BY <1>2, <2>2 DEF Recheck, WriterInv, NoLostWakeup, Sockets
    <2> QED BY <2>1, <2>2
  <1> QED BY <1>1, <1>2 DEF WriteChunk, clientSide

\* A wakened writer is idle.
LEMMA WakeKeepsWriter == ASSUME NEW outcome, Wake(outcome), sock' \in Sockets PROVE WriterInv'
  BY DEF Wake, WriterInv, NoLostWakeup

\* writeChunk in the relay: a writer that waits for drain waits on a socket that
\* will still call it, whatever happened between the write and the listener.
THEOREM WritesAreWoken == StreamSpec => []NoLostWakeup
  <1>1. StreamInit => WriterInv
    BY DEF StreamInit, WriterInv, NoLostWakeup, Sockets
  <1>2. ASSUME WriterInv, [StreamNext]_streamVars PROVE WriterInv'
    <2>1. CASE RelayData
      BY <1>2, <2>1, WriteKeepsWriter DEF RelayData, Reading
    <2>2. CASE FinalizeThenWriteDone
      BY <1>2, <2>2, WriteKeepsWriter DEF FinalizeThenWriteDone
    <2>3. CASE SocketDrains
      BY <1>2, <2>3, WakeKeepsWriter DEF SocketDrains, WriterInv, NoLostWakeup, Sockets, Listeners
    <2>4. CASE SocketDies
      BY <1>2, <2>4, WakeKeepsWriter DEF SocketDies, WriterInv, NoLostWakeup, Sockets
    <2>5. CASE SocketCloses
      BY <1>2, <2>5, WakeKeepsWriter DEF SocketCloses, WriterInv, NoLostWakeup, Sockets, Listeners
    <2>6. CASE UNCHANGED clientSide
      BY <1>2, <2>6 DEF clientSide, WriterInv, NoLostWakeup
    <2> QED
      BY <1>2, <2>1, <2>2, <2>3, <2>4, <2>5, <2>6
      DEF StreamNext, ProviderSends, ProviderEnds, WorkerForwards, WorkerCompletes, WorkerTruncates,
          WorkerThrows, ConnectionCut, RelayUsage, RelayBinding, RelayTerminal, RelayError, RelayEof,
          streamVars, clientSide
  <1>3. WriterInv => NoLostWakeup
    BY DEF WriterInv
  <1> QED BY <1>1, <1>2, <1>3, PTL DEF StreamSpec

-----------------------------------------------------------------------------
Events == [event : {"data"}, chunk : Nat] \cup [event : {"usage"}, usage : Usages]
          \cup [event : {"binding", "terminal", "stream-error"}]

StreamTypes ==
    /\ prov \in [sent : Nat, finish : BOOLEAN, usage : Usages, end : {"open", "done", "eof", "reset"}]
    /\ worker \in [seen : Nat, finish : BOOLEAN, usage : Usages, state : {"running", "ended"}]
    /\ wire \in Seq(Events) /\ cut \in BOOLEAN
    /\ relay \in [usage : Usages \cup {"pending"}, bound : BOOLEAN,
                  state : {"running", "complete", "written", "aborted", "worker_stream_incomplete",
                           "provider_stream_incomplete"}]
    /\ got \in Seq(Nat)

\* The provider's stream really ended and the worker read all of it.
Closed ==
    /\ worker.state = "ended" /\ worker.seen = prov.sent
    /\ prov.end = "done" \/ (prov.end = "eof" /\ eofOk /\ prov.finish)

WorkerReads ==
    /\ worker.seen <= prov.sent
    /\ worker.seen = prov.sent => worker.usage = prov.usage /\ worker.finish = prov.finish

\* What the sidebands on the wire vouch for.
WireInv ==
    \A i \in 1 .. Len(wire) :
       /\ wire[i].event = "usage" => worker.state = "ended" /\ wire[i].usage = worker.usage
       /\ wire[i].event = "terminal" => Closed

\* While the relay reads: the client has a prefix, the wire goes on where it
\* stops, and a terminal event comes right behind the usage.
ReadInv ==
    relay.state = "running" =>
      /\ got = Numbers(Len(got)) /\ Len(got) <= worker.seen
      /\ worker.state = "running" /\ ~cut => Len(got) + Len(wire) = worker.seen
      /\ \A i \in 1 .. Len(wire) :
           /\ wire[i].event = "data" <=> Len(got) + i <= worker.seen
           /\ wire[i].event = "data" => wire[i].chunk = Len(got) + i
           /\ wire[i].event = "terminal" =>
                IF i = 1 THEN relay.usage = worker.usage ELSE wire[i - 1].event = "usage"

\* The [DONE] that was written, and the state in which it is about to be.
Completed == Closed /\ relay.usage = prov.usage
EndInv ==
    /\ relay.state = "complete" => Completed /\ got = Numbers(prov.sent)
    /\ \/ got = Numbers(Len(got))
       \/ /\ relay.state \notin {"running", "complete"} /\ Completed
          /\ got = Append(Numbers(prov.sent), Done)

StreamInv == StreamTypes /\ WorkerReads /\ WireInv /\ ReadInv /\ EndInv

-----------------------------------------------------------------------------
\* The chunks 1 .. n as a sequence.
LEMMA NumbersProperties ==
    ASSUME NEW n \in Nat
    PROVE  /\ Numbers(n) \in Seq(Nat) /\ Len(Numbers(n)) = n
           /\ \A k \in 1 .. n : Numbers(n)[k] = k
           /\ Append(Numbers(n), n + 1) = Numbers(n + 1)
  <1>1. Numbers(n) \in Seq(Nat) /\ Len(Numbers(n)) = n
    BY IsASeq DEF Numbers
  <1>2. Append(Numbers(n), n + 1) = Numbers(n + 1)
    <2>1. Numbers(n + 1) \in Seq(Nat) /\ Len(Numbers(n + 1)) = n + 1
      BY IsASeq DEF Numbers
    <2>2. Append(Numbers(n), n + 1) \in Seq(Nat) /\ Len(Append(Numbers(n), n + 1)) = n + 1
      BY <1>1
    <2>3. \A k \in 1 .. n + 1 : Append(Numbers(n), n + 1)[k] = Numbers(n + 1)[k]
      BY <1>1 DEF Numbers
    <2> QED BY <2>1, <2>2, <2>3, SeqEqual
  <1> QED BY <1>1, <1>2 DEF Numbers


\* The provider's side: it changes nothing once its stream ended.
LEMMA ProviderKeeps ==
    ASSUME StreamInv,
           \/ \E f \in BOOLEAN, u \in Usages : ProviderSends(f, u)
           \/ \E how \in {"done", "eof", "reset"} : ProviderEnds(how)
    PROVE  StreamInv'
  <1>1. /\ prov.end = "open" /\ prov.sent <= prov'.sent /\ UNCHANGED <<eofOk, worker, wire, cut, relay, got>>
        /\ prov'.sent = prov.sent => prov'.usage = prov.usage /\ prov'.finish = prov.finish
        /\ StreamTypes'
    <2>1. ASSUME NEW f \in BOOLEAN, NEW u \in Usages, ProviderSends(f, u)
          PROVE  /\ prov.end = "open" /\ prov'.sent = prov.sent + 1
                 /\ UNCHANGED <<eofOk, worker, wire, cut, relay, got>> /\ StreamTypes'
      BY <2>1 DEF ProviderSends, clientSide, StreamInv, StreamTypes, Usages
    <2>2. ASSUME NEW how \in {"done", "eof", "reset"}, ProviderEnds(how)
          PROVE  /\ prov.end = "open" /\ prov'.sent = prov.sent /\ prov'.usage = prov.usage
                 /\ prov'.finish = prov.finish
                 /\ UNCHANGED <<eofOk, worker, wire, cut, relay, got>> /\ StreamTypes'
      BY <2>2 DEF ProviderEnds, clientSide, StreamInv, StreamTypes
    <2> QED BY <2>1, <2>2 DEF StreamInv, StreamTypes
  <1>2. ~Closed
    BY <1>1 DEF Closed
  <1>3. WorkerReads'
    BY <1>1 DEF StreamInv, WorkerReads, StreamTypes
  <1>4. WireInv' /\ ReadInv' /\ EndInv'
    BY <1>1, <1>2 DEF StreamInv, WireInv, ReadInv, EndInv, Completed
  <1> QED BY <1>1, <1>3, <1>4 DEF StreamInv

\* What the connected worker puts on the wire comes behind what is there.
LEMMA WireAppends ==
    ASSUME StreamInv, NEW more \in Seq(Events), wire' = wire \o more
    PROVE  /\ wire' \in Seq(Events) /\ Len(wire') = Len(wire) + Len(more)
           /\ \A i \in 1 .. Len(wire) : wire'[i] = wire[i]
           /\ \A i \in 1 .. Len(more) : wire'[Len(wire) + i] = more[i]
           /\ Len(wire) \in Nat /\ Len(more) \in Nat
  BY ConcatProperties, LenProperties DEF StreamInv, StreamTypes

\* The worker forwards a chunk, or notes the usage it reads.
LEMMA ForwardKeeps == ASSUME StreamInv, WorkerForwards PROVE StreamInv'
  <1> DEFINE e == [event |-> "data", chunk |-> worker.seen + 1]
  <1>0. StreamTypes /\ WorkerReads /\ WireInv /\ ReadInv /\ EndInv
    BY DEF StreamInv
  <1>1. /\ worker.state = "running" /\ ~cut /\ worker.seen < prov.sent
        /\ UNCHANGED <<prov, eofOk, cut, relay, got>>
        /\ worker' = [worker EXCEPT !.seen = @ + 1, !.finish = prov.finish, !.usage = prov.usage]
        /\ wire' = Append(wire, e)
    BY DEF WorkerForwards, clientSide
  <1>2. /\ worker'.seen = worker.seen + 1 /\ worker'.finish = prov.finish
        /\ worker'.usage = prov.usage /\ worker'.state = "running"
        /\ worker' \in [seen : Nat, finish : BOOLEAN, usage : Usages, state : {"running", "ended"}]
    <2>1. worker' = [seen |-> worker.seen + 1, finish |-> prov.finish, usage |-> prov.usage,
                     state |-> worker.state]
      BY <1>0, <1>1 DEF StreamTypes
    <2> QED BY <1>0, <1>1, <2>1 DEF StreamTypes
  <1>3. e \in Events /\ e.event = "data" /\ e.chunk = worker.seen + 1
    BY <1>0 DEF Events, StreamTypes
  <1> HIDE DEF e
  <1>4. /\ wire' \in Seq(Events) /\ Len(wire') = Len(wire) + 1 /\ Len(wire) \in Nat
        /\ \A i \in 1 .. Len(wire) : wire'[i] = wire[i]
        /\ wire'[Len(wire) + 1] = e
    BY <1>0, <1>1, <1>3 DEF StreamTypes
  <1>5. StreamTypes'
    BY <1>0, <1>1, <1>2, <1>4 DEF StreamTypes
  <1>6. ~Closed /\ ~Closed'
    BY <1>1, <1>2 DEF Closed
  <1>7. WorkerReads'
    BY <1>0, <1>1, <1>2 DEF WorkerReads, StreamTypes
  <1>8. WireInv' /\ EndInv'
    BY <1>0, <1>1, <1>2, <1>3, <1>4, <1>6 DEF WireInv, EndInv, Completed
  <1>9. ReadInv'
    <2> SUFFICES ASSUME relay.state = "running" PROVE ReadInv'
      BY <1>1 DEF ReadInv
    <2>1. Len(got) + Len(wire) = worker.seen /\ got' = Numbers(Len(got')) /\ Len(got) \in Nat
      BY <1>0, <1>1 DEF ReadInv, StreamTypes
    <2>2. ASSUME NEW i \in 1 .. Len(wire')
          PROVE  /\ wire'[i].event = "data" /\ wire'[i].chunk = Len(got) + i
                 /\ Len(got) + i <= worker'.seen
      <3>1. CASE i \in 1 .. Len(wire)
        <4>1. /\ wire[i].event = "data" <=> Len(got) + i <= worker.seen
              /\ wire[i].event = "data" => wire[i].chunk = Len(got) + i
          BY <1>0, <3>1 DEF ReadInv
        <4>2. Len(got) + i <= worker.seen /\ worker.seen \in Nat
          BY <1>0, <1>4, <2>1, <3>1 DEF StreamTypes
        <4> QED BY <1>2, <1>4, <2>1, <3>1, <4>1, <4>2
      <3>2. CASE i = Len(wire) + 1
        BY <1>2, <1>3, <1>4, <2>1, <3>2
      <3> QED BY <1>4, <3>1, <3>2
    <2>3. Len(got') <= worker'.seen /\ Len(got') + Len(wire') = worker'.seen
      BY <1>0, <1>1, <1>2, <1>4, <2>1 DEF StreamTypes
    <2> QED BY <1>1, <2>1, <2>2, <2>3 DEF ReadInv
  <1> QED BY <1>5, <1>7, <1>8, <1>9 DEF StreamInv

\* The sidebands: the usage, directly followed by the end.
LEMMA SidebandKeeps ==
    ASSUME StreamInv, NEW more \in Seq(Events), wire' = wire \o more,
           worker.state = "running", ~cut, worker' = [worker EXCEPT !.state = "ended"],
           UNCHANGED <<prov, eofOk, cut, relay, got>>,
           \A i \in 1 .. Len(more) :
              /\ more[i].event # "data"
              /\ more[i].event = "usage" => more[i].usage = worker.usage
              /\ more[i].event = "terminal" => Closed' /\ i > 1 /\ more[i - 1].event = "usage"
    PROVE  StreamInv'
  <1>0. StreamTypes /\ WorkerReads /\ WireInv /\ ReadInv /\ EndInv
    BY DEF StreamInv
  <1>1. /\ wire' \in Seq(Events) /\ Len(wire') = Len(wire) + Len(more)
        /\ \A i \in 1 .. Len(wire) : wire'[i] = wire[i]
        /\ \A i \in 1 .. Len(more) : wire'[Len(wire) + i] = more[i]
        /\ Len(wire) \in Nat /\ Len(more) \in Nat
    BY WireAppends
  <1>2. /\ worker'.seen = worker.seen /\ worker'.finish = worker.finish
        /\ worker'.usage = worker.usage /\ worker'.state = "ended"
        /\ worker' \in [seen : Nat, finish : BOOLEAN, usage : Usages, state : {"running", "ended"}]
    BY <1>0 DEF StreamTypes
  <1>3. StreamTypes' /\ WorkerReads' /\ ~Closed
    BY <1>0, <1>1, <1>2 DEF StreamTypes, WorkerReads, Closed
  <1>4. ASSUME NEW i \in 1 .. Len(wire')
        PROVE  \/ i \in 1 .. Len(wire) /\ wire'[i] = wire[i]
               \/ \E j \in 1 .. Len(more) : i = Len(wire) + j /\ wire'[i] = more[j]
    <2>1. CASE i \in 1 .. Len(wire)
      BY <1>1, <2>1
    <2>2. CASE i \notin 1 .. Len(wire)
      <3>1. i - Len(wire) \in 1 .. Len(more) /\ i = Len(wire) + (i - Len(wire))
        BY <1>1, <2>2
      <3> QED BY <1>1, <3>1
    <2> QED BY <2>1, <2>2
  <1>5. WireInv'
    BY <1>0, <1>2, <1>3, <1>4 DEF WireInv
  <1>6. EndInv'
    BY <1>0, <1>3 DEF EndInv, Completed
  <1>7. ReadInv'
    <2> SUFFICES ASSUME relay.state = "running" PROVE ReadInv'
      BY DEF ReadInv
    <2>1. Len(got) + Len(wire) = worker.seen /\ got' = Numbers(Len(got')) /\ Len(got) \in Nat
      BY <1>0 DEF ReadInv, StreamTypes
    <2>2. ASSUME NEW i \in 1 .. Len(wire')
          PROVE  /\ wire'[i].event = "data" <=> Len(got) + i <= worker.seen
                 /\ wire'[i].event = "data" => wire'[i].chunk = Len(got) + i
                 /\ wire'[i].event = "terminal" => i # 1 /\ wire'[i - 1].event = "usage"
      <3>1. CASE i \in 1 .. Len(wire)
        BY <1>0, <1>1, <1>3, <2>1, <3>1 DEF ReadInv, WireInv
      <3>2. ASSUME NEW j \in 1 .. Len(more), i = Len(wire) + j
            PROVE  /\ wire'[i].event # "data" /\ ~(Len(got) + i <= worker.seen)
                   /\ wire'[i].event = "terminal" => i # 1 /\ wire'[i - 1].event = "usage"
        <4>1. wire'[i] = more[j] /\ ~(Len(got) + i <= worker.seen)
          BY <1>1, <2>1, <3>2
        <4>2. CASE j > 1
          <5>1. i - 1 = Len(wire) + (j - 1) /\ j - 1 \in 1 .. Len(more) /\ i # 1
            BY <1>1, <3>2, <4>2
          <5>2. wire'[i - 1] = more[j - 1]
            BY <1>1, <5>1
          <5> QED BY <4>1, <5>1, <5>2
        <4>3. CASE ~(j > 1)
          BY <4>1, <4>3
        <4> QED BY <4>2, <4>3
      <3> QED BY <1>4, <3>1, <3>2
    <2>3. Len(got') <= worker'.seen
      BY <1>0, <1>2 DEF ReadInv
    <2>4. \A i \in 1 .. Len(wire') :
            /\ wire'[i].event = "data" <=> Len(got') + i <= worker'.seen
            /\ wire'[i].event = "data" => wire'[i].chunk = Len(got') + i
            /\ wire'[i].event = "terminal" =>
                 IF i = 1 THEN relay'.usage = worker'.usage ELSE wire'[i - 1].event = "usage"
      <3> TAKE i \in 1 .. Len(wire')
      <3>1. got' = got /\ worker'.seen = worker.seen
        BY <1>2
      <3>2. wire'[i].event = "terminal" => i # 1 /\ wire'[i - 1].event = "usage"
        BY <2>2
      <3>3. /\ wire'[i].event = "data" <=> Len(got) + i <= worker.seen
            /\ wire'[i].event = "data" => wire'[i].chunk = Len(got) + i
        BY <2>2
      <3> QED BY <3>1, <3>2, <3>3
    <2> QED BY <1>2, <2>1, <2>3, <2>4 DEF ReadInv
  <1> QED BY <1>3, <1>5, <1>6, <1>7 DEF StreamInv

\* A provider that said it was done: usage and a terminal event.
LEMMA CompletesKeeps == ASSUME StreamInv, WorkerCompletes PROVE StreamInv'
  <1>0. StreamTypes /\ WorkerReads
    BY DEF StreamInv
  <1> DEFINE u == [event |-> "usage", usage |-> worker.usage]
             t == [event |-> "terminal"]
             d == [event |-> "binding"]
  <1>1. /\ worker.state = "running" /\ ~cut /\ worker.seen = prov.sent /\ Terminated
        /\ worker' = [worker EXCEPT !.state = "ended"]
        /\ UNCHANGED <<prov, eofOk, cut, relay, got>>
        /\ \E b \in BOOLEAN : wire' = wire \o Sideband(b)
    BY DEF WorkerCompletes, AllRead, clientSide
  <1>2. Closed'
    BY <1>0, <1>1 DEF Closed, Terminated, WorkerReads, StreamTypes
  <1>3. u \in Events /\ t \in Events /\ d \in Events
    BY <1>0 DEF Events, StreamTypes
  <1>4. u.event = "usage" /\ u.usage = worker.usage /\ t.event = "terminal" /\ d.event = "binding"
    OBVIOUS
  <1> HIDE DEF u, t, d
  <1>5. Sideband(FALSE) = <<u, t>> /\ Sideband(TRUE) = <<d, u, t>>
    <2>1. /\ <<u, t>> \in Seq(Events) /\ <<d>> \in Seq(Events) /\ <<d, u, t>> \in Seq(Events)
          /\ Len(<<u, t>>) = 2 /\ Len(<<d>>) = 1 /\ Len(<<d, u, t>>) = 3
      BY <1>3
    <2>2. <<>> \o <<u, t>> = <<u, t>>
      BY <2>1, ConcatEmptySeq
    <2>3. <<d>> \o <<u, t>> = <<d, u, t>>
      <3>1. /\ <<d>> \o <<u, t>> \in Seq(Events) /\ Len(<<d>> \o <<u, t>>) = 3
            /\ \A i \in 1 .. 3 : (<<d>> \o <<u, t>>)[i] = IF i <= 1 THEN <<d>>[i] ELSE <<u, t>>[i - 1]
        BY <2>1, ConcatProperties
      <3>2. \A i \in 1 .. 3 : (<<d>> \o <<u, t>>)[i] = <<d, u, t>>[i]
        BY <3>1
      <3> QED BY <2>1, <3>1, <3>2, SeqEqual
    <2> QED BY <2>2, <2>3 DEF Sideband, u, t, d
  <1>6. CASE wire' = wire \o <<u, t>>
    <2> DEFINE more == <<u, t>>
    <2>1. more \in Seq(Events) /\ Len(more) = 2 /\ more[1] = u /\ more[2] = t
      BY <1>3
    <2>2. wire' = wire \o more
      BY <1>6
    <2> HIDE DEF more
    <2>3. \A i \in 1 .. Len(more) : i = 1 \/ (i = 2 /\ i - 1 = 1)
      BY <2>1
    <2>4. \A i \in 1 .. Len(more) :
            /\ more[i].event # "data"
            /\ more[i].event = "usage" => more[i].usage = worker.usage
            /\ more[i].event = "terminal" => Closed' /\ i > 1 /\ more[i - 1].event = "usage"
      BY <1>2, <1>4, <2>1, <2>3
    <2> QED BY <1>1, <2>1, <2>2, <2>4, SidebandKeeps
  <1>7. CASE wire' = wire \o <<d, u, t>>
    <2> DEFINE more == <<d, u, t>>
    <2>1. more \in Seq(Events) /\ Len(more) = 3 /\ more[1] = d /\ more[2] = u /\ more[3] = t
      BY <1>3
    <2>2. wire' = wire \o more
      BY <1>7
    <2> HIDE DEF more
    <2>3. \A i \in 1 .. Len(more) : i = 1 \/ i = 2 \/ (i = 3 /\ i - 1 = 2)
      BY <2>1
    <2>4. \A i \in 1 .. Len(more) :
            /\ more[i].event # "data"
            /\ more[i].event = "usage" => more[i].usage = worker.usage
            /\ more[i].event = "terminal" => Closed' /\ i > 1 /\ more[i - 1].event = "usage"
      BY <1>2, <1>4, <2>1, <2>3
    <2> QED BY <1>1, <2>1, <2>2, <2>4, SidebandKeeps
  <1> QED BY <1>1, <1>5, <1>6, <1>7

\* A provider that stopped: no terminal event.
LEMMA TruncatesKeeps == ASSUME StreamInv, WorkerTruncates PROVE StreamInv'
  <1> DEFINE u == [event |-> "usage", usage |-> worker.usage]
             x == [event |-> "stream-error"]
  <1>1. /\ worker.state = "running" /\ ~cut /\ worker' = [worker EXCEPT !.state = "ended"]
        /\ UNCHANGED <<prov, eofOk, cut, relay, got>> /\ wire' = wire \o <<u, x>>
    BY DEF WorkerTruncates, clientSide
  <1>2. u \in Events /\ x \in Events
    BY DEF Events, StreamInv, StreamTypes
  <1>3. u.event = "usage" /\ u.usage = worker.usage /\ x.event = "stream-error"
    OBVIOUS
  <1> HIDE DEF u, x
  <1> DEFINE more == <<u, x>>
  <1>4. more \in Seq(Events) /\ Len(more) = 2 /\ more[1] = u /\ more[2] = x
    BY <1>2
  <1>5. wire' = wire \o more
    BY <1>1
  <1> HIDE DEF more
  <1>6. \A i \in 1 .. Len(more) : i = 1 \/ i = 2
    BY <1>4
  <1> QED BY <1>1, <1>3, <1>4, <1>5, <1>6, SidebandKeeps

\* A broken connection loses a suffix of the wire, a dead worker nothing.
LEMMA BreakKeeps == ASSUME StreamInv, WorkerThrows \/ ConnectionCut PROVE StreamInv'
  <1>0. StreamTypes /\ WorkerReads /\ WireInv /\ ReadInv /\ EndInv
    BY DEF StreamInv
  <1>1. /\ UNCHANGED <<prov, eofOk, relay, got>> /\ cut' = TRUE
        /\ worker'.seen = worker.seen /\ worker'.usage = worker.usage
        /\ worker'.finish = worker.finish /\ (worker.state = "ended" => worker'.state = "ended")
        /\ worker' \in [seen : Nat, finish : BOOLEAN, usage : Usages, state : {"running", "ended"}]
    BY <1>0 DEF WorkerThrows, ConnectionCut, clientSide, StreamTypes
  <1>2. /\ wire' \in Seq(Events) /\ Len(wire') <= Len(wire)
        /\ \A i \in 1 .. Len(wire') : wire'[i] = wire[i]
    <2>1. ASSUME NEW n \in 0 .. Len(wire), wire' = SubSeq(wire, 1, n)
          PROVE  /\ wire' \in Seq(Events) /\ Len(wire') = n
                 /\ \A i \in 1 .. n : wire'[i] = wire[i]
      <3>1. \A i \in 1 .. n : wire[i] \in Events
        BY <1>0, ElementOfSeq DEF StreamTypes
      <3> QED BY <1>0, <2>1, <3>1, SubSeqProperties DEF StreamTypes
    <2>2. CASE UNCHANGED wire
      BY <1>0, <2>2 DEF StreamTypes
    <2> QED BY <1>0, <2>1, <2>2 DEF WorkerThrows, ConnectionCut, StreamTypes
  <1>3. StreamTypes' /\ WorkerReads'
    BY <1>0, <1>1, <1>2 DEF StreamTypes, WorkerReads
  <1>4. Closed => Closed'
    BY <1>1 DEF Closed
  <1>5. WireInv' /\ EndInv'
    BY <1>0, <1>1, <1>2, <1>4 DEF WireInv, EndInv, Completed, StreamTypes
  <1>6. ReadInv'
    <2> SUFFICES ASSUME relay.state = "running" PROVE ReadInv'
      BY <1>1 DEF ReadInv
    <2>1. ASSUME NEW i \in 1 .. Len(wire')
          PROVE  /\ wire'[i].event = "data" <=> Len(got') + i <= worker'.seen
                 /\ wire'[i].event = "data" => wire'[i].chunk = Len(got') + i
                 /\ wire'[i].event = "terminal" =>
                      IF i = 1 THEN relay'.usage = worker'.usage ELSE wire'[i - 1].event = "usage"
      <3>1. i \in 1 .. Len(wire) /\ wire'[i] = wire[i]
        BY <1>0, <1>2 DEF StreamTypes
      <3>2. i # 1 => wire'[i - 1] = wire[i - 1]
        BY <1>0, <1>2 DEF StreamTypes
      <3> QED BY <1>0, <1>1, <3>1, <3>2 DEF ReadInv
    <2>2. got' = Numbers(Len(got')) /\ Len(got') <= worker'.seen
      BY <1>0, <1>1 DEF ReadInv
    <2> QED BY <1>1, <2>1, <2>2 DEF ReadInv
  <1> QED BY <1>3, <1>5, <1>6 DEF StreamInv

-----------------------------------------------------------------------------
\* The relay takes the head of the wire.
LEMMA WireTail ==
    ASSUME StreamInv, wire # <<>>
    PROVE  /\ Tail(wire) \in Seq(Events) /\ Len(Tail(wire)) = Len(wire) - 1
           /\ Len(wire) \in Nat \ {0} /\ Head(wire) = wire[1]
           /\ \A i \in 1 .. Len(Tail(wire)) : Tail(wire)[i] = wire[i + 1] /\ i + 1 \in 1 .. Len(wire)
  BY HeadTailProperties, EmptySeq DEF StreamInv, StreamTypes

\* A write appends the chunk, or throws before or behind it.
LEMMA WriteOutcomes ==
    ASSUME NEW c \in Nat, NEW onOk, WriteChunk(c, onOk)
    PROVE  \/ got' = Append(got, c) /\ relay' = onOk
           \/ got' = Append(got, c) /\ relay' = [onOk EXCEPT !.state = "aborted"]
           \/ got' = got /\ relay' = [onOk EXCEPT !.state = "aborted"]
  BY DEF WriteChunk, clientSide

\* The relay writes a data event.
LEMMA DataKeeps == ASSUME StreamInv, RelayData PROVE StreamInv'
  <1>0. StreamTypes /\ WorkerReads /\ WireInv /\ ReadInv /\ EndInv
    BY DEF StreamInv
  <1> DEFINE c == wire[1].chunk
  <1>1. /\ relay.state = "running" /\ wire # <<>> /\ wire' = Tail(wire)
        /\ UNCHANGED <<prov, eofOk, worker, cut>>
        /\ wire[1].event = "data" /\ WriteChunk(c, relay)
    BY WireTail DEF RelayData, Reading, workerSide
  <1>2. /\ Len(wire) \in Nat \ {0} /\ wire' \in Seq(Events) /\ Len(wire') = Len(wire) - 1
        /\ \A i \in 1 .. Len(wire') : wire'[i] = wire[i + 1] /\ i + 1 \in 1 .. Len(wire)
    BY <1>1, WireTail
  <1>3. c = Len(got) + 1 /\ Len(got) + 1 <= worker.seen /\ got = Numbers(Len(got)) /\ Len(got) \in Nat
    BY <1>0, <1>1, <1>2 DEF ReadInv, StreamTypes
  <1> HIDE DEF c
  <1>4. got' = Append(got, c) => got' = Numbers(Len(got) + 1) /\ Len(got') = Len(got) + 1
    <2> DEFINE n == Len(got)
    <2>1. n \in Nat /\ c = n + 1 /\ got = Numbers(n)
      BY <1>3
    <2> HIDE DEF n
    <2>2. Append(Numbers(n), n + 1) = Numbers(n + 1)
      BY <2>1, NumbersProperties
    <2>3. n + 1 \in Nat
      BY <2>1
    <2>4. Len(Numbers(n + 1)) = n + 1
      BY <2>3, NumbersProperties
    <2> QED BY <2>1, <2>2, <2>4, Zenon DEF n
  <1>5. /\ got' = Append(got, c) \/ got' = got
        /\ (got' = Append(got, c) /\ relay' = relay) \/ relay' = [relay EXCEPT !.state = "aborted"]
    <2>1. c \in Nat
      BY <1>3
    <2> QED BY <1>1, <2>1, WriteOutcomes
  <1>6. got' = Numbers(Len(got')) /\ got' \in Seq(Nat)
    <2>1. Numbers(Len(got) + 1) \in Seq(Nat)
      BY <1>3, NumbersProperties
    <2> QED BY <1>0, <1>3, <1>4, <1>5, <2>1, Zenon DEF StreamTypes
  <1>10. StreamTypes' /\ (relay' = relay \/ relay'.state = "aborted")
    <2>1. relay' = [relay EXCEPT !.state = "aborted"] =>
            relay'.state = "aborted" /\ relay'.usage = relay.usage /\ relay'.bound = relay.bound
      BY <1>0 DEF StreamTypes
    <2>2. relay' \in [usage : Usages \cup {"pending"}, bound : BOOLEAN,
                      state : {"running", "complete", "written", "aborted", "worker_stream_incomplete",
                               "provider_stream_incomplete"}]
      BY <1>0, <1>5 DEF StreamTypes
    <2> QED BY <1>0, <1>1, <1>2, <1>5, <1>6, <2>1, <2>2 DEF StreamTypes
  <1>7. WorkerReads' /\ WireInv'
    BY <1>0, <1>1, <1>2 DEF WorkerReads, WireInv, Closed
  <1>8. EndInv'
    BY <1>0, <1>1, <1>6, <1>10 DEF EndInv
  <1>9. ReadInv'
    <2> SUFFICES ASSUME relay'.state = "running" PROVE ReadInv'
      BY DEF ReadInv
    <2>1. relay' = relay /\ Len(got') = Len(got) + 1
      <3>1. relay' # [relay EXCEPT !.state = "aborted"]
        BY <1>0 DEF StreamTypes
      <3> QED BY <1>4, <1>5, <3>1
    <2>2. ASSUME NEW i \in 1 .. Len(wire')
          PROVE  /\ wire'[i].event = "data" <=> Len(got') + i <= worker.seen
                 /\ wire'[i].event = "data" => wire'[i].chunk = Len(got') + i
      <3>1. /\ wire[i + 1].event = "data" <=> Len(got) + (i + 1) <= worker.seen
            /\ wire[i + 1].event = "data" => wire[i + 1].chunk = Len(got) + (i + 1)
        BY <1>0, <1>1, <1>2 DEF ReadInv
      <3> QED BY <1>2, <1>3, <2>1, <3>1
    <2>3. ASSUME NEW i \in 1 .. Len(wire'), wire'[i].event = "terminal"
          PROVE  i # 1 /\ wire'[i - 1].event = "usage"
      <3>1. wire[i].event = "usage"
        <4>1. i + 1 \in 1 .. Len(wire) /\ i + 1 # 1 /\ wire[i + 1].event = "terminal" /\ (i + 1) - 1 = i
          BY <1>2, <2>3
        <4> QED BY <1>0, <1>1, <4>1 DEF ReadInv
      <3>2. i # 1
        BY <1>1, <3>1
      <3>3. i - 1 \in 1 .. Len(wire') /\ (i - 1) + 1 = i
        BY <1>2, <3>2
      <3> QED BY <1>2, <3>1, <3>2, <3>3
    <2>4. /\ Len(got') <= worker.seen
          /\ worker.state = "running" /\ ~cut => Len(got') + Len(wire') = worker.seen
      BY <1>0, <1>1, <1>2, <1>3, <2>1 DEF ReadInv, StreamTypes
    <2> QED BY <1>1, <1>6, <2>2, <2>3, <2>4 DEF ReadInv
  <1> QED BY <1>7, <1>8, <1>9, <1>10 DEF StreamInv

\* A sideband is read: behind it there is no data, and behind the usage the end.
LEMMA SidebandReadKeeps ==
    ASSUME StreamInv, relay.state = "running", wire # <<>>, wire' = Tail(wire),
           UNCHANGED <<prov, eofOk, worker, cut, got>>,
           wire[1].event # "data",
           relay' \in [usage : Usages \cup {"pending"}, bound : BOOLEAN,
                       state : {"running", "complete", "worker_stream_incomplete",
                                "provider_stream_incomplete"}],
           relay'.state = "complete" => wire[1].event = "terminal" /\ relay'.usage = relay.usage,
           wire[1].event = "usage" => relay'.usage = wire[1].usage
    PROVE  StreamInv'
  <1>0. StreamTypes /\ WorkerReads /\ WireInv /\ ReadInv /\ EndInv
    BY DEF StreamInv
  <1>1. /\ Len(wire) \in Nat \ {0} /\ wire' \in Seq(Events) /\ Len(wire') = Len(wire) - 1
        /\ \A i \in 1 .. Len(wire') : wire'[i] = wire[i + 1] /\ i + 1 \in 1 .. Len(wire)
    BY WireTail
  <1>2. Len(got) = worker.seen /\ got = Numbers(Len(got)) /\ Len(got) \in Nat
    BY <1>0, <1>1 DEF ReadInv, StreamTypes
  <1>3. StreamTypes' /\ WorkerReads' /\ WireInv'
    BY <1>0, <1>1 DEF StreamTypes, WorkerReads, WireInv, Closed
  <1>4. EndInv'
    <2>1. ASSUME relay'.state = "complete" PROVE Completed' /\ got' = Numbers(prov'.sent)
      <3>1. Closed /\ relay.usage = worker.usage
        BY <1>0, <1>1, <2>1 DEF WireInv, ReadInv
      <3> QED BY <1>0, <1>2, <2>1, <3>1 DEF Closed, Completed, WorkerReads
    <2> QED BY <1>2, <2>1 DEF EndInv
  <1>5. ReadInv'
    <2>1. ASSUME NEW i \in 1 .. Len(wire')
          PROVE  wire'[i].event # "data" /\ ~(Len(got) + i <= worker.seen)
      BY <1>0, <1>1, <1>2 DEF ReadInv
    <2>2. ASSUME NEW i \in 1 .. Len(wire'), wire'[i].event = "terminal"
          PROVE  IF i = 1 THEN relay'.usage = worker.usage ELSE wire'[i - 1].event = "usage"
      <3>1. wire[i].event = "usage"
        <4>1. i + 1 \in 1 .. Len(wire) /\ i + 1 # 1 /\ wire[i + 1].event = "terminal" /\ (i + 1) - 1 = i
          BY <1>1, <2>2
        <4> QED BY <1>0, <4>1 DEF ReadInv
      <3>2. CASE i = 1
        BY <1>0, <1>1, <3>1, <3>2 DEF WireInv
      <3>3. CASE i # 1
        <4>1. i - 1 \in 1 .. Len(wire') /\ (i - 1) + 1 = i
          BY <1>1, <3>3
        <4> QED BY <1>1, <3>1, <3>3, <4>1
      <3> QED BY <3>2, <3>3
    <2>3. ~(worker.state = "running" /\ ~cut)
      BY <1>0, <1>1, <1>2, <2>1 DEF ReadInv, StreamTypes
    <2> QED BY <1>2, <2>1, <2>2, <2>3 DEF ReadInv
  <1> QED BY <1>3, <1>4, <1>5 DEF StreamInv

\* The relay reads usage, a binding, a terminal event or an error.
LEMMA RelayReadsKeeps ==
    ASSUME StreamInv, RelayUsage \/ RelayBinding \/ RelayTerminal \/ RelayError
    PROVE  StreamInv'
  <1>0. StreamTypes /\ WireInv
    BY DEF StreamInv
  <1>1. /\ relay.state = "running" /\ wire # <<>> /\ wire' = Tail(wire) /\ Head(wire) = wire[1]
        /\ UNCHANGED <<prov, eofOk, worker, cut, got>> /\ 1 \in 1 .. Len(wire)
    BY WireTail
    DEF RelayUsage, RelayBinding, RelayTerminal, RelayError, Reading, workerSide, clientSide
  <1>2. wire[1].event = "usage" => wire[1].usage \in Usages
    BY <1>0, <1>1 DEF WireInv, StreamTypes
  <1>3. CASE RelayUsage
    BY <1>0, <1>1, <1>2, <1>3, SidebandReadKeeps DEF RelayUsage, StreamTypes
  <1>4. CASE RelayBinding
    BY <1>0, <1>1, <1>4, SidebandReadKeeps DEF RelayBinding, StreamTypes
  <1>5. CASE RelayTerminal
    BY <1>0, <1>1, <1>5, SidebandReadKeeps DEF RelayTerminal, StreamTypes
  <1>6. CASE RelayError
    BY <1>0, <1>1, <1>6, SidebandReadKeeps DEF RelayError, StreamTypes
  <1> QED BY <1>3, <1>4, <1>5, <1>6

\* The relay settles, then writes [DONE].
LEMMA FinalizeKeeps == ASSUME StreamInv, FinalizeThenWriteDone PROVE StreamInv'
  <1>0. StreamTypes /\ WorkerReads /\ WireInv /\ ReadInv /\ EndInv
    BY DEF StreamInv
  <1>1. /\ relay.state = "complete" /\ UNCHANGED <<prov, eofOk, worker, wire, cut>>
        /\ WriteChunk(Done, [relay EXCEPT !.state = "written"]) /\ Done \in Nat
    BY DEF FinalizeThenWriteDone, workerSide, Done
  <1>2. Completed /\ got = Numbers(prov.sent) /\ Len(got) = prov.sent
    BY <1>0, <1>1, NumbersProperties DEF EndInv, StreamTypes
  <1>3. /\ got' = Append(got, Done) \/ got' = got
        /\ relay'.state \in {"written", "aborted"} /\ relay'.usage = relay.usage
        /\ relay' \in [usage : Usages \cup {"pending"}, bound : BOOLEAN, state : {"written", "aborted"}]
    <2> DEFINE onOk == [relay EXCEPT !.state = "written"]
    <2>1. \/ got' = Append(got, Done) /\ relay' = onOk
          \/ got' = Append(got, Done) /\ relay' = [onOk EXCEPT !.state = "aborted"]
          \/ got' = got /\ relay' = [onOk EXCEPT !.state = "aborted"]
      BY <1>1, WriteOutcomes
    <2>2. onOk = [usage |-> relay.usage, bound |-> relay.bound, state |-> "written"]
      BY <1>0 DEF StreamTypes
    <2> HIDE DEF onOk
    <2>3. [onOk EXCEPT !.state = "aborted"]
            = [usage |-> relay.usage, bound |-> relay.bound, state |-> "aborted"]
      BY <2>2
    <2> QED BY <1>0, <2>1, <2>2, <2>3 DEF StreamTypes
  <1>4. got' \in Seq(Nat)
    <2>1. Append(got, Done) \in Seq(Nat)
      BY <1>0, <1>1 DEF StreamTypes
    <2> QED BY <1>0, <1>3, <2>1 DEF StreamTypes
  <1>5. StreamTypes' /\ WorkerReads' /\ WireInv' /\ ReadInv'
    BY <1>0, <1>1, <1>3, <1>4 DEF StreamTypes, WorkerReads, WireInv, ReadInv, Closed
  <1>6. EndInv'
    BY <1>1, <1>2, <1>3 DEF EndInv, Completed, Closed
  <1> QED BY <1>5, <1>6 DEF StreamInv

\* The relay stops reading, or a socket event ends its write: what it had
\* written stays a prefix, and a [DONE] that was written stays true.
LEMMA StopKeeps ==
    ASSUME StreamInv, UNCHANGED <<prov, eofOk, worker, wire, cut, got>>,
           \/ relay' = relay
           \/ relay' = [relay EXCEPT !.state = "aborted"]
           \/ RelayEof
    PROVE  StreamInv'
  <1>0. StreamTypes /\ WorkerReads /\ WireInv /\ ReadInv /\ EndInv
    BY DEF StreamInv
  <1>1. /\ relay' = relay \/ relay'.state \in {"aborted", "worker_stream_incomplete"}
        /\ relay'.usage = relay.usage \/ relay.state = "running"
        /\ StreamTypes'
    <2>1. CASE relay' = relay
      BY <1>0, <2>1 DEF StreamTypes
    <2>2. CASE relay' = [relay EXCEPT !.state = "aborted"]
      <3>1. relay' = [usage |-> relay.usage, bound |-> relay.bound, state |-> "aborted"]
        BY <1>0, <2>2 DEF StreamTypes
      <3> QED BY <1>0, <3>1 DEF StreamTypes
    <2>3. CASE RelayEof
      <3>1. PICK st \in {"aborted", "worker_stream_incomplete"}, u \in Usages \cup {"pending"} :
              relay' = [relay EXCEPT !.state = st, !.usage = u]
        BY <1>0, <2>3 DEF RelayEof, StreamTypes, Usages
      <3>2. relay' = [usage |-> u, bound |-> relay.bound, state |-> st]
        BY <1>0, <3>1 DEF StreamTypes
      <3> QED BY <1>0, <2>3, <3>2 DEF StreamTypes, RelayEof
    <2> QED BY <2>1, <2>2, <2>3
  <1>2. WorkerReads' /\ WireInv' /\ ReadInv'
    BY <1>0, <1>1 DEF WorkerReads, WireInv, ReadInv, Closed
  <1>3. EndInv'
    BY <1>0, <1>1 DEF EndInv, ReadInv, Completed, Closed
  <1> QED BY <1>1, <1>2, <1>3 DEF StreamInv

\* Every step of the stream keeps the invariant.
LEMMA StreamInvNext == StreamInv /\ [StreamNext]_streamVars => StreamInv'
  <1> SUFFICES ASSUME StreamInv, [StreamNext]_streamVars PROVE StreamInv'
    OBVIOUS
  <1>1. CASE RelayEof \/ SocketDrains \/ SocketDies \/ SocketCloses \/ UNCHANGED streamVars
    BY <1>1, StopKeeps
    DEF RelayEof, SocketDrains, SocketDies, SocketCloses, Wake, streamVars, workerSide, clientSide
  <1> QED
    BY <1>1, ProviderKeeps, ForwardKeeps, CompletesKeeps, TruncatesKeeps, BreakKeeps, DataKeeps,
       RelayReadsKeeps, FinalizeKeeps
    DEF StreamNext

\* The relay writes [DONE] only after every chunk the provider sent, with the
\* usage the provider reported, over a wire that can be cut at any event, for
\* any number of chunks.
THEOREM DoneIsTruthful == StreamSpec => []DoneMeansComplete
  <1>1. StreamInit => StreamInv
    <2> SUFFICES ASSUME StreamInit PROVE StreamInv
      OBVIOUS
    <2>1. StreamTypes
      <3>1. <<>> \in Seq(Events) /\ <<>> \in Seq(Nat)
        BY EmptySeq
      <3> QED BY <3>1 DEF StreamInit, StreamTypes, Usages
    <2>2. got = Numbers(Len(got))
      BY NumbersProperties, SeqEqual DEF StreamInit
    <2> QED BY <2>1, <2>2 DEF StreamInit, StreamInv, WorkerReads, WireInv, ReadInv, EndInv
  <1>2. StreamInv => DoneMeansComplete
    <2> SUFFICES ASSUME StreamInv PROVE DoneMeansComplete
      OBVIOUS
    <2>1. prov.sent \in Nat /\ got \in Seq(Nat) /\ Len(got) \in Nat
      BY DEF StreamInv, StreamTypes
    <2>2. CASE got = Numbers(Len(got))
      <3>1. got # <<>> => got[Len(got)] # Done
        <4> DEFINE n == Len(got)
        <4>1. got # <<>> => n \in 1 .. n
          BY <2>1, EmptySeq
        <4>2. n \in Nat /\ got = Numbers(n)
          BY <2>1, <2>2
        <4> HIDE DEF n
        <4>3. \A k \in 1 .. n : got[k] = k
          BY <4>2, NumbersProperties
        <4>4. got # <<>> => got[n] = n /\ n # 0
          BY <4>1, <4>2, <4>3
        <4> QED BY <4>4 DEF Done, n
      <3> QED BY <2>2, <3>1 DEF DoneMeansComplete
    <2>3. CASE Completed /\ got = Append(Numbers(prov.sent), Done)
      <3>1. Len(got) = prov.sent + 1 /\ got[Len(got)] = Done
        <4> DEFINE s == Numbers(prov.sent)
        <4>1. s \in Seq(Nat) /\ Len(s) = prov.sent /\ got = Append(s, Done) /\ Done \in Nat
          BY <2>1, <2>3, NumbersProperties DEF Done
        <4> HIDE DEF s
        <4>2. Len(Append(s, Done)) = Len(s) + 1 /\ Append(s, Done)[Len(s) + 1] = Done
          BY <4>1
        <4> QED BY <2>1, <4>1, <4>2
      <3> QED BY <2>1, <2>3, <3>1 DEF DoneMeansComplete, Completed, Closed
    <2> QED BY <2>2, <2>3 DEF StreamInv, EndInv
  <1> QED BY <1>1, <1>2, StreamInvNext, PTL DEF StreamSpec

-----------------------------------------------------------------------------
\* Row locks: every transaction asks for them in ascending rank.

LocksSpec == LocksInit /\ [][LocksNext]_lockVars

Tables == {"providers", "inference_reservations", "balances", "trial_entitlements",
           "trial_pool_days", "trial_pool_user_days", "grants", "api_keys",
           "account_daily_budget_usage"}
Locks == [table : Tables, of : Accounts \cup {"all"}, mode : {"update", "share"}]

\* The order in which every transaction takes its locks.
Rank(k) ==
    CASE k.table = "providers" -> 1
      [] k.table = "inference_reservations" -> 2
      [] k.table = "balances" -> 3
      [] k.table = "trial_entitlements" -> 4
      [] k.table = "trial_pool_days" -> 5
      [] k.table = "trial_pool_user_days" -> 6
      [] k.table = "grants" -> 7
      [] k.table = "api_keys" -> 8
      [] k.table = "account_daily_budget_usage" -> 9

\* A sequence of locks in that order, with ranks above lo and up to hi.
Ascends(s, lo, hi) ==
    /\ s \in Seq(Locks)
    /\ \A i \in 1 .. Len(s) : lo < Rank(s[i]) /\ Rank(s[i]) <= hi
    /\ \A i, j \in 1 .. Len(s) : i < j => Rank(s[i]) < Rank(s[j])

LocksInv ==
    /\ todo \in [Txns -> Seq(Locks)]
    /\ held \in [Txns -> SUBSET Locks]
    /\ \A t \in Txns : Ascends(todo[t], 0, 9)
    /\ \A t \in Txns : \A k \in held[t] : \A i \in 1 .. Len(todo[t]) : Rank(k) < Rank(todo[t][i])

\* Every lock has a rank.
LEMMA RankType == ASSUME NEW k \in Locks PROVE Rank(k) \in 1 .. 9
  BY DEF Locks, Tables, Rank

\* A plan without locks ascends,
LEMMA AscendsEmpty == ASSUME NEW lo, NEW hi PROVE Ascends(<<>>, lo, hi)
  BY EmptySeq DEF Ascends

\* so does a plan of one,
LEMMA AscendsOne ==
    ASSUME NEW k \in Locks, NEW lo \in Nat, NEW hi \in Nat, lo < Rank(k), Rank(k) <= hi
    PROVE  Ascends(<<k>>, lo, hi)
  <1>1. <<k>> \in Seq(Locks) /\ Len(<<k>>) = 1 /\ <<k>>[1] = k
    OBVIOUS
  <1> QED BY <1>1 DEF Ascends

\* two plans whose ranks lie apart do, one after the other,
LEMMA AscendsConcat ==
    ASSUME NEW s, NEW u, NEW lo \in Nat, NEW mid \in Nat, NEW hi \in Nat, lo <= mid, mid <= hi,
           Ascends(s, lo, mid), Ascends(u, mid, hi)
    PROVE  Ascends(s \o u, lo, hi)
  <1>1. s \in Seq(Locks) /\ u \in Seq(Locks) /\ Len(s) \in Nat /\ Len(u) \in Nat
    BY LenProperties DEF Ascends
  <1>2. /\ s \o u \in Seq(Locks) /\ Len(s \o u) = Len(s) + Len(u)
        /\ \A i \in 1 .. Len(s) + Len(u) : (s \o u)[i] = IF i <= Len(s) THEN s[i] ELSE u[i - Len(s)]
    BY <1>1, ConcatProperties
  <1> DEFINE w == s \o u
  <1>3. /\ \A i \in 1 .. Len(s) : Rank(s[i]) \in Nat /\ lo < Rank(s[i]) /\ Rank(s[i]) <= mid
        /\ \A i \in 1 .. Len(u) : Rank(u[i]) \in Nat /\ mid < Rank(u[i]) /\ Rank(u[i]) <= hi
    <2>1. /\ \A i \in 1 .. Len(s) : Rank(s[i]) \in Nat
          /\ \A i \in 1 .. Len(u) : Rank(u[i]) \in Nat
      <3>1. \A k \in Locks : Rank(k) \in Nat
        BY RankType
      <3> QED BY <1>1, <3>1, ElementOfSeq
    <2>2. \A i \in 1 .. Len(s) : lo < Rank(s[i]) /\ Rank(s[i]) <= mid
      BY DEF Ascends
    <2>3. \A i \in 1 .. Len(u) : mid < Rank(u[i]) /\ Rank(u[i]) <= hi
      BY DEF Ascends
    <2> QED BY <2>1, <2>2, <2>3
  <1>4. ASSUME NEW i \in 1 .. Len(w)
        PROVE  \/ i \in 1 .. Len(s) /\ w[i] = s[i]
               \/ i - Len(s) \in 1 .. Len(u) /\ w[i] = u[i - Len(s)]
    BY <1>1, <1>2
  <1> HIDE DEF w
  <1>5. ASSUME NEW i \in 1 .. Len(w) PROVE lo < Rank(w[i]) /\ Rank(w[i]) <= hi
    <2>1. CASE i \in 1 .. Len(s) /\ w[i] = s[i]
      BY <1>3, <2>1
    <2>2. CASE i - Len(s) \in 1 .. Len(u) /\ w[i] = u[i - Len(s)]
      BY <1>3, <2>2
    <2> QED BY <1>4, <2>1, <2>2
  <1>6. ASSUME NEW i \in 1 .. Len(w), NEW j \in 1 .. Len(w), i < j PROVE Rank(w[i]) < Rank(w[j])
    <2>1. CASE j \in 1 .. Len(s)
      <3>1. i \in 1 .. Len(s) /\ w[i] = s[i] /\ w[j] = s[j]
        BY <1>1, <1>4, <1>6, <2>1
      <3> QED BY <1>6, <2>1, <3>1 DEF Ascends
    <2>2. CASE j - Len(s) \in 1 .. Len(u) /\ w[j] = u[j - Len(s)]
      <3>1. CASE i \in 1 .. Len(s) /\ w[i] = s[i]
        BY <1>3, <2>2, <3>1
      <3>2. CASE i - Len(s) \in 1 .. Len(u) /\ w[i] = u[i - Len(s)]
        <4>1. i - Len(s) < j - Len(s)
          BY <1>1, <1>6
        <4> QED BY <2>2, <3>2, <4>1 DEF Ascends
      <3> QED BY <1>4, <3>1, <3>2
    <2> QED BY <1>4, <2>1, <2>2
  <1> QED BY <1>2, <1>5, <1>6 DEF Ascends, w

\* and the bounds may be widened.
LEMMA AscendsWider ==
    ASSUME NEW s, NEW lo \in Nat, NEW hi \in Nat, NEW l \in Nat, NEW h \in Nat, l <= lo, hi <= h,
           Ascends(s, lo, hi)
    PROVE  Ascends(s, l, h)
  <1>1. \A i \in 1 .. Len(s) : Rank(s[i]) \in 1 .. 9
    BY ElementOfSeq, RankType DEF Ascends
  <1> QED BY <1>1 DEF Ascends

\* The ranks of the rows the transactions lock.
LEMMA RowRanks ==
    ASSUME NEW a \in Accounts
    PROVE  /\ \A t \in Tables : Update(t, a) \in Locks /\ Global(t) \in Locks /\ Shared(t) \in Locks
           /\ Rank(Shared("providers")) = 1 /\ Rank(Global("providers")) = 1
           /\ Rank(Update("inference_reservations", a)) = 2
           /\ Rank(Update("balances", a)) = 3
           /\ Rank(Update("trial_entitlements", a)) = 4
           /\ Rank(Global("trial_pool_days")) = 5
           /\ Rank(Update("trial_pool_user_days", a)) = 6
           /\ Rank(Update("grants", a)) = 7
           /\ Rank(Update("api_keys", a)) = 8
           /\ Rank(Update("account_daily_budget_usage", a)) = 9
  BY DEF Locks, Rank, Update, Global, Shared, Lock

\* A pair is two plans of one lock.
LEMMA Pairs == ASSUME NEW x, NEW y PROVE <<x, y>> = <<x>> \o <<y>>
  <1>1. <<x>> \in Seq({x, y}) /\ <<y>> \in Seq({x, y}) /\ <<x, y>> \in Seq({x, y})
    OBVIOUS
  <1>2. /\ <<x>> \o <<y>> \in Seq({x, y}) /\ Len(<<x>> \o <<y>>) = 2
        /\ \A i \in 1 .. 2 : (<<x>> \o <<y>>)[i] = IF i <= 1 THEN <<x>>[i] ELSE <<y>>[i - 1]
    BY <1>1, ConcatProperties
  <1>3. \A i \in 1 .. 2 : (<<x>> \o <<y>>)[i] = <<x, y>>[i]
    BY <1>2
  <1> QED BY <1>1, <1>2, <1>3, SeqEqual

\* Two locks of ascending rank.
LEMMA AscendsTwo ==
    ASSUME NEW k \in Locks, NEW l \in Locks, NEW lo \in Nat, NEW hi \in Nat,
           lo < Rank(k), Rank(k) < Rank(l), Rank(l) <= hi
    PROVE  Ascends(<<k, l>>, lo, hi)
  <1>1. Rank(k) \in 1 .. 9 /\ Rank(l) \in 1 .. 9
    BY RankType
  <1>2. Ascends(<<k>>, lo, Rank(k)) /\ Ascends(<<l>>, Rank(k), hi)
    BY <1>1, AscendsOne
  <1>3. Ascends(<<k>> \o <<l>>, lo, hi)
    BY <1>1, <1>2, AscendsConcat
  <1> QED BY <1>3, Pairs

\* What the parts of the transactions lock.
LEMMA BalanceAscends == ASSUME NEW a \in Accounts PROVE Ascends(Balance(a), 2, 3)
  BY RowRanks, AscendsOne, AscendsEmpty DEF Balance, Tables

\* the key and its grant,
LEMMA KeysAscend ==
    ASSUME NEW a \in Accounts, NEW c \in BOOLEAN PROVE Ascends(KeyLocks(a, c), 6, 8)
  BY RowRanks, AscendsOne, AscendsTwo DEF KeyLocks, Tables

\* the pool day and the user day,
LEMMA PoolAscends ==
    ASSUME NEW a \in Accounts
    PROVE  Ascends(<<Global("trial_pool_days"), Update("trial_pool_user_days", a)>>, 4, 6)
  BY RowRanks, AscendsTwo DEF Tables

\* the source a reservation is paid from.
LEMMA FundsAscend ==
    ASSUME NEW a \in Accounts, NEW f \in Fundings PROVE Ascends(ReserveFunds(a, f), 2, 6)
  <1> DEFINE rest == CASE f = "trial"      -> <<Update("trial_entitlements", a)>>
                       [] f = "trial_pool" -> <<Global("trial_pool_days"), Update("trial_pool_user_days", a)>>
                       [] f = "balance"    -> <<>>
  <1>1. Ascends(rest, 3, 6)
    <2>1. CASE f = "trial"
      BY <2>1, RowRanks, AscendsOne DEF Tables
    <2>2. CASE f = "trial_pool"
      BY <2>2, PoolAscends, AscendsWider
    <2>3. CASE f = "balance"
      BY <2>3, AscendsEmpty
    <2> QED BY <2>1, <2>2, <2>3 DEF Fundings
  <1> HIDE DEF rest
  <1>2. Ascends(Balance(a) \o rest, 2, 6)
    BY <1>1, BalanceAscends, AscendsConcat
  <1> QED BY <1>2 DEF ReserveFunds, rest

\* reserveBalance,
LEMMA ReserveAscends ==
    ASSUME NEW a \in Accounts, NEW f \in Fundings, NEW c \in BOOLEAN
    PROVE  Ascends(ReservePlan(a, f, c), 0, 9)
  <1>1. Ascends(ReserveFunds(a, f) \o KeyLocks(a, c), 2, 8)
    BY FundsAscend, KeysAscend, AscendsConcat
  <1> QED BY <1>1, AscendsWider DEF ReservePlan

\* the wallet path of a settlement,
LEMMA WalletAscends ==
    ASSUME NEW a \in Accounts PROVE Ascends(Balance(a) \o <<Update("api_keys", a)>>, 2, 8)
  <1>1. Ascends(<<Update("api_keys", a)>>, 3, 8)
    BY RowRanks, AscendsOne DEF Tables
  <1> QED BY <1>1, BalanceAscends, AscendsConcat

\* finalizeInferenceReservation,
LEMMA FinalizeAscends ==
    ASSUME NEW a \in Accounts, NEW f \in Fundings PROVE Ascends(FinalizePlan(a, f), 0, 9)
  <1> DEFINE first == <<Update("inference_reservations", a)>>
             funds == (CASE f = "trial"      -> <<Update("trial_entitlements", a)>>
                         [] f = "trial_pool" -> SettlePool(a)
                         [] f = "balance"    -> Balance(a) \o <<Update("api_keys", a)>>)
             last == <<Update("account_daily_budget_usage", a)>>
  <1>1. Ascends(first, 0, 2) /\ Ascends(last, 8, 9)
    BY RowRanks, AscendsOne DEF Tables
  <1>2. Ascends(funds, 2, 8)
    <2>1. CASE f = "trial"
      BY <2>1, RowRanks, AscendsOne DEF Tables
    <2>2. CASE f = "trial_pool"
      BY <2>2, PoolAscends, AscendsWider DEF SettlePool
    <2>3. CASE f = "balance"
      BY <2>3, WalletAscends
    <2> QED BY <2>1, <2>2, <2>3 DEF Fundings
  <1>3. FinalizePlan(a, f) = first \o funds \o last
    BY DEF FinalizePlan
  <1> HIDE DEF first, funds, last
  <1>4. Ascends(first \o funds, 0, 8)
    BY <1>1, <1>2, AscendsConcat
  <1>5. Ascends((first \o funds) \o last, 0, 9)
    BY <1>1, <1>4, AscendsConcat
  <1> QED BY <1>3, <1>5

\* Every transaction of the ledger takes its row locks in the order of Rank.
LEMMA PlansAscend == ASSUME NEW p \in Plans PROVE Ascends(p, 0, 9)
  <1>1. ASSUME NEW a \in Accounts PROVE Ascends(ReconcilePlan(a), 0, 9)
    <2>1. Ascends(<<Update("inference_reservations", a)>>, 0, 2)
      BY RowRanks, AscendsOne DEF Tables
    <2>2. Ascends(<<Update("inference_reservations", a)>> \o (Balance(a) \o <<Update("api_keys", a)>>), 0, 8)
      BY <2>1, WalletAscends, AscendsConcat
    <2>3. ReconcilePlan(a) = <<Update("inference_reservations", a)>> \o (Balance(a) \o <<Update("api_keys", a)>>)
      <3>1. /\ <<Update("inference_reservations", a)>> \in Seq(Locks) /\ Balance(a) \in Seq(Locks)
            /\ <<Update("api_keys", a)>> \in Seq(Locks)
        BY <2>1, BalanceAscends, RowRanks DEF Ascends, Tables
      <3> QED BY <3>1, ConcatAssociative DEF ReconcilePlan
    <2> QED BY <2>2, <2>3, AscendsWider
  <1>2. ASSUME NEW a \in Accounts
        PROVE  /\ Ascends(AttemptPlan(a), 0, 9) /\ Ascends(DailyPlan(a), 0, 9)
               /\ Ascends(DeliveryPlan(a), 0, 9) /\ Ascends(CreditPlan(a), 0, 9)
    <2>1. Ascends(AttemptPlan(a), 0, 9)
      BY RowRanks, AscendsTwo DEF AttemptPlan, Tables
    <2>2. Ascends(DailyPlan(a), 0, 9) /\ Ascends(DeliveryPlan(a), 0, 9)
      BY RowRanks, AscendsOne DEF DailyPlan, DeliveryPlan, Tables
    <2>3. Ascends(CreditPlan(a), 0, 9)
      BY BalanceAscends, AscendsWider DEF CreditPlan
    <2> QED BY <2>1, <2>2, <2>3
  <1>3. Ascends(DisablePlan, 0, 9)
    <2>1. Global("providers") \in Locks /\ Rank(Global("providers")) = 1
      BY DEF Global, Lock, Locks, Tables, Rank
    <2> QED BY <2>1, AscendsOne DEF DisablePlan
  <1> QED BY <1>1, <1>2, <1>3, ReserveAscends, FinalizeAscends, LockAssumption DEF Plans

\* A set of ranks has a largest one.
LEMMA LargestRank ==
    ASSUME NEW S, S \subseteq 1 .. 9, S # {} PROVE \E m \in S : \A x \in S : x <= m
  <1>1. \A n \in 0 .. 9 : S \cap 1 .. n # {} => \E m \in S \cap 1 .. n : \A x \in S \cap 1 .. n : x <= m
    <2> DEFINE P(n) == S \cap 1 .. n # {} => \E m \in S \cap 1 .. n : \A x \in S \cap 1 .. n : x <= m
    <2>1. P(0)
      OBVIOUS
    <2>2. ASSUME NEW n \in 0 .. 8, P(n) PROVE P(n + 1)
      <3>1. CASE n + 1 \in S
        <4>1. \A x \in S \cap 1 .. n + 1 : x <= n + 1
          OBVIOUS
        <4> QED BY <3>1, <4>1
      <3>2. CASE n + 1 \notin S
        <4>1. S \cap 1 .. n + 1 = S \cap 1 .. n
          BY <3>2
        <4> QED BY <2>2, <4>1
      <3> QED BY <3>1, <3>2
    <2> HIDE DEF P
    <2>3. P(1) /\ P(2) /\ P(3) /\ P(4) /\ P(5) /\ P(6) /\ P(7) /\ P(8) /\ P(9)
      BY <2>1, <2>2
    <2>4. \A n \in 0 .. 9 : P(n)
      BY <2>1, <2>3
    <2> QED BY <2>4 DEF P
  <1>2. S \cap 1 .. 9 = S
    OBVIOUS
  <1> QED BY <1>1, <1>2

\* Every step keeps each transaction on its plan.
LEMMA LocksInvNext == LocksInv /\ [LocksNext]_lockVars => LocksInv'
  <1> SUFFICES ASSUME LocksInv, [LocksNext]_lockVars PROVE LocksInv'
    OBVIOUS
  <1>1. ASSUME NEW t \in Txns, Begin(t) PROVE LocksInv'
    <2>1. PICK p \in Plans : todo' = [todo EXCEPT ![t] = p]
      BY <1>1 DEF Begin
    <2>2. Ascends(p, 0, 9) /\ p \in Seq(Locks) /\ held' = held /\ held[t] = {}
      BY <1>1, PlansAscend DEF Begin, Ascends
    <2> QED BY <2>1, <2>2 DEF LocksInv
  <1>2. ASSUME NEW t \in Txns, TakeLock(t) PROVE LocksInv'
    <2> DEFINE s == todo[t]
    <2>1. s \in Seq(Locks) /\ s # <<>> /\ Ascends(s, 0, 9)
      BY <1>2 DEF LocksInv, TakeLock
    <2>2. /\ todo' = [todo EXCEPT ![t] = Tail(s)]
          /\ held' = [held EXCEPT ![t] = held[t] \cup {Head(s)}]
      BY <1>2 DEF TakeLock
    <2>3. \A k \in held[t] : \A i \in 1 .. Len(s) : Rank(k) < Rank(s[i])
      BY DEF LocksInv
    <2> HIDE DEF s
    <2>4. /\ Head(s) = s[1] /\ Head(s) \in Locks /\ Tail(s) \in Seq(Locks)
          /\ Len(s) \in Nat \ {0} /\ Len(Tail(s)) = Len(s) - 1
          /\ \A i \in 1 .. Len(Tail(s)) : Tail(s)[i] = s[i + 1]
      BY <2>1, HeadTailProperties, EmptySeq
    <2>5. ASSUME NEW i \in 1 .. Len(Tail(s))
          PROVE  i + 1 \in 1 .. Len(s) /\ Tail(s)[i] = s[i + 1]
      BY <2>4
    <2>6. Ascends(Tail(s), 0, 9)
      <3>1. ASSUME NEW i \in 1 .. Len(Tail(s)), NEW j \in 1 .. Len(Tail(s)), i < j
            PROVE  Rank(Tail(s)[i]) < Rank(Tail(s)[j])
        <4>1. i + 1 < j + 1
          BY <2>4, <3>1
        <4> QED BY <2>1, <2>5, <4>1 DEF Ascends
      <3> QED BY <2>1, <2>4, <2>5, <3>1 DEF Ascends
    <2>7. \A i \in 1 .. Len(Tail(s)) : Rank(Head(s)) < Rank(Tail(s)[i])
      <3> TAKE i \in 1 .. Len(Tail(s))
      <3>1. 1 \in 1 .. Len(s) /\ 1 < i + 1
        BY <2>4
      <3> QED BY <2>1, <2>4, <2>5, <3>1 DEF Ascends
    <2>8. \A k \in held[t] : \A i \in 1 .. Len(Tail(s)) : Rank(k) < Rank(Tail(s)[i])
      BY <2>3, <2>5
    <2> QED BY <2>2, <2>4, <2>6, <2>7, <2>8 DEF LocksInv
  <1>3. ASSUME NEW t \in Txns, EndTxn(t) PROVE LocksInv'
    <2>1. <<>> \in Seq(Locks) /\ Ascends(<<>>, 0, 9)
      BY AscendsEmpty DEF Ascends
    <2> QED BY <1>3, <2>1 DEF EndTxn, LocksInv
  <1>4. CASE UNCHANGED lockVars
    BY <1>4 DEF lockVars, LocksInv
  <1> QED BY <1>1, <1>2, <1>3, <1>4 DEF LocksNext

\* metering/billing.ts and rate-limit/plans.ts: however many transactions run at
\* once, none waits for itself, because each locks rows in ascending rank.
THEOREM LocksCannotDeadlock == LocksSpec => []NoDeadlock
  <1>1. LocksInit => LocksInv
    <2>1. <<>> \in Seq(Locks) /\ Ascends(<<>>, 0, 9)
      BY AscendsEmpty DEF Ascends
    <2> QED BY <2>1 DEF LocksInit, LocksInv
  <1>2. LocksInv => NoDeadlock
    <2> SUFFICES ASSUME LocksInv, NEW D \in SUBSET Txns, D # {}
                 PROVE  \E t \in D : \A u \in D : ~Blocks(u, t)
      BY DEF NoDeadlock
    <2>1. CASE \E t \in D : todo[t] = <<>>
      BY <2>1 DEF Blocks
    <2>2. CASE \A t \in D : todo[t] # <<>>
      <3>1. ASSUME NEW t \in D
            PROVE  Head(todo[t]) \in Locks /\ Head(todo[t]) = todo[t][1] /\ 1 \in 1 .. Len(todo[t])
        BY <2>2, HeadTailProperties, EmptySeq DEF LocksInv
      <3> DEFINE S == {Rank(Head(todo[t])) : t \in D}
      <3>2. S \subseteq 1 .. 9 /\ S # {}
        BY <3>1, RankType
      <3>3. PICK m \in S : \A x \in S : x <= m
        BY <3>2, LargestRank
      <3>4. PICK t \in D : m = Rank(Head(todo[t]))
        OBVIOUS
      <3>5. ASSUME NEW u \in D, Blocks(u, t) PROVE FALSE
        <4>1. PICK k \in held[u] : k.table = Head(todo[t]).table
          BY <3>5 DEF Blocks, Conflict
        <4>2. Rank(k) = Rank(Head(todo[t]))
          BY <4>1 DEF Rank
        <4>3. Rank(k) < Rank(Head(todo[u]))
          BY <3>1 DEF LocksInv
        <4>4. Rank(Head(todo[u])) <= Rank(Head(todo[t]))
          BY <3>3, <3>4
        <4>5. Rank(Head(todo[u])) \in 1 .. 9 /\ Rank(Head(todo[t])) \in 1 .. 9
          BY <3>1, RankType
        <4> QED BY <4>2, <4>3, <4>4, <4>5
      <3> QED BY <3>5
    <2> QED BY <2>1, <2>2
  <1> QED BY <1>1, <1>2, LocksInvNext, PTL DEF LocksSpec

-----------------------------------------------------------------------------
\* The compatibility broker.

BrokerSpec == BrokerInit /\ [][BrokerNext]_brokerVars

\* What has become of candidate i at the relay, as far as the next one cares:
\* nothing reached it, or it answered with an error that another model may
\* escape and holds nothing that control was told to release.
PassedOver(i) ==
    \/ relaySide[i] = "idle"
    \/ relaySide[i] = "over" /\ answer[i] \in MintCodes

BrokerInv ==
    /\ broker = [pc |-> broker.pc, cands |-> broker.cands, at |-> broker.at]
    /\ broker.at \in Nat
    /\ DOMAIN tickets = Positions /\ DOMAIN relaySide = Positions
    /\ DOMAIN hold = Positions /\ DOMAIN answer = Positions
    /\ \A i \in Positions :
          /\ i > broker.at => tickets[i] = "none" /\ relaySide[i] = "idle"
          /\ i = broker.at /\ broker.pc \in {"admit", "mint", "forward"} => relaySide[i] = "idle"
          /\ i < broker.at => PassedOver(i)
          /\ relaySide[i] = "idle" => hold[i] = "none" /\ answer[i] = "none"
          /\ relaySide[i] = "working" => answer[i] = "none"
          /\ answer[i] \in MintCodes => relaySide[i] = "over"
          /\ answer[i] \in MintCodes => hold[i] \in {"none", "released"} \/ i \in abortLost \cup settleLost

\* A thrown error ends the request or goes on to the next candidate, and only
\* after the one code that a model can escape.
LEMMA ThrowOutcomes ==
    ASSUME BrokerInv, NEW code, Throw(code)
    PROVE  /\ broker' = [pc |-> broker'.pc, cands |-> broker'.cands, at |-> broker'.at]
           /\ \/ broker'.pc = "done" /\ broker'.at = broker.at
              \/ broker'.pc = "mint" /\ broker'.at = broker.at + 1 /\ code = "no_route"
  BY DEF Throw, CrossModelFallbackEligible, BrokerInv

\* Every step of the broker keeps the invariant.
LEMMA BrokerInvNext == BrokerInv /\ [BrokerNext]_brokerVars => BrokerInv'
  <1> SUFFICES ASSUME BrokerInv, [BrokerNext]_brokerVars PROVE BrokerInv'
    OBVIOUS
  <1> USE DEF BrokerInv, PassedOver, Positions, MaxFallbacks, MintCodes, relayVars, lost
  <1>1. CASE RefuseCompat
    BY <1>1 DEF RefuseCompat
  <1>2. CASE AdmitCompat
    BY <1>2 DEF AdmitCompat
  <1>3. CASE MintTicket
    BY <1>3 DEF MintTicket
  <1>4. CASE MintFails
    BY <1>4, ThrowOutcomes DEF MintFails
  <1>5. CASE Forward
    BY <1>5 DEF Forward
  <1>6. CASE RelayUnavailable
    BY <1>6, ThrowOutcomes DEF RelayUnavailable
  <1>7. CASE GiveUpCompat
    BY <1>7 DEF GiveUpCompat
  <1>8. CASE ReadError
    BY <1>8, ThrowOutcomes DEF ReadError
  <1>9. CASE ReadJson
    BY <1>9, ThrowOutcomes DEF ReadJson
  <1>10. CASE ReadHead
    BY <1>10 DEF ReadHead
  <1>11. CASE ReadBody
    BY <1>11 DEF ReadBody
  <1>12. CASE ClientLeaves
    BY <1>12 DEF ClientLeaves
  <1>13. ASSUME NEW i \in Positions,
                \/ RelayTurnsAway(i) \/ RelayAuthorizes(i) \/ RelayLosesAuthorization(i) \/ RelayFails(i)
                \/ RelaySettlesJson(i) \/ RelayLosesSettleAnswer(i) \/ RelayStreams(i) \/ RelayEndsStream(i)
                \/ RelayLosesCaller(i) \/ SweepHold(i)
         PROVE  BrokerInv'
    <2> USE DEF Step, LosesFinalization
    <2>1. CASE RelayTurnsAway(i)
      BY <2>1 DEF RelayTurnsAway
    <2>2. CASE RelayAuthorizes(i)
      BY <2>2 DEF RelayAuthorizes
    <2>3. CASE RelayFails(i)
      BY <2>3 DEF RelayFails
    <2>4. CASE RelaySettlesJson(i)
      BY <2>4 DEF RelaySettlesJson
    <2>5. CASE RelayStreams(i)
      BY <2>5 DEF RelayStreams
    <2>6. CASE RelayEndsStream(i)
      BY <2>6 DEF RelayEndsStream
    <2>7. CASE RelayLosesCaller(i)
      BY <2>7 DEF RelayLosesCaller
    <2>8. CASE SweepHold(i)
      BY <2>8 DEF SweepHold
    <2>9. CASE RelayLosesAuthorization(i)
      BY <2>9 DEF RelayLosesAuthorization
    <2>10. CASE RelayLosesSettleAnswer(i)
      BY <2>10 DEF RelayLosesSettleAnswer
    <2> QED BY <1>13, <2>1, <2>2, <2>3, <2>4, <2>5, <2>6, <2>7, <2>8, <2>9, <2>10
  <1>14. CASE UNCHANGED brokerVars
    BY <1>14 DEF brokerVars
  <1> QED BY <1>1, <1>2, <1>3, <1>4, <1>5, <1>6, <1>7, <1>8, <1>9, <1>10, <1>11, <1>12, <1>13, <1>14
          DEF BrokerNext

\* For any list of candidate models, the broker makes no second attempt after one
\* that was charged, unless the relay lost a call that finalizes the first or the
\* answer to its settle.
THEOREM ClientIsChargedOnce == BrokerSpec => []ChargedOnce
  <1>1. BrokerInit => BrokerInv
    BY DEF BrokerInit, BrokerInv, PassedOver, Positions, MaxFallbacks, MintCodes
  <1>2. BrokerInv => ChargedOnce
    BY DEF BrokerInv, ChargedOnce, PassedOver, Positions, MaxFallbacks, MintCodes
  <1> QED BY <1>1, <1>2, BrokerInvNext, PTL DEF BrokerSpec

-----------------------------------------------------------------------------
\* The pinned transport.

TlsSpec == TlsInit /\ [][TlsNext]_tlsVars

TlsStages == {"idle", "want", "loading", "waiting", "connecting", "inflight", "done", "failed", "cut", "unverified"}
Verdicts == {"none", "unused", "pending", "ok", "failed"}

TlsRecord ==
    [pc : TlsStages, load : Loads \cup {NoLoad}, retried : BOOLEAN, joined : Verdicts, sentKey : Nat, age : Nat]
LoadRecord == [status : {"unused", "pending", "ok", "failed"}, key : Nat, at : Nat]

TlsTypes ==
    /\ tlsTime \in Nat /\ liveKey \in Nat /\ expires \in Nat
    /\ load \in [Loads -> LoadRecord]
    /\ shared \in Loads \cup {NoLoad}
    /\ tls \in [TlsRequests -> TlsRecord]
    /\ \A i \in Loads : load[i].at <= tlsTime

\* The kept promise is pending, or settled and kept for the retention time
\* from its settlement on.
PromiseInv ==
    shared # NoLoad =>
        /\ load[shared].status \in {"pending", "ok"}
        /\ load[shared].status = "ok" => expires = load[shared].at + VerificationTtl

\* A request past its verification holds one that succeeded, taken in time.
RequestInv ==
    \A r \in TlsRequests :
      /\ tls[r].age < VerificationTtl /\ tls[r].joined # "failed"
      /\ tls[r].pc \in {"connecting", "inflight", "done"} =>
            tls[r].load \in Loads /\ load[tls[r].load].status = "ok"
      /\ tls[r].pc \in {"loading", "waiting"} => tls[r].load \in Loads
      /\ tls[r].pc \in {"inflight", "done"} => tls[r].sentKey = load[tls[r].load].key

TlsInv == TlsTypes /\ PromiseInv /\ RequestInv

\* Every step of the transport keeps the types.
LEMMA TlsTypesNext == TlsTypes /\ [TlsNext]_tlsVars => TlsTypes'
  <1> SUFFICES ASSUME TlsTypes, [TlsNext]_tlsVars PROVE TlsTypes'
    OBVIOUS
  <1>1. ASSUME NEW r \in TlsRequests,
               \/ Start(r) \/ JoinVerification(r) \/ StartVerification(r) \/ Connect(r)
               \/ PinMismatch(r) \/ Completes(r) \/ Breaks(r)
        PROVE  TlsTypes'
    <2>1. tls \in [TlsRequests -> TlsRecord] /\ liveKey \in Nat /\ shared \in Loads \cup {NoLoad}
      BY DEF TlsTypes
    <2>2. /\ load \in [Loads -> LoadRecord] /\ tlsTime \in Nat
          /\ \A i \in Loads : load[i].at <= tlsTime /\ load[i].at \in Nat /\ load[i].status \in Verdicts
      BY DEF TlsTypes, LoadRecord, Verdicts
    <2>3. tls' \in [TlsRequests -> TlsRecord]
      <3>1. CASE Start(r)
        BY <2>1, <3>1 DEF Start, TlsRecord, TlsStages
      <3>2. CASE JoinVerification(r)
        <4> DEFINE age == IF load[shared].status = "ok" THEN tlsTime - load[shared].at ELSE 0
                   stage == CASE load[shared].status = "pending" -> "waiting"
                              [] load[shared].status = "ok" -> "connecting"
                              [] OTHER -> "unverified"
        <4>1. age \in Nat /\ stage \in TlsStages /\ shared \in Loads /\ load[shared].status \in Verdicts
          BY <2>1, <2>2, <3>2 DEF JoinVerification, TlsStages
        <4>2. tls' = [tls EXCEPT ![r] = [tls[r] EXCEPT !.load = shared, !.joined = load[shared].status,
                                                       !.pc = stage, !.age = age]]
          BY <3>2 DEF JoinVerification
        <4> HIDE DEF age, stage
        <4> QED BY <2>1, <4>1, <4>2 DEF TlsRecord
      <3>3. CASE StartVerification(r)
        <4>1. PICK i \in Loads :
                 tls' = [tls EXCEPT ![r].pc = "loading", ![r].load = i, ![r].joined = "pending"]
          BY <3>3 DEF StartVerification, FreshLoads
        <4>2. [tls[r] EXCEPT !.pc = "loading", !.load = i, !.joined = "pending"] \in TlsRecord
          BY <2>1 DEF TlsRecord, TlsStages, Verdicts
        <4>3. tls' = [tls EXCEPT ![r] = [tls[r] EXCEPT !.pc = "loading", !.load = i, !.joined = "pending"]]
          BY <4>1
        <4> QED BY <2>1, <4>2, <4>3
      <3>4. CASE Connect(r)
        <4>1. [tls[r] EXCEPT !.pc = "inflight", !.sentKey = liveKey] \in TlsRecord
          BY <2>1 DEF TlsRecord, TlsStages
        <4>2. tls' = [tls EXCEPT ![r] = [tls[r] EXCEPT !.pc = "inflight", !.sentKey = liveKey]]
          BY <3>4 DEF Connect
        <4> QED BY <2>1, <4>1, <4>2
      <3>5. CASE PinMismatch(r)
        <4>1. CASE tls[r].retried
          <5>1. [tls[r] EXCEPT !.pc = "failed"] \in TlsRecord
            BY <2>1 DEF TlsRecord, TlsStages
          <5>2. tls' = [tls EXCEPT ![r] = [tls[r] EXCEPT !.pc = "failed"]]
            BY <3>5, <4>1 DEF PinMismatch
          <5> QED BY <2>1, <5>1, <5>2
        <4>2. CASE ~tls[r].retried
          <5>1. [tls[r] EXCEPT !.pc = "want", !.retried = TRUE] \in TlsRecord
            BY <2>1 DEF TlsRecord, TlsStages
          <5>2. tls' = [tls EXCEPT ![r] = [tls[r] EXCEPT !.pc = "want", !.retried = TRUE]]
            BY <3>5, <4>2 DEF PinMismatch
          <5> QED BY <2>1, <5>1, <5>2
        <4> QED BY <4>1, <4>2
      <3>6. CASE Completes(r)
        BY <2>1, <3>6 DEF Completes, TlsRecord, TlsStages
      <3>7. CASE Breaks(r)
        BY <2>1, <3>7 DEF Breaks, TlsRecord, TlsStages
      <3> QED BY <1>1, <3>1, <3>2, <3>3, <3>4, <3>5, <3>6, <3>7
    <2>4. /\ load' \in [Loads -> LoadRecord] /\ \A i \in Loads : load'[i].at <= tlsTime
      <3>1. CASE StartVerification(r)
        <4>1. PICK i \in Loads : load' = [load EXCEPT ![i].status = "pending"]
          BY <3>1 DEF StartVerification, FreshLoads
        <4>2. [load[i] EXCEPT !.status = "pending"] \in LoadRecord
              /\ [load[i] EXCEPT !.status = "pending"].at = load[i].at
          BY <2>2 DEF LoadRecord
        <4> QED BY <2>2, <4>1, <4>2
      <3>2. CASE UNCHANGED load
        BY <2>2, <3>2
      <3> QED BY <1>1, <3>1, <3>2
              DEF Start, JoinVerification, Connect, PinMismatch, Completes, Breaks
    <2>5. UNCHANGED <<tlsTime, liveKey>>
      BY <1>1 DEF Start, JoinVerification, StartVerification, Connect, PinMismatch, Completes, Breaks
    <2>6. shared' \in Loads \cup {NoLoad} /\ expires' \in Nat
      <3>1. CASE StartVerification(r)
        BY <3>1 DEF StartVerification, FreshLoads
      <3>2. CASE PinMismatch(r) \/ Breaks(r)
        <4>1. \A drop : DropShared(drop) => shared' \in {NoLoad, shared} /\ expires' \in {0, expires}
          BY DEF DropShared
        <4>2. shared' \in {NoLoad, shared} /\ expires' \in {0, expires}
          BY <3>2, <4>1 DEF PinMismatch, Breaks
        <4> QED BY <4>2 DEF TlsTypes
      <3>3. CASE UNCHANGED <<shared, expires>>
        BY <3>3 DEF TlsTypes
      <3> QED BY <1>1, <3>1, <3>2, <3>3 DEF Start, JoinVerification, Connect, Completes
    <2> QED BY <2>3, <2>4, <2>5, <2>6 DEF TlsTypes
  <1>2. ASSUME NEW i \in Loads, NEW ok \in BOOLEAN, VerificationSettles(i, ok)
        PROVE  TlsTypes'
    <2>1. load' \in [Loads -> LoadRecord] /\ \A j \in Loads : load'[j].at <= tlsTime
      <3>1. CASE ok
        BY <1>2, <3>1 DEF VerificationSettles, TlsTypes, LoadRecord
      <3>2. CASE ~ok
        BY <1>2, <3>2 DEF VerificationSettles, TlsTypes, LoadRecord
      <3> QED BY <3>1, <3>2
    <2>2. tls' \in [TlsRequests -> TlsRecord]
      BY <1>2 DEF VerificationSettles, TlsTypes, TlsRecord, TlsStages
    <2> QED BY <1>2, <2>1, <2>2, TlsAssumption DEF VerificationSettles, DropShared, TlsTypes
  <1>3. CASE RotateTlsKey
    BY <1>3 DEF RotateTlsKey, TlsTypes
  <1>4. CASE TlsTick
    BY <1>4 DEF TlsTick, TlsTypes, LoadRecord
  <1>5. CASE UNCHANGED tlsVars
    BY <1>5 DEF tlsVars, TlsTypes
  <1> QED BY <1>1, <1>2, <1>3, <1>4, <1>5 DEF TlsNext

\* A request that joins finds a verification that is pending or young.
LEMMA JoinFindsYoung ==
    ASSUME TlsTypes, PromiseInv, NEW r \in TlsRequests, JoinVerification(r)
    PROVE  /\ shared \in Loads /\ load[shared].status \in {"pending", "ok"}
           /\ load[shared].status = "ok" =>
                 tlsTime - load[shared].at \in Nat /\ tlsTime - load[shared].at < VerificationTtl
  <1>1. shared \in Loads /\ shared # NoLoad /\ ~(expires > 0 /\ tlsTime >= expires)
    BY DEF JoinVerification, VerificationExpired, TlsTypes
  <1>2. load[shared].at \in Nat /\ load[shared].at <= tlsTime /\ tlsTime \in Nat /\ expires \in Nat
    BY <1>1 DEF TlsTypes, LoadRecord
  <1> QED BY <1>1, <1>2, TlsAssumption DEF PromiseInv

\* Every step of the transport keeps the invariant.
LEMMA TlsInvNext == TlsInv /\ [TlsNext]_tlsVars => TlsInv'
  <1> SUFFICES ASSUME TlsInv, [TlsNext]_tlsVars PROVE TlsInv'
    OBVIOUS
  <1> TlsTypes'
    BY TlsTypesNext DEF TlsInv
  <1> USE TlsAssumption DEF TlsInv, TlsTypes, PromiseInv, RequestInv, NoLoad
  <1>1. ASSUME NEW r \in TlsRequests,
               \/ Start(r) \/ JoinVerification(r) \/ StartVerification(r) \/ Connect(r)
               \/ PinMismatch(r) \/ Completes(r) \/ Breaks(r)
        PROVE  TlsInv'
    <2>1. CASE Start(r)
      BY <2>1 DEF Start, TlsRecord, TlsStages
    <2>2. CASE JoinVerification(r)
      <3>1. /\ shared \in Loads /\ load[shared].status \in {"pending", "ok"}
            /\ load[shared].status = "ok" =>
                  tlsTime - load[shared].at \in Nat /\ tlsTime - load[shared].at < VerificationTtl
        BY <2>2, JoinFindsYoung
      <3>3. /\ tls'[r].load = shared /\ tls'[r].joined = load[shared].status
            /\ tls'[r].pc = IF load[shared].status = "ok" THEN "connecting" ELSE "waiting"
            /\ tls'[r].age = IF load[shared].status = "ok" THEN tlsTime - load[shared].at ELSE 0
            /\ \A q \in TlsRequests \ {r} : tls'[q] = tls[q]
        BY <2>2, <3>1 DEF JoinVerification, TlsRecord
      <3>4. UNCHANGED <<tlsTime, liveKey, load, shared, expires, closed>>
        BY <2>2 DEF JoinVerification
      <3> QED BY <3>1, <3>3, <3>4
    <2>3. CASE StartVerification(r)
      <3>1. PICK i \in Loads :
               /\ load[i].status = "unused"
               /\ load' = [load EXCEPT ![i].status = "pending"]
               /\ shared' = i
               /\ tls' = [tls EXCEPT ![r].pc = "loading", ![r].load = i, ![r].joined = "pending"]
        BY <2>3 DEF StartVerification, FreshLoads
      <3>2. expires' = 0 /\ UNCHANGED <<tlsTime, liveKey>>
        BY <2>3 DEF StartVerification
      <3>4. /\ tls'[r].pc = "loading" /\ tls'[r].load = i /\ tls'[r].joined = "pending"
            /\ tls'[r].age = tls[r].age
            /\ \A q \in TlsRequests \ {r} : tls'[q] = tls[q]
        BY <3>1 DEF TlsRecord
      <3>5. /\ load'[i].status = "pending" /\ load'[i].at = load[i].at
            /\ \A j \in Loads \ {i} : load'[j] = load[j]
        BY <3>1 DEF LoadRecord
      <3> QED BY <3>1, <3>2, <3>4, <3>5
    <2>4. CASE Connect(r)
      <3>2. /\ tls'[r].pc = "inflight" /\ tls'[r].sentKey = load[tls[r].load].key
            /\ tls'[r].load = tls[r].load /\ tls'[r].age = tls[r].age /\ tls'[r].joined = tls[r].joined
            /\ \A q \in TlsRequests \ {r} : tls'[q] = tls[q]
        BY <2>4 DEF Connect, TlsRecord
      <3>3. tls[r].pc = "connecting" /\ UNCHANGED <<tlsTime, liveKey, load, shared, expires, closed>>
        BY <2>4 DEF Connect
      <3> QED BY <3>2, <3>3
    <2>5. CASE PinMismatch(r)
      <3>2. /\ tls'[r].pc \in {"want", "failed"} /\ tls'[r].age = tls[r].age /\ tls'[r].joined = tls[r].joined
            /\ \A q \in TlsRequests \ {r} : tls'[q] = tls[q]
        BY <2>5 DEF PinMismatch, TlsRecord
      <3>3. UNCHANGED <<tlsTime, liveKey, load>>
        BY <2>5 DEF PinMismatch
      <3>4. (shared' = NoLoad /\ expires' = 0) \/ UNCHANGED <<shared, expires>>
        BY <2>5 DEF PinMismatch, DropShared
      <3> QED BY <3>2, <3>3, <3>4
    <2>6. CASE Completes(r)
      BY <2>6 DEF Completes, TlsRecord, TlsStages
    <2>7. CASE Breaks(r)
      BY <2>7 DEF Breaks, DropShared, TlsRecord, TlsStages
    <2> QED BY <1>1, <2>1, <2>2, <2>3, <2>4, <2>5, <2>6, <2>7
  <1>2. ASSUME NEW i \in Loads, NEW ok \in BOOLEAN, VerificationSettles(i, ok)
        PROVE  TlsInv'
    <2>1. CASE ok
      BY <1>2, <2>1 DEF VerificationSettles, DropShared, Awaiting, TlsRecord, LoadRecord, TlsStages
    <2>2. CASE ~ok
      BY <1>2, <2>2 DEF VerificationSettles, DropShared, Awaiting, TlsRecord, LoadRecord, TlsStages
    <2> QED BY <2>1, <2>2
  <1>3. CASE RotateTlsKey
    BY <1>3 DEF RotateTlsKey
  <1>4. CASE TlsTick
    BY <1>4 DEF TlsTick
  <1>5. CASE UNCHANGED tlsVars
    BY <1>5 DEF tlsVars
  <1> QED BY <1>1, <1>2, <1>3, <1>4, <1>5 DEF TlsNext

\* tinfoilTransport.ts: a request is sent on a key verified less than the
\* lifetime ago, whichever verifications are shared, fail or expire meanwhile.
THEOREM EvidenceStaysCurrent == TlsSpec => []EvidenceIsCurrent
  <1>1. TlsInit => TlsInv
    BY TlsAssumption DEF TlsInit, TlsInv, TlsTypes, TlsRecord, LoadRecord, TlsStages, Verdicts, PromiseInv, RequestInv, NoLoad, Idle
  <1>2. TlsInv => EvidenceIsCurrent
    BY DEF TlsInv, RequestInv, EvidenceIsCurrent
  <1> QED BY <1>1, <1>2, TlsInvNext, PTL DEF TlsSpec

-----------------------------------------------------------------------------
\* Credential administration.

AdminSpec == AdminInit /\ [][AdminNext]_adminVars

OverlayFiles == [present : BOOLEAN, added : [KeyIds -> Caps \cup {None, "operator"}], removed : SUBSET BootKeys]
AdminTypes ==
    /\ time \in Nat /\ seenFile \in BOOLEAN /\ wiped \in BOOLEAN
    /\ file \in OverlayFiles
    /\ use \in [Uses -> [pc : {"idle", "probing", "over"}, cap : Caps \cup {None}]]
    /\ done \in [Caps -> Nat]

\* A capability that will never verify again: in the log, or past its expiry
\* (the log forgets nothing that could still verify).
Spent(c) == Consumed(c) \/ CapInfo[c].expiresAt <= time

CapabilityInv ==
    /\ \A e \in log : e.cap \in Caps /\ e.expiresAt = CapInfo[e.cap].expiresAt
    /\ \A u \in Uses : use[u].pc = "probing" =>
          /\ use[u].cap \in Caps /\ Spent(use[u].cap) /\ done[use[u].cap] = 0
    /\ \A u, v \in Uses : use[u].pc = "probing" /\ use[v].pc = "probing" /\ use[u].cap = use[v].cap => u = v
    /\ \A c \in Caps : done[c] <= 1 /\ (done[c] = 1 => Spent(c))

RemovalInv ==
    ~wiped /\ Available =>
        /\ Effective \cap revoked = {} /\ Effective # {}
        /\ ~file.present => revoked = {}

AdminInv == AdminTypes /\ CapabilityInv /\ RemovalInv

\* What is recorded stays spent as long as the clock does not run back.
LEMMA SpentStays ==
    ASSUME AdminTypes, CapabilityInv, NEW c \in Caps, Spent(c),
           \/ log' = log
           \/ \E d \in Caps : log' = Retained \cup {[cap |-> d, expiresAt |-> CapInfo[d].expiresAt]},
           time' \in Nat, time <= time'
    PROVE  Spent(c)'
  <1>1. CapInfo[c].expiresAt \in Nat /\ time \in Nat /\ Grace \in Nat
    BY KeyAssumption DEF AdminTypes
  <1>2. CASE CapInfo[c].expiresAt <= time
    BY <1>1, <1>2 DEF Spent
  <1>3. CASE CapInfo[c].expiresAt > time
    <2>1. PICK e \in log : e.cap = c
      BY <1>1, <1>3 DEF Spent, Consumed
    <2>2. e.expiresAt + Grace > time
      BY <1>1, <1>3, <2>1 DEF CapabilityInv
    <2>3. e \in log'
      BY <2>1, <2>2 DEF Retained
    <2> QED BY <2>1, <2>3 DEF Spent, Consumed
  <1> QED BY <1>1, <1>2, <1>3

\* A capability that verifies was never used.
LEMMA VerifiedIsNotSpent == ASSUME AdminTypes, NEW c \in Caps, NEW actions, Verifies(c, actions) PROVE ~Spent(c)
  BY KeyAssumption DEF Verifies, Spent, AdminTypes

\* Recording a capability spends it.
LEMMA ConsumeSpends ==
    ASSUME AdminTypes, CapabilityInv, NEW c \in Caps, Consume(c)
    PROVE  /\ log' = Retained \cup {[cap |-> c, expiresAt |-> CapInfo[c].expiresAt]}
           /\ Spent(c)'
           /\ \A e \in log' : e.cap \in Caps /\ e.expiresAt = CapInfo[e.cap].expiresAt
  <1>1. log' = Retained \cup {[cap |-> c, expiresAt |-> CapInfo[c].expiresAt]}
    BY DEF Consume
  <1>2. [cap |-> c, expiresAt |-> CapInfo[c].expiresAt] \in log'
    BY <1>1
  <1>3. Spent(c)'
    BY <1>2 DEF Spent, Consumed
  <1> QED BY <1>1, <1>3 DEF Retained, CapabilityInv

\* What persisting an added key does,
LEMMA AddEffect ==
    ASSUME AdminTypes, NEW k \in KeyIds, NEW x \in Caps \cup {"operator"}, Persist(Added(k, x))
    PROVE  file' \in OverlayFiles /\ Effective' = Effective \cup {k} /\ seenFile' /\ file'.present /\ Available'
  <1>1. /\ file' \in OverlayFiles /\ file'.present /\ file'.added = [file.added EXCEPT ![k] = x]
        /\ file'.removed = file.removed \ {k}
    BY DEF Persist, Added, AdminTypes, OverlayFiles
  <1>2. seenFile' /\ x # None
    BY KeyAssumption DEF Persist, None
  <1> QED BY <1>1, <1>2 DEF Effective, EffectiveOf, OverlayFiles, AdminTypes, Available

\* and a removed one.
LEMMA RemoveEffect ==
    ASSUME AdminTypes, NEW k \in KeyIds, Persist(Removed(k))
    PROVE  file' \in OverlayFiles /\ Effective' = Effective \ {k} /\ seenFile' /\ file'.present /\ Available'
  <1>1. /\ file' \in OverlayFiles /\ file'.present /\ file'.added = [file.added EXCEPT ![k] = None]
        /\ file'.removed = IF k \in BootKeys THEN file.removed \cup {k} ELSE file.removed
    BY DEF Persist, Removed, AdminTypes, OverlayFiles
  <1>2. seenFile'
    BY DEF Persist
  <1> QED BY <1>1, <1>2 DEF Effective, EffectiveOf, OverlayFiles, AdminTypes, Available

\* Every step of the administration keeps the invariant.
LEMMA AdminInvNext == AdminInv /\ [AdminNext]_adminVars => AdminInv'
  <1> SUFFICES ASSUME AdminInv, [AdminNext]_adminVars PROVE AdminInv'
    OBVIOUS
  <1>0. AdminTypes /\ CapabilityInv /\ RemovalInv /\ time \in Nat
    BY DEF AdminInv, AdminTypes
  \* an action that leaves the log and the capabilities' effects alone
  <1>1. ASSUME log' = log, done' = done, time' \in Nat, time <= time', AdminTypes',
               \A u \in Uses : use'[u].pc = "probing" => use'[u] = use[u]
        PROVE  CapabilityInv'
    <2>1. \A c \in Caps : Spent(c) => Spent(c)'
      BY <1>0, <1>1, SpentStays
    <2> QED BY <1>0, <1>1, <2>1 DEF CapabilityInv
  \* an action that leaves the store and the history of removals alone
  <1>2. ASSUME UNCHANGED <<file, seenFile, revoked, wiped>> PROVE RemovalInv'
    BY <1>0, <1>2 DEF RemovalInv, Available, Effective, EffectiveOf
  <1>3. ASSUME NEW u \in Uses, NEW c \in Caps, AuthorizeInstall(u, c) PROVE AdminInv'
    <2>1. /\ ~Spent(c) /\ Spent(c)' /\ log' = Retained \cup {[cap |-> c, expiresAt |-> CapInfo[c].expiresAt]}
          /\ \A e \in log' : e.cap \in Caps /\ e.expiresAt = CapInfo[e.cap].expiresAt
      BY <1>0, <1>3, VerifiedIsNotSpent, ConsumeSpends DEF AuthorizeInstall, RecordCapability
    <2>2. /\ use' = [use EXCEPT ![u] = [pc |-> "probing", cap |-> c]]
          /\ UNCHANGED <<adminMode, time, file, seenFile, done, revoked, wiped>>
      BY <1>3 DEF AuthorizeInstall, keyState
    <2>3. \A d \in Caps : Spent(d) => Spent(d)'
      BY <1>0, <2>1, <2>2, SpentStays
    <2>4. done[c] = 0
      BY <1>0, <2>1 DEF CapabilityInv, AdminTypes
    <2>5. \A v \in Uses : use[v].pc = "probing" => use[v].cap # c
      BY <1>0, <2>1 DEF CapabilityInv
    <2>6. AdminTypes'
      BY <1>0, <2>2 DEF AdminTypes
    <2>7. use'[u] = [pc |-> "probing", cap |-> c] /\ \A v \in Uses \ {u} : use'[v] = use[v]
      BY <1>0, <2>2 DEF AdminTypes
    <2>8. CapabilityInv'
      BY <1>0, <2>1, <2>2, <2>3, <2>4, <2>5, <2>7 DEF CapabilityInv
    <2> QED BY <1>2, <2>2, <2>6, <2>8 DEF AdminInv
  <1>4. ASSUME NEW u \in Uses, NEW c \in Caps, RevokeKey(u, c) PROVE AdminInv'
    <2> DEFINE k == CapInfo[c].id
               removes == Available /\ ~IsLastRemaining(k) /\ k \in Effective
    <2>1. /\ ~Spent(c) /\ Spent(c)' /\ log' = Retained \cup {[cap |-> c, expiresAt |-> CapInfo[c].expiresAt]}
          /\ \A e \in log' : e.cap \in Caps /\ e.expiresAt = CapInfo[e.cap].expiresAt
      BY <1>0, <1>4, VerifiedIsNotSpent, ConsumeSpends DEF RevokeKey
    <2>2. /\ use' = [use EXCEPT ![u] = [pc |-> "over", cap |-> c]]
          /\ UNCHANGED <<adminMode, time, wiped>>
          /\ k \in KeyIds
      BY <1>4, KeyAssumption DEF RevokeKey
    <2>3. \A d \in Caps : Spent(d) => Spent(d)'
      BY <1>0, <2>1, <2>2, SpentStays
    <2>4. done[c] = 0 /\ \A v \in Uses : use[v].pc = "probing" => use[v].cap # c
      BY <1>0, <2>1 DEF CapabilityInv, AdminTypes
    <2>5. \/ removes /\ Persist(Removed(k)) /\ done' = [done EXCEPT ![c] = done[c] + 1] /\ revoked' = revoked \cup {k}
          \/ UNCHANGED <<file, seenFile, done, revoked>>
      BY <1>4 DEF RevokeKey, keyState
    <2>6. AdminTypes' /\ RemovalInv'
      <3>1. CASE removes /\ Persist(Removed(k)) /\ done' = [done EXCEPT ![c] = done[c] + 1]
                 /\ revoked' = revoked \cup {k}
        <4>1. file' \in OverlayFiles /\ Effective' = Effective \ {k} /\ seenFile' /\ file'.present /\ Available'
          BY <1>0, <2>2, <3>1, RemoveEffect
        <4>2. seenFile' = TRUE
          BY <3>1 DEF Persist
        <4>3. Effective' # {}
          BY <3>1, <4>1 DEF IsLastRemaining
        <4> HIDE DEF k
        <4>4. AdminTypes'
          BY <1>0, <2>2, <2>4, <3>1, <4>1, <4>2 DEF AdminTypes
        <4>5. RemovalInv'
          BY <1>0, <2>2, <3>1, <4>1, <4>3 DEF RemovalInv
        <4> QED BY <4>4, <4>5
      <3>2. CASE UNCHANGED <<file, seenFile, done, revoked>>
        BY <1>0, <1>2, <2>2, <3>2 DEF AdminTypes
      <3> QED BY <2>5, <3>1, <3>2
    <2>7. done' \in {done, [done EXCEPT ![c] = done[c] + 1]}
      BY <2>5
    <2>8. use'[u].pc = "over" /\ \A v \in Uses \ {u} : use'[v] = use[v]
      BY <1>0, <2>2 DEF AdminTypes
    <2>9. done'[c] \in {0, 1} /\ \A d \in Caps \ {c} : done'[d] = done[d]
      BY <1>0, <2>4, <2>7 DEF AdminTypes
    <2>10. CapabilityInv'
      BY <1>0, <2>1, <2>3, <2>4, <2>8, <2>9 DEF CapabilityInv
    <2> QED BY <2>6, <2>10 DEF AdminInv
  <1>5. ASSUME NEW u \in Uses, NEW c \in Caps,
               RefuseUse(u, c, InstallActions) \/ RefuseUse(u, c, {"revoke"})
        PROVE  AdminInv'
    <2>1. /\ use' = [use EXCEPT ![u] = [pc |-> "over", cap |-> c]]
          /\ UNCHANGED <<time, file, seenFile, log, done, revoked, wiped>>
      BY <1>5 DEF RefuseUse, keyState
    <2>2. AdminTypes'
      BY <1>0, <2>1 DEF AdminTypes
    <2> QED BY <1>0, <1>1, <1>2, <2>1, <2>2 DEF AdminInv, AdminTypes
  <1>6. ASSUME NEW u \in Uses, ProbeFails(u) \/ InstallUnavailable(u) PROVE AdminInv'
    <2>1. /\ use' = [use EXCEPT ![u].pc = "over"]
          /\ UNCHANGED <<time, file, seenFile, log, done, revoked, wiped>>
      BY <1>6 DEF ProbeFails, InstallUnavailable, keyState
    <2>2. AdminTypes'
      BY <1>0, <2>1 DEF AdminTypes
    <2> QED BY <1>0, <1>1, <1>2, <2>1, <2>2 DEF AdminInv, AdminTypes
  <1>7. ASSUME NEW u \in Uses, InstallKey(u) PROVE AdminInv'
    <2> DEFINE c == use[u].cap
               k == CapInfo[c].id
    <2>1. /\ use[u].pc = "probing" /\ Persist(Added(k, c)) /\ done' = [done EXCEPT ![c] = done[c] + 1]
          /\ revoked' = revoked \ {k} /\ use' = [use EXCEPT ![u].pc = "over"]
          /\ UNCHANGED <<adminMode, time, log, wiped>> /\ Available
      BY <1>7 DEF InstallKey
    <2>2. c \in Caps /\ k \in KeyIds /\ Spent(c) /\ done[c] = 0
      BY <1>0, <2>1, KeyAssumption DEF CapabilityInv
    <2>3. /\ file' \in OverlayFiles /\ Effective' = Effective \cup {k} /\ seenFile' /\ file'.present /\ Available'
      BY <1>0, <2>1, <2>2, AddEffect
    <2>4. seenFile' = TRUE
      BY <2>1 DEF Persist
    <2>5. \A v \in Uses \ {u} : use[v].pc = "probing" => use[v].cap # c
      BY <1>0, <2>1 DEF CapabilityInv
    <2> HIDE DEF c, k
    <2>6. AdminTypes'
      BY <1>0, <2>1, <2>2, <2>3, <2>4 DEF AdminTypes
    <2>7. RemovalInv'
      BY <1>0, <2>1, <2>3 DEF RemovalInv
    <2>8. use'[u].pc = "over" /\ \A v \in Uses \ {u} : use'[v] = use[v]
      BY <1>0, <2>1 DEF AdminTypes
    <2>9. done'[c] = 1 /\ \A d \in Caps \ {c} : done'[d] = done[d]
      BY <1>0, <2>1, <2>2 DEF AdminTypes
    <2>10. \A d \in Caps : Spent(d) => Spent(d)'
      BY <2>1 DEF Spent, Consumed
    <2>11. CapabilityInv'
      BY <1>0, <2>1, <2>2, <2>5, <2>8, <2>9, <2>10 DEF CapabilityInv
    <2> QED BY <2>6, <2>7, <2>11 DEF AdminInv
  <1>8. ASSUME NEW k \in KeyIds, LegacyAdd(k) PROVE AdminInv'
    <2>1. /\ file' \in OverlayFiles /\ Effective' = Effective \cup {k} /\ seenFile' /\ file'.present /\ Available'
      BY <1>0, <1>8, AddEffect DEF LegacyAdd
    <2>2. seenFile' = TRUE /\ revoked' = revoked \ {k} /\ UNCHANGED <<time, log, use, done, wiped>> /\ Available
      BY <1>8 DEF LegacyAdd, Persist
    <2>3. AdminTypes'
      BY <1>0, <2>1, <2>2 DEF AdminTypes
    <2>4. RemovalInv'
      BY <1>0, <2>1, <2>2 DEF RemovalInv
    <2> QED BY <1>0, <1>1, <2>2, <2>3, <2>4 DEF AdminInv
  <1>9. ASSUME NEW k \in KeyIds, LegacyRemove(k) PROVE AdminInv'
    <2>1. /\ file' \in OverlayFiles /\ Effective' = Effective \ {k} /\ seenFile' /\ file'.present /\ Available'
      BY <1>0, <1>9, RemoveEffect DEF LegacyRemove
    <2>2. /\ seenFile' = TRUE /\ revoked' = revoked \cup {k} /\ UNCHANGED <<time, log, use, done, wiped>>
          /\ Available /\ Effective # {k} /\ k \in Effective
      BY <1>9 DEF LegacyRemove, Persist, IsLastRemaining
    <2>3. AdminTypes'
      BY <1>0, <2>1, <2>2 DEF AdminTypes
    <2>4. RemovalInv'
      BY <1>0, <2>1, <2>2 DEF RemovalInv
    <2> QED BY <1>0, <1>1, <2>2, <2>3, <2>4 DEF AdminInv
  <1>10. ASSUME \/ \E k \in KeyIds : ToggleKey(k)
                \/ UpsertManifest \/ LoadEnabled \/ AdminTick \/ UNCHANGED adminVars
         PROVE  AdminInv'
    <2>1. UNCHANGED <<file, seenFile, log, use, done, revoked, wiped>> /\ time' \in {time, time + 1}
      BY <1>10 DEF ToggleKey, UpsertManifest, LoadEnabled, AdminTick, adminVars, keyState
    <2>2. AdminTypes' /\ time <= time'
      BY <1>0, <2>1 DEF AdminTypes
    <2> QED BY <1>0, <1>1, <1>2, <2>1, <2>2 DEF AdminInv, AdminTypes
  <1>11. CASE CrashWorker
    <2>1. /\ use' = [u \in Uses |-> IF use[u].pc = "probing" THEN [use[u] EXCEPT !.pc = "over"] ELSE use[u]]
          /\ seenFile' = FALSE /\ wiped' = (wiped \/ (seenFile /\ ~file.present))
          /\ UNCHANGED <<time, file, log, done, revoked>>
      BY <1>11 DEF CrashWorker
    <2>2. AdminTypes' /\ \A u \in Uses : use'[u].pc # "probing" \/ use'[u] = use[u]
      BY <1>0, <2>1 DEF AdminTypes
    <2>3. RemovalInv'
      BY <1>0, <2>1 DEF RemovalInv, Available, Effective, EffectiveOf, AdminTypes
    <2> QED BY <1>0, <1>1, <2>1, <2>2, <2>3 DEF AdminInv
  <1>12. CASE OverlayVanishes
    <2>1. /\ file' = EmptyOverlay /\ seenFile /\ seenFile' = seenFile
          /\ UNCHANGED <<time, log, use, done, revoked, wiped>>
      BY <1>12 DEF OverlayVanishes
    <2>2. file' \in OverlayFiles /\ ~file'.present
      BY <2>1 DEF EmptyOverlay, OverlayFiles
    <2>3. AdminTypes' /\ RemovalInv'
      BY <1>0, <2>1, <2>2 DEF AdminTypes, RemovalInv, Available
    <2> QED BY <1>0, <1>1, <2>1, <2>3 DEF AdminInv
  <1> QED BY <1>3, <1>4, <1>5, <1>6, <1>7, <1>8, <1>9, <1>10, <1>11, <1>12 DEF AdminNext

\* The key administration uses no capability twice and forgets no removal, over
\* restarts, lost files and clock steps, for any number of keys and capabilities.
THEOREM AuthorisationsHappenOnce == AdminSpec => []AuthorisationsAreKept
  <1>1. AdminInit => AdminInv
    <2> SUFFICES ASSUME AdminInit PROVE AdminInv
      OBVIOUS
    <2>1. file = EmptyOverlay /\ EmptyOverlay \in OverlayFiles /\ ~EmptyOverlay.present
      BY DEF AdminInit, EmptyOverlay, OverlayFiles
    <2>2. AdminTypes
      BY <2>1 DEF AdminInit, AdminTypes
    <2>3. Effective = BootKeys
      BY <2>1, KeyAssumption DEF Effective, EffectiveOf, EmptyOverlay
    <2> QED BY <2>1, <2>2, <2>3, KeyAssumption DEF AdminInit, AdminInv, CapabilityInv, RemovalInv
  <1>2. AdminInv => AuthorisationsAreKept
    <2> SUFFICES ASSUME AdminInv PROVE AuthorisationsAreKept
      OBVIOUS
    <2>1. \A k : ResolveKey(k) \subseteq Effective /\ (~Available => ResolveKey(k) = {})
      BY DEF ResolveKey
    <2>2. SentKeys \subseteq Effective /\ (~Available => SentKeys = {})
      BY <2>1 DEF SentKeys
    <2> QED BY <2>2 DEF AdminInv, AdminTypes, CapabilityInv, RemovalInv, AuthorisationsAreKept, CapabilityOnce, RevokedStaysOut
  <1> QED BY <1>1, <1>2, AdminInvNext, PTL DEF AdminSpec

-----------------------------------------------------------------------------
\* Provider workers.

WorkerSpec == WorkerInit /\ [][WorkerNext]_workerVars

CallStages == {"idle", "sent", "preparing", "fencing", "sending", "over"}
CallRecord(h) ==
    [pc : CallStages, op : Operations, path : WorkerProviders \cup {Mock}, name : WorkerProviders \cup {Mock},
     model : NearModels \cup {"none"}, e2ee : BOOLEAN, host : {h}, fence : BOOLEAN, zdr : BOOLEAN,
     body : SUBSET Fields]

WorkerTypes ==
    /\ workerCfg \in Configurations
    /\ call = [c \in Calls |-> call[c]]
    /\ \A c \in Calls : call[c] \in CallRecord(call[c].host)

\* The adapter has named the host of a call, and asked about its account.
Prepared(k) == k.pc = "sending" \/ (k.pc = "fencing" /\ k.op # "attestation")

\* What a worker in production has established about a call it took.
TakenInv ==
    \A c \in Calls : LET k == call[c] IN
      /\ k.e2ee => k.op = "chat"
      /\ workerCfg.env = "production" /\ k.pc \in {"preparing", "fencing", "sending"} =>
            /\ k.name = k.path /\ k.path \in workerCfg.serves /\ k.name # Mock
            /\ k.op = "attestation" /\ k.pc # "fencing" => k.fence
            /\ k.op \in Metered /\ k.pc = "sending" => k.fence
            /\ Prepared(k) =>
                  /\ k.zdr
                  /\ k.e2ee /\ k.name = Near => k.host = PinnedHost[k.model]

WorkerInv == WorkerTypes /\ TakenInv /\ CredentialStaysHome

\* Only Venice's adapter passes the provider-specific fields on.
LEMMA StripsTheFields ==
    ASSUME NEW p \in WorkerProviders, p # "venice"
    PROVE  {"routing", "venice_parameters"} \subseteq AdapterFor(p).strips
  BY WorkerAssumption DEF AdapterFor, FireworksAdapter, DeepInfraAdapter, PhalaAiAdapter, TinfoilAdapter,
     NearAdapter, ChutesAdapter, BedrockAdapter, Plain, FireworksBody, DeepInfraBody, PhalaAiBody, TinfoilBody,
     NearBody, ChutesBody, BedrockBody, Near, BedrockName

\* The NEAR adapter looks up the enclave before the call.
LEMMA NearDiscovers == AdapterFor(Near).before = "discover"
  BY DEF AdapterFor, NearAdapter, Plain, Near, BedrockName

\* In production the base URLs of the served providers are their own origins.
LEMMA OriginsAreOwn ==
    ASSUME workerCfg \in Configurations, workerCfg.env = "production",
           NEW p \in workerCfg.serves, p # BedrockName, NEW h, DestinationPermitted(p, h)
    PROVE  h \in CredentialOrigins(p, workerCfg.profile) \cup NearEnclaveOrigins(p)
  BY DEF Configurations, BootAllowed, BaseUrlPermitted, DestinationPermitted, TransportOrigins

\* An enclave call goes to the pinned host of its model.
LEMMA NearHostIsPinned ==
    ASSUME NEW k, k.name = Near, k.e2ee, NEW h \in HostsFor(k), h # NoHost
    PROVE  h = PinnedHost[k.model]
  BY NearDiscovers DEF HostsFor, NearHost

\* How the steps change the record of a call.
Asked(n, p, op, m, e, b) ==
    [NoCall EXCEPT !.pc = "sent", !.op = op, !.path = p, !.name = n, !.model = m, !.e2ee = e, !.body = b]
AskedByHolder(n, p, op, m) ==
    [NoCall EXCEPT !.pc = "sent", !.op = op, !.path = p, !.name = n, !.model = m]
AtStage(k, x) == [k EXCEPT !.pc = x]
WithHost(k, h, z, x) == [k EXCEPT !.host = h, !.zdr = z, !.pc = x]
Fenced(k, x) == [k EXCEPT !.fence = TRUE, !.pc = x]

\* The record of a new call,
LEMMA NewCalls ==
    ASSUME NEW op \in Operations, NEW p \in WorkerProviders, NEW n \in WorkerProviders \cup {Mock},
           NEW m \in NearModels, NEW e \in BOOLEAN, NEW b \in SUBSET Fields
    PROVE  LET k == Asked(n, p, op, m, e, b)
           IN k \in CallRecord(k.host) /\ k.pc = "sent" /\ k.op = op /\ k.e2ee = e
  BY DEF Asked, AskedByHolder, NoCall, CallRecord, CallStages

\* and of one another client asks for.
LEMMA NewForeignCalls ==
    ASSUME NEW op \in Operations, NEW p \in WorkerProviders, NEW n \in WorkerProviders \cup {Mock},
           NEW m \in NearModels
    PROVE  LET k == AskedByHolder(n, p, op, m)
           IN k \in CallRecord(k.host) /\ k.pc = "sent" /\ k.op = op /\ k.e2ee = FALSE
  BY DEF Asked, AskedByHolder, NoCall, CallRecord, CallStages

\* What moving a call to a stage leaves,
LEMMA PcOnly ==
    ASSUME NEW h, NEW k \in CallRecord(h), NEW x \in CallStages
    PROVE  LET n == AtStage(k, x)
           IN /\ n \in CallRecord(h) /\ n.pc = x /\ n.op = k.op /\ n.path = k.path /\ n.name = k.name
              /\ n.model = k.model /\ n.e2ee = k.e2ee /\ n.host = k.host /\ n.fence = k.fence /\ n.zdr = k.zdr
              /\ h = k.host
  BY DEF CallRecord, AtStage, WithHost, Fenced

\* what naming its host leaves,
LEMMA HostAndZdr ==
    ASSUME NEW g, NEW k \in CallRecord(g), NEW x \in CallStages, NEW h, NEW z \in BOOLEAN
    PROVE  LET n == WithHost(k, h, z, x)
           IN /\ n \in CallRecord(h) /\ n.pc = x /\ n.op = k.op /\ n.path = k.path /\ n.name = k.name
              /\ n.model = k.model /\ n.e2ee = k.e2ee /\ n.host = h /\ n.fence = k.fence /\ n.zdr = z
  BY DEF CallRecord, AtStage, WithHost, Fenced

\* and what fencing it leaves.
LEMMA FenceAndPc ==
    ASSUME NEW h, NEW k \in CallRecord(h), NEW x \in CallStages
    PROVE  LET n == Fenced(k, x)
           IN /\ n \in CallRecord(h) /\ n.pc = x /\ n.op = k.op /\ n.path = k.path /\ n.name = k.name
              /\ n.model = k.model /\ n.e2ee = k.e2ee /\ n.host = k.host /\ n.fence /\ n.zdr = k.zdr
              /\ h = k.host
  BY DEF CallRecord, AtStage, WithHost, Fenced

\* Every step of a worker keeps the invariant.
LEMMA WorkerInvNext == WorkerInv /\ [WorkerNext]_workerVars => WorkerInv'
  <1> SUFFICES ASSUME WorkerInv, [WorkerNext]_workerVars PROVE WorkerInv'
    OBVIOUS
  <1>0. /\ workerCfg \in Configurations /\ workerCfg' = workerCfg
        /\ call = [c \in Calls |-> call[c]] /\ \A c \in Calls : call[c] \in CallRecord(call[c].host)
        /\ TakenInv /\ CredentialStaysHome
    <2>1. workerCfg' = workerCfg
      BY DEF WorkerNext, workerVars, RelayCalls, TokenHolderCalls, Aborts, AcceptCall, PrepareCall, PassFence,
             FenceFails, SendRequest, DiscoverEndpoints, EndpointsExpire, RetentionChanges, outside
    <2> QED BY <2>1 DEF WorkerInv, WorkerTypes
  \* a step that leaves the calls alone, or replaces one and sends nothing
  <1>1. ASSUME call' = call, dispatched' = dispatched PROVE WorkerInv'
    BY <1>0, <1>1 DEF WorkerInv, WorkerTypes, TakenInv, CredentialStaysHome, CallRecord, Prepared,
       CredentialOrigins, RealHosts, NearEnclaveOrigins
  <1>2. ASSUME NEW c \in Calls, NEW k, call' = [call EXCEPT ![c] = k], dispatched' = dispatched,
               k \in CallRecord(k.host), k.e2ee => k.op = "chat",
               workerCfg.env = "production" /\ k.pc \in {"preparing", "fencing", "sending"} =>
                  /\ k.name = k.path /\ k.path \in workerCfg.serves /\ k.name # Mock
                  /\ k.op = "attestation" /\ k.pc # "fencing" => k.fence
                  /\ k.op \in Metered /\ k.pc = "sending" => k.fence
                  /\ Prepared(k) =>
                        /\ k.zdr
                        /\ k.e2ee /\ k.name = Near => k.host = PinnedHost[k.model]
        PROVE  WorkerInv'
    <2>1. call' = [d \in Calls |-> call'[d]] /\ \A d \in Calls : call'[d] = IF d = c THEN k ELSE call[d]
      BY <1>0, <1>2
    <2>2. WorkerTypes'
      BY <1>0, <1>2, <2>1 DEF WorkerTypes, CallRecord
    <2>3. TakenInv'
      BY <1>0, <1>2, <2>1 DEF TakenInv, Prepared
    <2>4. CredentialStaysHome'
      BY <1>0, <1>2 DEF CredentialStaysHome, CredentialOrigins, RealHosts, NearEnclaveOrigins
    <2> QED BY <2>2, <2>3, <2>4 DEF WorkerInv
  <1>3. ASSUME NEW c \in Calls, NEW n \in WorkerProviders \cup {Mock}, NEW p \in WorkerProviders,
               NEW op \in Operations, NEW m \in NearModels, NEW e \in BOOLEAN, RelayCalls(c, n, p, op, m, e)
        PROVE  WorkerInv'
    <2> DEFINE f == e /\ op = "chat"
               k == Asked(n, p, op, m, f, ProviderBody)
    <2>1. call' = [call EXCEPT ![c] = k] /\ dispatched' = dispatched
      BY <1>3 DEF RelayCalls, Asked
    <2>2. f \in BOOLEAN /\ (f => op = "chat") /\ ProviderBody \in SUBSET Fields
      BY DEF ProviderBody
    <2> HIDE DEF f
    <2>3. k \in CallRecord(k.host) /\ k.pc = "sent" /\ k.op = op /\ k.e2ee = f
      BY <2>2, NewCalls
    <2> HIDE DEF k
    <2> QED BY <1>2, <2>1, <2>2, <2>3
  <1>4. ASSUME NEW c \in Calls, NEW n \in WorkerProviders \cup {Mock}, NEW p \in WorkerProviders,
               NEW op \in Operations, NEW m \in NearModels, TokenHolderCalls(c, n, p, op, m)
        PROVE  WorkerInv'
    <2> DEFINE k == AskedByHolder(n, p, op, m)
    <2>1. call' = [call EXCEPT ![c] = k] /\ dispatched' = dispatched
      BY <1>4 DEF TokenHolderCalls, AskedByHolder
    <2>2. k \in CallRecord(k.host) /\ k.pc = "sent" /\ k.op = op /\ k.e2ee = FALSE
      BY NewForeignCalls
    <2> HIDE DEF k
    <2> QED BY <1>2, <2>1, <2>2
  <1>5. ASSUME NEW c \in Calls, AcceptCall(c) PROVE WorkerInv'
    <2> DEFINE old == call[c]
               taken == /\ old.path \in workerCfg.serves /\ AssertWorkerProvider(old.path, old.name)
                        /\ old.name # Mock /\ old.op \in AdapterFor(old.name).ops
               x == IF taken THEN AfterAccept(old) ELSE "over"
               k == AtStage(old, x)
    <2>1. call' = [call EXCEPT ![c] = k] /\ dispatched' = dispatched
      BY <1>5 DEF AcceptCall, AtStage
    <2>2. x \in CallStages /\ (x # "over" => taken /\ x = AfterAccept(old))
      BY DEF AfterAccept, CallStages
    <2> HIDE DEF x
    <2>3. /\ k \in CallRecord(old.host) /\ k.pc = x /\ k.op = old.op /\ k.path = old.path /\ k.name = old.name
          /\ k.e2ee = old.e2ee /\ k.host = old.host
      BY <1>0, <2>2, PcOnly
    <2>4. workerCfg.env = "production" /\ x # "over" =>
             /\ old.name = old.path /\ old.path \in workerCfg.serves /\ old.name # Mock
             /\ x = IF old.op = "attestation" THEN "fencing" ELSE "preparing"
      BY <2>2 DEF AssertWorkerProvider, AfterAccept
    <2>5. old.e2ee => old.op = "chat"
      BY <1>0 DEF TakenInv
    <2> HIDE DEF k, old, taken
    <2> QED BY <1>2, <2>1, <2>3, <2>4, <2>5 DEF Prepared
  <1>6. ASSUME NEW c \in Calls, PrepareCall(c) PROVE WorkerInv'
    <2> DEFINE old == call[c]
    <2>1. PICK h \in HostsFor(old) :
             call' = [call EXCEPT ![c].host = h, ![c].zdr = RetentionConfirmed(old),
                                  ![c].pc = IF h = NoHost \/ c \in gone \/ ~RetentionConfirmed(old)
                                            THEN "over" ELSE AfterPrepare(old)]
      BY <1>6 DEF PrepareCall
    <2> DEFINE z == RetentionConfirmed(old)
               x == IF h = NoHost \/ c \in gone \/ ~z THEN "over" ELSE AfterPrepare(old)
               k == WithHost(old, h, z, x)
    <2>2. call' = [call EXCEPT ![c] = k] /\ dispatched' = dispatched /\ old.pc = "preparing"
      BY <1>6, <2>1 DEF PrepareCall, WithHost
    <2>3. x \in CallStages /\ z \in BOOLEAN
      BY DEF AfterPrepare, CallStages, RetentionConfirmed
    <2>4. x # "over" => h # NoHost /\ z /\ x = IF old.op \in Metered THEN "fencing" ELSE "sending"
      BY DEF AfterPrepare
    <2> HIDE DEF x, z
    <2>5. /\ k \in CallRecord(h) /\ k.pc = x /\ k.op = old.op /\ k.path = old.path /\ k.name = old.name
          /\ k.model = old.model /\ k.e2ee = old.e2ee /\ k.host = h /\ k.fence = old.fence /\ k.zdr = z
      BY <1>0, <2>3, HostAndZdr
    <2>6. /\ old.e2ee => old.op = "chat"
          /\ workerCfg.env = "production" =>
                /\ old.name = old.path /\ old.path \in workerCfg.serves /\ old.name # Mock
                /\ old.op = "attestation" => old.fence
      BY <1>0, <2>2 DEF TakenInv
    <2>7. old.name = Near /\ old.e2ee /\ h # NoHost => h = PinnedHost[old.model]
      BY <2>1, NearHostIsPinned
    <2>8. "attestation" \notin Metered
      BY DEF Metered
    <2> HIDE DEF k, old
    <2> QED BY <1>2, <2>2, <2>4, <2>5, <2>6, <2>7, <2>8 DEF Prepared
  <1>7. ASSUME NEW c \in Calls, PassFence(c) PROVE WorkerInv'
    <2> DEFINE old == call[c]
               x == IF old.op = "attestation" THEN "preparing" ELSE "sending"
               k == Fenced(old, x)
    <2>1. call' = [call EXCEPT ![c] = k] /\ dispatched' = dispatched /\ old.pc = "fencing"
      BY <1>7 DEF PassFence, Fenced
    <2>2. x \in CallStages /\ x = (IF old.op = "attestation" THEN "preparing" ELSE "sending")
      BY DEF CallStages
    <2> HIDE DEF x
    <2>5. old \in CallRecord(old.host)
      BY <1>0
    <2>3. /\ k \in CallRecord(old.host) /\ k.pc = x /\ k.op = old.op /\ k.path = old.path /\ k.name = old.name
          /\ k.model = old.model /\ k.e2ee = old.e2ee /\ k.host = old.host /\ k.fence /\ k.zdr = old.zdr
      <3> HIDE DEF old
      <3> QED BY <2>2, <2>5, FenceAndPc
    <2>4. /\ old.e2ee => old.op = "chat"
          /\ workerCfg.env = "production" =>
                /\ old.name = old.path /\ old.path \in workerCfg.serves /\ old.name # Mock
                /\ old.op # "attestation" =>
                      old.zdr /\ (old.e2ee /\ old.name = Near => old.host = PinnedHost[old.model])
      BY <1>0, <2>1 DEF TakenInv, Prepared
    <2> HIDE DEF k, old
    <2> QED BY <1>2, <2>1, <2>2, <2>3, <2>4 DEF Prepared
  <1>8. ASSUME NEW c \in Calls, FenceFails(c) PROVE WorkerInv'
    <2> DEFINE old == call[c]
               k == AtStage(old, "over")
    <2>1. call' = [call EXCEPT ![c] = k] /\ dispatched' = dispatched
      BY <1>8 DEF FenceFails, AtStage
    <2>2. k \in CallRecord(old.host) /\ k.pc = "over" /\ k.op = old.op /\ k.e2ee = old.e2ee /\ k.host = old.host
      BY <1>0, PcOnly DEF CallStages
    <2>3. old.e2ee => old.op = "chat"
      BY <1>0 DEF TakenInv
    <2> HIDE DEF k, old
    <2> QED BY <1>2, <2>1, <2>2, <2>3
  <1>9. ASSUME NEW c \in Calls, SendRequest(c) PROVE WorkerInv'
    <2> DEFINE old == call[c]
               k == AtStage(old, "over")
               s == [cred |-> old.name, host |-> old.host, path |-> old.path, op |-> old.op, model |-> old.model,
                     e2ee |-> old.e2ee, fence |-> old.fence, zdr |-> old.zdr,
                     body |-> old.body \ AdapterFor(old.name).strips]
    <2>1. /\ call' = [call EXCEPT ![c] = k] /\ old.pc = "sending"
          /\ dispatched' = dispatched \/ (dispatched' = dispatched \cup {s} /\ DestinationPermitted(old.name, old.host))
      BY <1>9 DEF SendRequest, AtStage
    <2>2. k \in CallRecord(old.host) /\ k.pc = "over" /\ k.op = old.op /\ k.e2ee = old.e2ee /\ k.host = old.host
      BY <1>0, PcOnly DEF CallStages
    <2>3. /\ old.e2ee => old.op = "chat"
          /\ workerCfg.env = "production" =>
                /\ old.name = old.path /\ old.path \in workerCfg.serves /\ old.name # Mock
                /\ old.op \in Metered \cup {"attestation"} => old.fence
                /\ old.zdr /\ (old.e2ee /\ old.name = Near => old.host = PinnedHost[old.model])
      BY <1>0, <2>1 DEF TakenInv, Prepared
    <2>4. old.name \in WorkerProviders \cup {Mock}
      BY <1>0 DEF CallRecord
    <2>5. \A d \in Calls : call'[d] = IF d = c THEN k ELSE call[d]
      BY <1>0, <2>1
    <2>6. call' = [d \in Calls |-> call'[d]]
      BY <1>0, <2>1
    <2>7. WorkerTypes' /\ TakenInv'
      <3> HIDE DEF k
      <3>1. WorkerTypes'
        BY <1>0, <2>2, <2>5, <2>6 DEF WorkerTypes, CallRecord
      <3>2. TakenInv'
        BY <1>0, <2>2, <2>3, <2>5 DEF TakenInv, Prepared
      <3> QED BY <3>1, <3>2
    <2>8. ASSUME workerCfg.env = "production", DestinationPermitted(old.name, old.host)
          PROVE  /\ s.cred = s.path /\ s.cred \in workerCfg.serves
                 /\ s.cred # BedrockName =>
                      s.host \in CredentialOrigins(s.cred, workerCfg.profile) \cup NearEnclaveOrigins(s.cred)
                 /\ s.op \in Metered \cup {"attestation"} => s.fence
                 /\ (s.e2ee /\ s.cred = Near) => s.host = PinnedHost[s.model]
                 /\ s.zdr
                 /\ s.cred # "venice" => {"routing", "venice_parameters"} \cap s.body = {}
      <3>1. old.name # BedrockName =>
              old.host \in CredentialOrigins(old.name, workerCfg.profile) \cup NearEnclaveOrigins(old.name)
        BY <1>0, <2>3, <2>8, OriginsAreOwn
      <3>2. old.name # "venice" => {"routing", "venice_parameters"} \subseteq AdapterFor(old.name).strips
        BY <2>3, <2>4, <2>8, StripsTheFields
      <3> HIDE DEF old
      <3> QED BY <2>3, <2>8, <3>1, <3>2
    <2>9. CredentialStaysHome'
      <3> HIDE DEF s, k, old
      <3> QED BY <1>0, <2>1, <2>8 DEF CredentialStaysHome, CredentialOrigins, RealHosts, NearEnclaveOrigins
    <2> QED BY <2>7, <2>9 DEF WorkerInv
  <1>10. CASE UNCHANGED workerVars
    BY <1>1, <1>10 DEF workerVars
  <1>11. ASSUME NEW c \in Calls, Aborts(c) PROVE WorkerInv'
    BY <1>1, <1>11 DEF Aborts
  <1>12. ASSUME (\E map \in Maps : DiscoverEndpoints(map)) \/ EndpointsExpire \/ RetentionChanges PROVE WorkerInv'
    BY <1>1, <1>12 DEF DiscoverEndpoints, EndpointsExpire, RetentionChanges
  <1> QED BY <1>3, <1>4, <1>5, <1>6, <1>7, <1>8, <1>9, <1>10, <1>11, <1>12 DEF WorkerNext

\* A worker sends a provider's credential to origins of that provider and
\* nowhere else, for any set of providers and models.
THEOREM CredentialsStayHome == WorkerSpec => []CredentialStaysHome
  <1>1. WorkerInit => WorkerInv
    <2> SUFFICES ASSUME WorkerInit PROVE WorkerInv
      OBVIOUS
    <2>1. call = [c \in Calls |-> NoCall] /\ dispatched = {} /\ workerCfg \in Configurations
      BY DEF WorkerInit
    <2>2. NoCall \in CallRecord(NoCall.host) /\ NoCall.pc = "idle" /\ NoCall.e2ee = FALSE
      BY DEF NoCall, CallRecord, CallStages, Operations, Metered, Evidence, ReadOnly
    <2> QED BY <2>1, <2>2 DEF WorkerInv, WorkerTypes, TakenInv, CredentialStaysHome
  <1>2. WorkerInv => CredentialStaysHome
    BY DEF WorkerInv
  <1> QED BY <1>1, <1>2, WorkerInvNext, PTL DEF WorkerSpec

-----------------------------------------------------------------------------
\* Public ingress.

IngressSpec == IngressInit /\ [][IngressNext]_ingressVars

ReqRecord ==
    [pc : {"redeeming", "failed", "serving", "done"}, addr : Addresses, automatic : BOOLEAN,
     leases : SUBSET Namespaces, released : BOOLEAN]

WindowInv == IsFiniteSet(DOMAIN windows) /\ Cardinality(DOMAIN windows) <= MaxEntries

\* What a request may hold: the second lease comes only with its redemption.
LeaseInv ==
    /\ active \in [AllKeys -> Nat]
    /\ req = [r \in Arrivals |-> req[r]]
    /\ \A r \in InFlight :
          /\ req[r] \in ReqRecord
          /\ req[r].pc = "done" \/ req[r].released => req[r].leases = {}
          /\ req[r].pc = "redeeming" => req[r].leases \subseteq {"ingress"}

CountInv == \A k \in AllKeys : active[k] = Cardinality(Holders(k))

IngressInv == WindowInv /\ LeaseInv /\ CountInv

\* The windows.
LEMMA WindowsStayBounded ==
    ASSUME WindowInv, NEW ns, NEW a,
           \/ windows' = windows
           \/ windows' = Refused(ns, a)
           \/ windows' = Counted(ns, a) /\ Admits(ns, a)
    PROVE  WindowInv'
  <1> DEFINE ks == KeysOf(ns, a)
  <1>1. IsFiniteSet(ks)
    <2>1. ks = (({} \cup {Key(ns, "global", a)}) \cup {Key(ns, "subnet", a)}) \cup {Key(ns, "exact", a)}
      BY DEF KeysOf, Scopes
    <2> HIDE DEF ks
    <2>2. IsFiniteSet({} \cup {Key(ns, "global", a)})
      BY FS_EmptySet, FS_AddElement
    <2>3. IsFiniteSet(({} \cup {Key(ns, "global", a)}) \cup {Key(ns, "subnet", a)})
      BY <2>2, FS_AddElement
    <2> QED BY <2>1, <2>3, FS_AddElement
  <1>2. DOMAIN AfterRead(ks) \subseteq DOMAIN windows /\ DOMAIN Swept \subseteq DOMAIN windows
    BY DEF AfterRead, Swept, Keep, Live
  <1>3. DOMAIN Basis(ks) \subseteq DOMAIN windows
    BY <1>2 DEF Basis
  <1>4. DOMAIN Refused(ns, a) \subseteq DOMAIN windows
    BY <1>2, <1>3 DEF Refused
  <1>5. ASSUME NEW D \in SUBSET DOMAIN windows PROVE IsFiniteSet(D) /\ Cardinality(D) <= MaxEntries
    <2>1. IsFiniteSet(D) /\ Cardinality(D) <= Cardinality(DOMAIN windows)
      BY FS_Subset DEF WindowInv
    <2>2. Cardinality(D) \in Nat /\ Cardinality(DOMAIN windows) \in Nat
      BY <2>1, FS_CardinalityType DEF WindowInv
    <2> QED BY <2>1, <2>2, IngressAssumption DEF WindowInv
  <1>6. CASE windows' = windows
    BY <1>6 DEF WindowInv
  <1>7. CASE windows' = Refused(ns, a)
    BY <1>4, <1>5, <1>7 DEF WindowInv
  <1>8. CASE windows' = Counted(ns, a) /\ Admits(ns, a)
    <2>1. DOMAIN windows' = DOMAIN Basis(ks) \cup ks
      BY <1>8 DEF Counted
    <2>2. Cardinality(DOMAIN Basis(ks) \cup ks) <= MaxEntries
      BY <1>8 DEF Admits, Room
    <2>3. IsFiniteSet(DOMAIN Basis(ks) \cup ks)
      BY <1>1, <1>3, <1>5, FS_Union
    <2> QED BY <2>1, <2>2, <2>3 DEF WindowInv
  <1> QED BY <1>6, <1>7, <1>8

\* The counters.
LEMMA HoldersFinite ==
    /\ \A k : IsFiniteSet(Holders(k)) /\ Cardinality(Holders(k)) \in Nat
    /\ \A k, r : IsFiniteSet(Holders(k) \ {r}) /\ Cardinality(Holders(k) \ {r}) \in Nat
  BY IngressAssumption, FS_Subset, FS_CardinalityType DEF Holders, InFlight

\* A set is one larger than it is without a member.
LEMMA CountByOne ==
    ASSUME NEW S \in SUBSET Arrivals, NEW r \in Arrivals
    PROVE  /\ Cardinality(S \ {r}) \in Nat
           /\ Cardinality(S) = Cardinality(S \ {r}) + (IF r \in S THEN 1 ELSE 0)
  <1>1. IsFiniteSet(S) /\ IsFiniteSet(S \ {r})
    BY IngressAssumption, FS_Subset
  <1>2. Cardinality(S) \in Nat /\ Cardinality(S \ {r}) \in Nat
    BY <1>1, FS_CardinalityType
  <1>3. Cardinality(S \ {r}) = IF r \in S THEN Cardinality(S) - 1 ELSE Cardinality(S)
    BY <1>1, FS_RemoveElement
  <1> QED BY <1>2, <1>3

\* When the record of one request changes, only it can join or leave the holders.
LEMMA OthersKeepHolding ==
    ASSUME NEW r \in Arrivals, \A q \in Arrivals \ {r} : req'[q] = req[q], NEW k
    PROVE  Holders(k)' \ {r} = Holders(k) \ {r}
  BY DEF Holders, InFlight, KeysOf, Key

\* A counter that moves with the one request that moved stays the count of its holders.
LEMMA CountFollows ==
    ASSUME LeaseInv, CountInv, NEW r \in Arrivals, \A q \in Arrivals \ {r} : req'[q] = req[q],
           \A k \in AllKeys : active'[k] = active[k] + (IF r \in Holders(k)' THEN 1 ELSE 0)
                                                     - (IF r \in Holders(k) THEN 1 ELSE 0)
    PROVE  CountInv'
  <1> SUFFICES ASSUME NEW k \in AllKeys PROVE active'[k] = Cardinality(Holders(k)')
    BY DEF CountInv, AllKeys, KeysOf, Key
  <1>1. Holders(k)' \in SUBSET Arrivals /\ Holders(k) \in SUBSET Arrivals
    BY DEF Holders, InFlight
  <1>2. Holders(k)' \ {r} = Holders(k) \ {r}
    BY OthersKeepHolding
  <1> DEFINE new == Holders(k)'
             old == Holders(k)
  <1>3. active[k] = Cardinality(old)
    BY DEF CountInv
  <1>4. /\ Cardinality(old \ {r}) \in Nat
        /\ Cardinality(old) = Cardinality(old \ {r}) + (IF r \in old THEN 1 ELSE 0)
        /\ Cardinality(new) = Cardinality(new \ {r}) + (IF r \in new THEN 1 ELSE 0)
    BY <1>1, CountByOne
  <1>5. active'[k] = active[k] + (IF r \in new THEN 1 ELSE 0) - (IF r \in old THEN 1 ELSE 0)
    OBVIOUS
  <1> HIDE DEF new, old
  <1> QED BY <1>2, <1>3, <1>4, <1>5 DEF new, old

\* A key belongs to one namespace.
LEMMA OneNamespace ==
    ASSUME NEW m \in Namespaces, NEW n \in Namespaces, NEW a, NEW b, NEW k \in KeysOf(m, a), k \in KeysOf(n, b)
    PROVE  m = n
  BY DEF KeysOf, Key

\* How the steps change the record of a request.
AtPc(t, x) == [t EXCEPT !.pc = x]
Leasing(t, ns) == [t EXCEPT !.pc = "serving", !.leases = @ \cup {ns}]
Released(t) ==
    [t EXCEPT !.released = TRUE, !.leases = {}, !.pc = IF @ \in {"failed", "serving"} THEN "done" ELSE @]

\* What the steps of a request do to its record.
LEMMA RecordSteps ==
    ASSUME NEW t \in ReqRecord
    PROVE  /\ \A x \in {"redeeming", "failed", "serving", "done"} :
                 /\ AtPc(t, x) \in ReqRecord /\ AtPc(t, x).pc = x /\ AtPc(t, x).addr = t.addr
                 /\ AtPc(t, x).leases = t.leases /\ AtPc(t, x).released = t.released
           /\ \A ns \in Namespaces :
                 /\ Leasing(t, ns) \in ReqRecord /\ Leasing(t, ns).pc = "serving" /\ Leasing(t, ns).addr = t.addr
                 /\ Leasing(t, ns).leases = t.leases \cup {ns} /\ Leasing(t, ns).released = t.released
           /\ Released(t) \in ReqRecord /\ Released(t).leases = {} /\ Released(t).addr = t.addr
  <1>1. ASSUME NEW x \in {"redeeming", "failed", "serving", "done"}
        PROVE  /\ AtPc(t, x) \in ReqRecord /\ AtPc(t, x).pc = x /\ AtPc(t, x).addr = t.addr
               /\ AtPc(t, x).leases = t.leases /\ AtPc(t, x).released = t.released
    BY DEF AtPc, ReqRecord
  <1>2. ASSUME NEW ns \in Namespaces
        PROVE  /\ Leasing(t, ns) \in ReqRecord /\ Leasing(t, ns).pc = "serving" /\ Leasing(t, ns).addr = t.addr
               /\ Leasing(t, ns).leases = t.leases \cup {ns} /\ Leasing(t, ns).released = t.released
    BY DEF Leasing, ReqRecord
  <1>3. Released(t) \in ReqRecord /\ Released(t).leases = {} /\ Released(t).addr = t.addr
    BY DEF Released, ReqRecord
  <1> QED BY <1>1, <1>2, <1>3

\* What a step may leave in the record of a request, and whether a record
\* counts under a key.
GoodRecord(t) ==
    t.pc \notin {"new", "refused"} =>
       /\ t \in ReqRecord
       /\ t.pc = "done" \/ t.released => t.leases = {}
       /\ t.pc = "redeeming" => t.leases \subseteq {"ingress"}
HoldsIn(t, k) == t.pc \notin {"new", "refused"} /\ \E ns \in t.leases : k \in KeysOf(ns, t.addr)
One(b) == IF b THEN 1 ELSE 0

\* A step of one request that keeps the lease rules and moves the counters
\* with the request.
LEMMA RequestStep ==
    ASSUME IngressInv, WindowInv', NEW r \in Arrivals, NEW t, req' = [req EXCEPT ![r] = t],
           active' \in [AllKeys -> Nat], GoodRecord(t),
           \A k \in AllKeys : active'[k] = active[k] + One(HoldsIn(t, k)) - One(HoldsIn(req[r], k))
    PROVE  IngressInv'
  <1>1. /\ req'[r] = t /\ \A q \in Arrivals \ {r} : req'[q] = req[q]
        /\ req' = [q \in Arrivals |-> req'[q]]
    BY DEF IngressInv, LeaseInv
  <1>2. LeaseInv'
    BY <1>1 DEF IngressInv, LeaseInv, InFlight, AllKeys, KeysOf, Key, GoodRecord
  <1>3. \A k : /\ r \in Holders(k)' <=> t.pc \notin {"new", "refused"} /\ \E ns \in t.leases : k \in KeysOf(ns, t.addr)
               /\ r \in Holders(k) <=> req[r].pc \notin {"new", "refused"}
                                         /\ \E ns \in req[r].leases : k \in KeysOf(ns, req[r].addr)
    BY <1>1 DEF Holders, InFlight, KeysOf, Key
  <1>4. CountInv'
    <2>1. \A k \in AllKeys : active'[k] = active[k] + (IF r \in Holders(k)' THEN 1 ELSE 0)
                                                     - (IF r \in Holders(k) THEN 1 ELSE 0)
      BY <1>3 DEF One, HoldsIn
    <2> QED BY <1>1, <2>1, CountFollows DEF IngressInv
  <1> QED BY <1>2, <1>4 DEF IngressInv

\* A step that moves a request on and leaves it its leases.
LEMMA LeasesKept ==
    ASSUME IngressInv, WindowInv', active' = active, NEW r \in Arrivals, r \in InFlight,
           NEW x \in {"redeeming", "failed", "serving", "done"}, req' = [req EXCEPT ![r] = AtPc(req[r], x)],
           x = "redeeming" => req[r].pc = "redeeming",
           x = "done" => req[r].released
    PROVE  IngressInv'
  <1>0. active \in [AllKeys -> Nat] /\ req[r] \in ReqRecord /\ req[r].pc \notin {"new", "refused"}
    BY DEF IngressInv, LeaseInv, InFlight
  <1>1. /\ req[r].released => req[r].leases = {}
        /\ req[r].pc = "redeeming" => req[r].leases \subseteq {"ingress"}
    BY DEF IngressInv, LeaseInv
  <1> DEFINE t == AtPc(req[r], x)
  <1>2. /\ t \in ReqRecord /\ t.pc = x /\ t.addr = req[r].addr /\ t.leases = req[r].leases
        /\ t.released = req[r].released
    BY <1>0, RecordSteps
  <1>3. req' = [req EXCEPT ![r] = t]
    OBVIOUS
  <1> HIDE DEF t
  <1>4. GoodRecord(t)
    BY <1>1, <1>2 DEF GoodRecord
  <1>5. \A k : HoldsIn(t, k) <=> HoldsIn(req[r], k)
    BY <1>0, <1>2 DEF HoldsIn
  <1>6. \A k \in AllKeys : active'[k] = active[k] + One(HoldsIn(t, k)) - One(HoldsIn(req[r], k))
    BY <1>0, <1>5 DEF One
  <1> QED BY <1>0, <1>3, <1>4, <1>6, RequestStep

\* Every step of the ingress keeps the invariant.
LEMMA IngressInvNext == IngressInv /\ [IngressNext]_ingressVars => IngressInv'
  <1> SUFFICES ASSUME IngressInv, [IngressNext]_ingressVars PROVE IngressInv'
    OBVIOUS
  <1>0. WindowInv /\ LeaseInv /\ CountInv /\ active \in [AllKeys -> Nat]
    BY DEF IngressInv, LeaseInv
  <1>1. ASSUME NEW r \in Arrivals, NEW a \in Addresses, RefuseArrival(r, a) PROVE IngressInv'
    <2> DEFINE t == [pc |-> "refused"]
    <2>1. WindowInv' /\ req[r].pc = "new" /\ active' = active /\ req' = [req EXCEPT ![r] = t]
      BY <1>0, <1>1, WindowsStayBounded DEF RefuseArrival
    <2>2. t.pc = "refused"
      OBVIOUS
    <2> HIDE DEF t
    <2>3. GoodRecord(t)
      BY <2>2 DEF GoodRecord
    <2>4. \A k : ~HoldsIn(t, k) /\ ~HoldsIn(req[r], k)
      BY <2>1, <2>2 DEF HoldsIn
    <2>5. \A k \in AllKeys : active'[k] = active[k] + One(HoldsIn(t, k)) - One(HoldsIn(req[r], k))
      BY <1>0, <2>1, <2>4 DEF One
    <2>6. active' \in [AllKeys -> Nat]
      BY <1>0, <2>1
    <2> QED BY <2>1, <2>3, <2>5, <2>6, RequestStep
  <1>2. ASSUME NEW r \in Arrivals, NEW a \in Addresses, NEW p \in Paths, Arrive(r, a, p) PROVE IngressInv'
    <2>1. WindowInv' /\ req[r].pc = "new" /\ active' = Entered(active, "ingress", a)
      BY <1>0, <1>2, WindowsStayBounded DEF Arrive
    <2>2. PICK x \in {"redeeming", "failed", "serving"} :
             req' = [req EXCEPT ![r] = [pc |-> x, addr |-> a, automatic |-> p = "chat",
                                        leases |-> {"ingress"}, released |-> FALSE]]
      BY <1>2 DEF Arrive, Paths
    <2> DEFINE t == [pc |-> x, addr |-> a, automatic |-> p = "chat", leases |-> {"ingress"}, released |-> FALSE]
    <2>3. /\ t \in ReqRecord /\ t.pc = x /\ t.addr = a /\ t.leases = {"ingress"} /\ ~t.released
      BY DEF ReqRecord, Namespaces
    <2>r. req' = [req EXCEPT ![r] = t]
      BY <2>2
    <2> HIDE DEF t
    <2>4. GoodRecord(t)
      BY <2>3 DEF GoodRecord
    <2>5. \A k : HoldsIn(t, k) <=> k \in KeysOf("ingress", a)
      BY <2>3 DEF HoldsIn
    <2>6. \A k : ~HoldsIn(req[r], k)
      BY <2>1 DEF HoldsIn
    <2>7. active' \in [AllKeys -> Nat]
      BY <1>0, <2>1 DEF Entered
    <2>8. \A k \in AllKeys : active'[k] = active[k] + One(HoldsIn(t, k)) - One(HoldsIn(req[r], k))
      BY <1>0, <2>1, <2>5, <2>6 DEF Entered, One
    <2> QED BY <2>1, <2>r, <2>4, <2>7, <2>8, RequestStep
  <1>3. ASSUME NEW r \in Arrivals, RedeemFails(r) \/ Redeemed(r) PROVE IngressInv'
    <2>1. PICK x \in {"failed", "serving"} :
             req' = [req EXCEPT ![r] = AtPc(req[r], x)] /\ UNCHANGED <<windows, active>> /\ req[r].pc = "redeeming"
      BY <1>3 DEF RedeemFails, Redeemed, AtPc
    <2>2. r \in InFlight /\ WindowInv'
      BY <1>0, <2>1 DEF InFlight, WindowInv
    <2> QED BY <1>0, <2>1, <2>2, LeasesKept
  <1>4. ASSUME NEW r \in Arrivals, RedeemedAutomatic(r) PROVE IngressInv'
    <2>1. WindowInv' /\ req[r].pc = "redeeming"
      BY <1>0, <1>4, WindowsStayBounded DEF RedeemedAutomatic
    <2>2. /\ r \in InFlight /\ req[r] \in ReqRecord /\ req[r].leases \subseteq {"ingress"}
          /\ req[r].released => req[r].leases = {}
      BY <1>0, <2>1 DEF InFlight, LeaseInv
    <2> DEFINE a == req[r].addr
    <2>3. CASE req' = [req EXCEPT ![r] = AtPc(req[r], "failed")] /\ active' = active
      BY <1>0, <2>1, <2>2, <2>3, LeasesKept
    <2>4. CASE /\ req[r].released /\ req' = [req EXCEPT ![r] = AtPc(req[r], "serving")]
               /\ active' = Left(Entered(active, "classifier", a), {"classifier"}, a)
      <3>1. \A k \in AllKeys : active'[k] = active[k]
        BY <1>0, <2>4 DEF Left, Entered
      <3>2. active' = [k \in AllKeys |-> active'[k]]
        BY <2>4 DEF Left
      <3>3. active' = active
        BY <1>0, <3>1, <3>2
      <3> QED BY <1>0, <2>1, <2>2, <2>4, <3>3, LeasesKept
    <2>5. CASE /\ ~req[r].released /\ req' = [req EXCEPT ![r] = Leasing(req[r], "classifier")]
               /\ active' = Entered(active, "classifier", a)
      <3> DEFINE t == Leasing(req[r], "classifier")
                 ks == KeysOf("classifier", a)
      <3>1. /\ t \in ReqRecord /\ t.pc = "serving" /\ t.addr = a /\ t.leases = req[r].leases \cup {"classifier"}
            /\ t.released = req[r].released
        BY <2>2, RecordSteps DEF Namespaces
      <3>2. active' \in [AllKeys -> Nat]
        BY <1>0, <2>5 DEF Entered
      <3>3. \A k : k \in ks => k \notin KeysOf("ingress", a)
        BY OneNamespace DEF Namespaces
      <3>r. req' = [req EXCEPT ![r] = t]
        BY <2>5
      <3>h. \A k \in AllKeys : active'[k] = active[k] + One(k \in ks)
        BY <1>0, <2>5 DEF Entered, One
      <3> HIDE DEF t, ks
      <3>4. GoodRecord(t)
        BY <2>5, <3>1 DEF GoodRecord
      <3>5. \A k : /\ HoldsIn(t, k) <=> HoldsIn(req[r], k) \/ k \in ks
                   /\ HoldsIn(req[r], k) => k \notin ks
        BY <2>1, <2>2, <3>1, <3>3 DEF HoldsIn, ks
      <3>6. \A k \in AllKeys : active'[k] = active[k] + One(HoldsIn(t, k)) - One(HoldsIn(req[r], k))
        BY <1>0, <3>h, <3>5 DEF One
      <3> QED BY <2>1, <3>r, <3>2, <3>4, <3>6, RequestStep
    <2> QED BY <1>4, <2>3, <2>4, <2>5 DEF RedeemedAutomatic, AddLease, AtPc, Leasing
  <1>5. ASSUME NEW r \in Arrivals, r \in InFlight, ReleaseLeases(r) PROVE IngressInv'
    <2>1. req[r] \in ReqRecord /\ (req[r].released => req[r].leases = {})
      BY <1>0, <1>5 DEF LeaseInv
    <2>2. WindowInv' /\ windows' = windows
      BY <1>0, <1>5 DEF ReleaseLeases, WindowInv
    <2>3. CASE req[r].released
      <3> DEFINE x == IF req[r].pc \in {"failed", "serving"} THEN "done" ELSE req[r].pc
      <3>1. req' = [req EXCEPT ![r] = AtPc(req[r], x)] /\ active' = active
        BY <1>5, <2>3 DEF ReleaseLeases, AtPc
      <3>2. x \in {"redeeming", "failed", "serving", "done"} /\ (x = "redeeming" => req[r].pc = "redeeming")
        BY <2>1 DEF ReqRecord
      <3> HIDE DEF x
      <3> QED BY <1>0, <1>5, <2>1, <2>2, <2>3, <3>1, <3>2, LeasesKept
    <2>4. CASE ~req[r].released
      <3> DEFINE t == Released(req[r])
      <3>1. req' = [req EXCEPT ![r] = t] /\ active' = Left(active, req[r].leases, req[r].addr)
        BY <1>5, <2>4 DEF ReleaseLeases, Released
      <3>2. t \in ReqRecord /\ t.leases = {} /\ t.addr = req[r].addr
        BY <2>1, RecordSteps
      <3> HIDE DEF t
      <3>5. req[r].pc \notin {"new", "refused"}
        BY <1>5 DEF InFlight
      <3>3. ASSUME NEW k \in AllKeys, HoldsIn(req[r], k) PROVE active[k] > 0
        <4> DEFINE S == Holders(k)
        <4>1. r \in S
          BY <1>5, <3>3 DEF Holders, HoldsIn
        <4>2. S \in SUBSET Arrivals
          BY DEF Holders, InFlight
        <4>3. active[k] = Cardinality(S)
          BY <1>0 DEF CountInv
        <4> HIDE DEF S
        <4>4. Cardinality(S \ {r}) \in Nat /\ Cardinality(S) = Cardinality(S \ {r}) + 1
          BY <4>1, <4>2, CountByOne
        <4> QED BY <4>3, <4>4
      <3>4. GoodRecord(t)
        BY <3>2 DEF GoodRecord
      <3>6. \A k : ~HoldsIn(t, k)
        BY <3>2 DEF HoldsIn
      <3>7. \A k \in AllKeys : active'[k] = IF HoldsIn(req[r], k) THEN active[k] - 1 ELSE active[k]
        BY <3>1, <3>3, <3>5 DEF Left, HoldsIn
      <3>8. \A k \in AllKeys : active'[k] = active[k] + One(HoldsIn(t, k)) - One(HoldsIn(req[r], k))
        BY <1>0, <3>6, <3>7 DEF One
      <3>9. active' = [k \in AllKeys |-> active'[k]] /\ \A k \in AllKeys : active'[k] \in Nat
        BY <1>0, <3>1, <3>3, <3>7 DEF Left
      <3> QED BY <1>0, <2>2, <3>1, <3>4, <3>8, <3>9, RequestStep
    <2> QED BY <2>3, <2>4
  <1>6. ASSUME NEW r \in Arrivals, ClientAborts(r) \/ Responds(r) PROVE IngressInv'
    BY <1>5, <1>6 DEF ClientAborts, Responds, InFlight
  <1>7. ASSUME UNCHANGED <<windows, active, req>> PROVE IngressInv'
    <2>1. InFlight' = InFlight /\ \A k : Holders(k)' = Holders(k)
      BY <1>7 DEF InFlight, Holders, KeysOf, Key
    <2>2. WindowInv'
      BY <1>0, <1>7 DEF WindowInv
    <2>4. LeaseInv'
      <3>1. AllKeys' = AllKeys
        BY DEF AllKeys, KeysOf, Key
      <3> QED BY <1>0, <1>7, <2>1, <3>1 DEF LeaseInv
    <2>3. CountInv'
      BY <1>0, <1>7, <2>1 DEF CountInv, AllKeys, KeysOf, Key
    <2> QED BY <2>2, <2>3, <2>4 DEF IngressInv
  <1>8. CASE IngressTick \/ UNCHANGED ingressVars
    BY <1>7, <1>8 DEF IngressTick, ingressVars
  <1> QED BY <1>1, <1>2, <1>3, <1>4, <1>6, <1>8 DEF IngressNext

\* The ingress guard's concurrency counters are what the requests in flight
\* hold, in every namespace and scope, for any number of requests.
THEOREM IngressCountsAreTrue == IngressSpec => []CountersAreTrue
  <1>1. IngressInit => IngressInv
    <2> SUFFICES ASSUME IngressInit PROVE IngressInv
      OBVIOUS
    <2>1. DOMAIN windows = {} /\ active = [k \in AllKeys |-> 0] /\ req = [r \in Arrivals |-> [pc |-> "new"]]
      BY DEF IngressInit
    <2>2. InFlight = {} /\ \A k : Holders(k) = {}
      BY <2>1 DEF InFlight, Holders
    <2> QED BY <2>1, <2>2, FS_EmptySet, IngressAssumption DEF IngressInv, WindowInv, LeaseInv, CountInv
  <1>2. IngressInv => CountersAreTrue
    BY DEF IngressInv, WindowInv, LeaseInv, CountInv, CountersAreTrue
  <1> QED BY <1>1, <1>2, IngressInvNext, PTL DEF IngressSpec

-----------------------------------------------------------------------------
\* The release-collateral client and role.

CollateralSpec == CollateralInit /\ [][CollateralNext]_collateralVars

\* A set is one larger than it is without a member.
LEMMA CountWithout ==
    ASSUME NEW S, IsFiniteSet(S), NEW r
    PROVE  /\ IsFiniteSet(S \ {r}) /\ Cardinality(S \ {r}) \in Nat /\ Cardinality(S) \in Nat
           /\ Cardinality(S) = Cardinality(S \ {r}) + (IF r \in S THEN 1 ELSE 0)
  <1>1. Cardinality(S) \in Nat /\ IsFiniteSet(S \ {r})
    BY FS_CardinalityType, FS_Subset
  <1>2. Cardinality(S \ {r}) \in Nat
    BY <1>1, FS_CardinalityType
  <1>3. Cardinality(S \ {r}) = IF r \in S THEN Cardinality(S) - 1 ELSE Cardinality(S)
    BY <1>1, FS_RemoveElement
  <1> QED BY <1>1, <1>2, <1>3

-----------------------------------------------------------------------------
CallPcs == {"calling", "sent", "answered"}
AskedOf == {q \in Shapes : IsFiniteSet(q.values)}
LookupRecord ==
    [pc : {"new", "done"}] \cup [pc : CallPcs \cup {"waiting", "direct", "directSent"}, ask : AskedOf, gone : BOOLEAN]
WorkRecord == [state : {"none"}] \cup [state : {"running", "detached"}, ask : AskedOf]

CallsOf == {c \in Lookups : lookup[c].pc \in CallPcs}
RunningIn == {c \in Lookups : work[c].state = "running"}

LookupType == lookup = [c \in Lookups |-> lookup[c]] /\ \A c \in Lookups : lookup[c] \in LookupRecord

LineInv ==
    /\ line \in Seq(Lookups)
    /\ \A i \in 1..Len(line) : lookup[line[i]].pc = "waiting"
    /\ \A i, j \in 1..Len(line) : i # j => line[i] # line[j]

OpenInv ==
    /\ open = Cardinality(CallsOf) /\ open <= MaxOpen
    /\ line # <<>> => open = MaxOpen

RoleInv ==
    /\ work = [c \in Lookups |-> work[c]]
    /\ \A c \in Lookups :
          /\ work[c] \in WorkRecord
          /\ work[c].state = "running" => lookup[c].pc \in {"sent", "directSent", "done"}
    /\ serving = Cardinality(RunningIn) /\ serving <= MaxConcurrent

SlotInv == LookupType /\ LineInv /\ OpenInv /\ RoleInv

\* The calls counted are finitely many.
LEMMA CallsFinite ==
    /\ IsFiniteSet(CallsOf) /\ IsFiniteSet(CallsOf') /\ IsFiniteSet(RunningIn) /\ IsFiniteSet(RunningIn')
  <1>1. CallsOf \in SUBSET Lookups /\ CallsOf' \in SUBSET Lookups /\ RunningIn \in SUBSET Lookups /\ RunningIn' \in SUBSET Lookups
    BY DEF CallsOf, RunningIn
  <1> QED BY <1>1, CollateralAssumption, FS_Subset

\* A record that changes while its call keeps its slot, its place in the line,
\* or neither.
LEMMA LookupStep ==
    ASSUME SlotInv, NEW c \in Lookups, NEW t \in LookupRecord, lookup' = [lookup EXCEPT ![c] = t],
           t.pc \in CallPcs <=> lookup[c].pc \in CallPcs, t.pc = "waiting" <=> lookup[c].pc = "waiting",
           line' = line, open' = open
    PROVE  LookupType' /\ LineInv' /\ OpenInv'
  <1>0. LookupType /\ LineInv /\ OpenInv
    BY DEF SlotInv
  <1>1. /\ lookup'[c] = t /\ \A d \in Lookups \ {c} : lookup'[d] = lookup[d]
        /\ lookup' = [d \in Lookups |-> lookup'[d]]
    BY <1>0 DEF LookupType
  <1>2. LookupType'
    BY <1>0, <1>1 DEF LookupType
  <1>3. \A d \in Lookups : (lookup'[d].pc = "waiting") <=> (lookup[d].pc = "waiting")
    BY <1>1
  <1>4. LineInv'
    <2>1. \A i \in 1..Len(line) : line[i] \in Lookups
      BY <1>0, ElementOfSeq DEF LineInv
    <2> QED BY <1>0, <1>3, <2>1 DEF LineInv
  <1>5. CallsOf' = CallsOf
    BY <1>1 DEF CallsOf, CallPcs
  <1> QED BY <1>0, <1>2, <1>4, <1>5 DEF OpenInv

\* The slot of a call that ends goes to the head of the line, or back.
LEMMA ReleaseStep ==
    ASSUME SlotInv, NEW c \in Lookups, lookup[c].pc \in CallPcs, Release(c)
    PROVE  /\ LookupType' /\ LineInv' /\ OpenInv'
           /\ \A d \in Lookups : \/ lookup'[d] = lookup[d]
                                 \/ lookup'[d].pc = "done"
                                 \/ lookup[d].pc = "waiting"
  <1>0. LookupType /\ LineInv /\ OpenInv
    BY DEF SlotInv
  <1> DEFINE over == [pc |-> "done"]
  <1>a. over \in LookupRecord /\ over.pc = "done"
    BY DEF LookupRecord
  <1> HIDE DEF over
  <1>b. c \in CallsOf /\ Cardinality(CallsOf) = Cardinality(CallsOf \ {c}) + 1 /\ Cardinality(CallsOf \ {c}) \in Nat
    <2>1. c \in CallsOf
      BY DEF CallsOf
    <2> QED BY <2>1, CallsFinite, CountWithout
  <1>1. CASE line = <<>>
    <2>1. lookup' = [lookup EXCEPT ![c] = over] /\ line' = line /\ open' = open - 1
      BY <1>1 DEF Release, over
    <2>2. /\ lookup'[c] = over /\ \A d \in Lookups \ {c} : lookup'[d] = lookup[d]
          /\ lookup' = [d \in Lookups |-> lookup'[d]]
      BY <1>0, <2>1 DEF LookupType
    <2>3. LookupType'
      BY <1>0, <1>a, <2>2 DEF LookupType
    <2>4. LineInv'
      BY <1>0, <1>1, <2>1 DEF LineInv
    <2>5. CallsOf' = CallsOf \ {c}
      BY <1>a, <2>2 DEF CallsOf, CallPcs
    <2>6. OpenInv'
      BY <1>0, <1>1, <1>b, <2>1, <2>5, CollateralAssumption DEF OpenInv
    <2> QED BY <1>a, <2>2, <2>3, <2>4, <2>6
  <1>2. CASE line # <<>>
    <2> DEFINE h == Head(line)
               s == [lookup[h] EXCEPT !.pc = "calling"]
    <2>h. h \in Lookups /\ h = line[1] /\ Len(line) \in Nat /\ Len(line) > 0 /\ lookup[h].pc = "waiting"
      BY <1>0, <1>2, HeadTailProperties, LenProperties, EmptySeq, ElementOfSeq DEF LineInv
    <2>n. h # c
      BY <2>h DEF CallPcs
    <2>s. s \in LookupRecord /\ s.pc = "calling"
      <3>1. lookup[h] \in [pc : CallPcs \cup {"waiting", "direct", "directSent"}, ask : AskedOf, gone : BOOLEAN]
        BY <1>0, <2>h DEF LookupType, LookupRecord
      <3> QED BY <3>1 DEF LookupRecord, CallPcs
    <2>1. line' = Tail(line) /\ open' = open
      BY <1>2 DEF Release
    <2>2. lookup' = [lookup EXCEPT ![c] = over, ![h].pc = "calling"]
      BY <1>2 DEF Release, over
    <2>3. /\ lookup'[c] = over /\ lookup'[h] = s
          /\ \A d \in Lookups \ {c, h} : lookup'[d] = lookup[d]
          /\ lookup' = [d \in Lookups |-> lookup'[d]]
      BY <1>0, <2>h, <2>n, <2>2 DEF LookupType
    <2> HIDE DEF s, h
    <2>4. LookupType'
      BY <1>0, <1>a, <2>s, <2>3 DEF LookupType
    <2>5. LineInv'
      <3>1. Tail(line) \in Seq(Lookups) /\ Len(Tail(line)) = Len(line) - 1
            /\ \A i \in 1..(Len(line) - 1) : Tail(line)[i] = line[i + 1]
        BY <1>0, <1>2, HeadTailProperties DEF LineInv
      <3>2. \A i \in 2..Len(line) : line[i] \in Lookups /\ line[i] # h /\ lookup[line[i]].pc = "waiting"
        BY <1>0, <2>h, ElementOfSeq DEF LineInv
      <3>3. \A i \in 2..Len(line) : lookup'[line[i]].pc = "waiting"
        BY <2>3, <3>2 DEF CallPcs
      <3>4. \A i \in 1..(Len(line) - 1) : i + 1 \in 2..Len(line)
        BY <2>h
      <3> QED BY <1>0, <2>h, <2>1, <3>1, <3>3, <3>4 DEF LineInv
    <2>6. CallsOf' = (CallsOf \ {c}) \cup {h} /\ h \notin CallsOf \ {c}
      BY <1>a, <2>h, <2>n, <2>s, <2>3 DEF CallsOf, CallPcs
    <2>7. Cardinality(CallsOf') = Cardinality(CallsOf)
      BY <1>b, <2>6, CallsFinite, CountWithout, FS_AddElement
    <2>8. OpenInv'
      BY <1>0, <1>2, <2>1, <2>7 DEF OpenInv
    <2>9. \A d \in Lookups : lookup'[d] = lookup[d] \/ lookup'[d].pc = "done" \/ lookup[d].pc = "waiting"
      BY <1>a, <2>h, <2>3
    <2> QED BY <2>4, <2>5, <2>8, <2>9
  <1> QED BY <1>1, <1>2

\* A new call takes a free slot or the end of the line.
LEMMA GatedStep ==
    ASSUME SlotInv, NEW c \in Lookups, Gated(c)
    PROVE  /\ LookupType' /\ LineInv' /\ OpenInv'
           /\ lookup[c].pc = "new" /\ \A d \in Lookups \ {c} : lookup'[d] = lookup[d]
  <1>0. LookupType /\ LineInv /\ OpenInv /\ lookup[c].pc = "new"
    BY DEF SlotInv, Gated
  <1>1. PICK q \in Questions :
           IF open >= MaxOpen
           THEN Asks(c, Contract(q), "waiting") /\ line' = Append(line, c) /\ UNCHANGED open
           ELSE Asks(c, Contract(q), "calling") /\ open' = open + 1 /\ UNCHANGED line
    BY DEF Gated
  <1>2. Contract(q) \in AskedOf
    <2>1. q \in Shapes /\ IsFiniteSet(q.values)
      BY CollateralAssumption
    <2>2. CASE q.op # "publication"
      BY <2>1, <2>2 DEF AskedOf, Contract
    <2>3. CASE q.op = "publication"
      <3>1. q \in [op : {"publication"}, values : SUBSET Files, odd : BOOLEAN]
        BY <2>1, <2>3 DEF Shapes
      <3>2. /\ [q EXCEPT !.odd = FALSE] \in [op : {"publication"}, values : SUBSET Files, odd : BOOLEAN]
            /\ [q EXCEPT !.odd = FALSE].values = q.values
        BY <3>1
      <3> QED BY <2>1, <2>3, <3>2 DEF AskedOf, Contract, ContractClaims, Shapes
    <2> QED BY <2>2, <2>3
  <1> DEFINE t(x) == [pc |-> x, ask |-> Contract(q), gone |-> FALSE]
  <1>3. \A x \in {"waiting", "calling"} : t(x) \in LookupRecord /\ t(x).pc = x
    BY <1>2 DEF LookupRecord, CallPcs
  <1>4. \A x : Asks(c, Contract(q), x) => lookup' = [lookup EXCEPT ![c] = t(x)]
    BY DEF Asks
  <1> HIDE DEF t
  <1>5. ASSUME NEW x \in {"waiting", "calling"}, Asks(c, Contract(q), x)
        PROVE  /\ LookupType' /\ lookup'[c] = t(x) /\ lookup'[c].pc = x
               /\ \A d \in Lookups \ {c} : lookup'[d] = lookup[d]
    BY <1>0, <1>3, <1>4, <1>5 DEF LookupType
  <1>6. \A i \in 1..Len(line) : line[i] \in Lookups /\ line[i] # c
    BY <1>0, ElementOfSeq DEF LineInv
  <1>n. open \in Nat /\ Len(line) \in Nat
    BY <1>0, CallsFinite, FS_CardinalityType, LenProperties DEF OpenInv, LineInv
  <1>7. CASE open >= MaxOpen
    <2>1. Asks(c, Contract(q), "waiting") /\ line' = Append(line, c) /\ open' = open
      BY <1>1, <1>7
    <2>2. /\ LookupType' /\ lookup'[c].pc = "waiting" /\ \A d \in Lookups \ {c} : lookup'[d] = lookup[d]
      BY <1>5, <2>1
    <2>3. /\ line' \in Seq(Lookups) /\ Len(line') = Len(line) + 1
          /\ \A i \in 1..Len(line) : line'[i] = line[i]
          /\ line'[Len(line) + 1] = c
      BY <1>0, <2>1, AppendProperties DEF LineInv
    <2>4. LineInv'
      <3>1. \A i \in 1..(Len(line) + 1) : i \in 1..Len(line) \/ i = Len(line) + 1
        BY <1>n
      <3> QED BY <1>0, <1>6, <2>2, <2>3, <3>1 DEF LineInv
    <2>5. CallsOf' = CallsOf
      BY <1>0, <2>2 DEF CallsOf, CallPcs
    <2>6. OpenInv'
      BY <1>0, <1>7, <1>n, <2>1, <2>5, CollateralAssumption DEF OpenInv
    <2> QED BY <1>0, <2>2, <2>4, <2>6
  <1>8. CASE ~(open >= MaxOpen)
    <2>1. Asks(c, Contract(q), "calling") /\ line' = line /\ open' = open + 1
      BY <1>1, <1>8
    <2>2. /\ LookupType' /\ lookup'[c].pc = "calling" /\ \A d \in Lookups \ {c} : lookup'[d] = lookup[d]
      BY <1>5, <2>1
    <2>3. line = <<>>
      BY <1>0, <1>8, <1>n, CollateralAssumption DEF OpenInv
    <2>4. LineInv'
      BY <1>0, <2>1, <2>3 DEF LineInv
    <2>5. CallsOf' = CallsOf \cup {c} /\ c \notin CallsOf
      BY <1>0, <2>2 DEF CallsOf, CallPcs
    <2>6. Cardinality(CallsOf') = open + 1
      BY <1>0, <2>5, CallsFinite, FS_AddElement DEF OpenInv
    <2>7. OpenInv'
      BY <1>0, <1>8, <1>n, <2>1, <2>3, <2>6, CollateralAssumption DEF OpenInv
    <2> QED BY <1>0, <2>2, <2>4, <2>7
  <1> QED BY <1>7, <1>8

-----------------------------------------------------------------------------
\* The role's side, when its work stays as it is.
LEMMA RoleUnmoved ==
    ASSUME SlotInv, work' = work, serving' = serving,
           \A d \in Lookups : work[d].state = "running" => \/ lookup'[d].pc \in {"sent", "directSent", "done"}
                                                          \/ lookup'[d] = lookup[d]
    PROVE  RoleInv'
  <1>1. RoleInv /\ RunningIn' = RunningIn
    BY DEF SlotInv, RunningIn
  <1> QED BY <1>1 DEF RoleInv

\* The work of one lookup changes and the count of slots follows.
LEMMA WorkStep ==
    ASSUME SlotInv, NEW c \in Lookups, NEW w \in WorkRecord, work' = [work EXCEPT ![c] = w],
           w.state = "running" => lookup'[c].pc \in {"sent", "directSent", "done"},
           \A d \in Lookups \ {c} : lookup'[d] = lookup[d],
           \/ w.state = "running" /\ work[c].state # "running" /\ serving' = serving + 1 /\ serving < MaxConcurrent
           \/ w.state # "running" /\ work[c].state = "running" /\ serving' = serving - 1
    PROVE  RoleInv'
  <1>0. RoleInv
    BY DEF SlotInv
  <1>1. /\ work'[c] = w /\ \A d \in Lookups \ {c} : work'[d] = work[d]
        /\ work' = [d \in Lookups |-> work'[d]]
    BY <1>0 DEF RoleInv
  <1>2. RunningIn' \ {c} = RunningIn \ {c} /\ (c \in RunningIn' <=> w.state = "running") /\ (c \in RunningIn <=> work[c].state = "running")
    BY <1>1 DEF RunningIn
  <1> DEFINE old == RunningIn
             new == RunningIn'
  <1>3. /\ Cardinality(old) = Cardinality(old \ {c}) + (IF c \in old THEN 1 ELSE 0)
        /\ Cardinality(new) = Cardinality(new \ {c}) + (IF c \in new THEN 1 ELSE 0)
        /\ Cardinality(old \ {c}) \in Nat /\ Cardinality(old) \in Nat
    BY CallsFinite, CountWithout
  <1>4. serving = Cardinality(old) /\ serving <= MaxConcurrent
    BY <1>0 DEF RoleInv
  <1>5. new \ {c} = old \ {c} /\ (c \in new <=> w.state = "running") /\ (c \in old <=> work[c].state = "running")
    BY <1>2
  <1>6. serving' = Cardinality(RunningIn') /\ serving' <= MaxConcurrent
    <2> HIDE DEF old, new
    <2>1. Cardinality(new \ {c}) = Cardinality(old \ {c}) /\ MaxConcurrent \in Nat
      BY <1>5, CollateralAssumption
    <2>2. serving' = Cardinality(new) /\ serving' <= MaxConcurrent
      <3>1. CASE w.state = "running" /\ work[c].state # "running" /\ serving' = serving + 1 /\ serving < MaxConcurrent
        BY <1>3, <1>4, <1>5, <2>1, <3>1
      <3>2. CASE w.state # "running" /\ work[c].state = "running" /\ serving' = serving - 1
        BY <1>3, <1>4, <1>5, <2>1, <3>2
      <3> QED BY <3>1, <3>2
    <2> QED BY <2>2 DEF new
  <1>7. \A d \in Lookups :
           work'[d] \in WorkRecord /\ (work'[d].state = "running" => lookup'[d].pc \in {"sent", "directSent", "done"})
    BY <1>0, <1>1 DEF RoleInv
  <1> QED BY <1>1, <1>6, <1>7 DEF RoleInv

\* What a reply leaves in the record of its call.
LEMMA ReplyStep ==
    ASSUME SlotInv, NEW c \in Lookups, NEW x, Reply(c, x), lookup[c].pc \notin {"new", "done"},
           x \in CallPcs \cup {"waiting", "direct", "directSent", "done"}
    PROVE  \E t \in LookupRecord : lookup' = [lookup EXCEPT ![c] = t] /\ t.pc = x
  <1>1. lookup[c] \in [pc : CallPcs \cup {"waiting", "direct", "directSent"}, ask : AskedOf, gone : BOOLEAN]
    BY DEF SlotInv, LookupType, LookupRecord
  <1>2. CASE x = "done"
    <2> DEFINE t == [pc |-> x]
    <2>1. t \in LookupRecord /\ t.pc = x
      BY <1>2 DEF LookupRecord
    <2>2. lookup' = [lookup EXCEPT ![c] = t]
      BY <1>2 DEF Reply
    <2> QED BY <2>1, <2>2
  <1>3. CASE x # "done"
    <2> DEFINE t == [lookup[c] EXCEPT !.pc = x]
    <2>1. t \in LookupRecord /\ t.pc = x
      BY <1>1, <1>3 DEF LookupRecord
    <2>2. lookup' = [lookup EXCEPT ![c] = t]
      BY <1>3 DEF Reply
    <2> QED BY <2>1, <2>2
  <1> QED BY <1>2, <1>3

\* A request at the role: what its answer does to a call that is not running.
LEMMA ArriveStep ==
    ASSUME SlotInv, NEW c \in Lookups, NEW answered, NEW running, ArriveAtRole(c, answered, running),
           \/ lookup[c].pc = "calling" /\ answered = "answered" /\ running = "sent"
           \/ lookup[c].pc = "direct" /\ answered = "done" /\ running = "directSent"
    PROVE  SlotInv'
  <1>0. /\ line' = line /\ open' = open /\ lookup[c].pc \notin {"new", "done", "waiting", "sent", "directSent"}
        /\ work[c].state # "running"
    BY DEF ArriveAtRole, SlotInv, RoleInv
  <1>1. PICK x \in {answered, running} :
           /\ Reply(c, x)
           /\ \/ UNCHANGED <<serving, work>>
              \/ /\ x = running /\ serving < MaxConcurrent /\ serving' = serving + 1
                 /\ work' = [work EXCEPT ![c] = [state |-> "running", ask |-> lookup[c].ask]]
    BY DEF ArriveAtRole, Refuse, RateLimitedRequest, Busy, RefuseNovel, Enter
  <1>2. PICK t \in LookupRecord : lookup' = [lookup EXCEPT ![c] = t] /\ t.pc = x
    BY <1>0, <1>1, ReplyStep DEF CallPcs
  <1>3. LookupType' /\ LineInv' /\ OpenInv'
    BY <1>0, <1>2, LookupStep DEF CallPcs
  <1>4. lookup'[c] = t /\ \A d \in Lookups \ {c} : lookup'[d] = lookup[d]
    BY <1>2 DEF SlotInv, LookupType
  <1>5. CASE UNCHANGED <<serving, work>>
    BY <1>0, <1>3, <1>4, <1>5, RoleUnmoved DEF SlotInv
  <1>6. CASE /\ x = running /\ serving < MaxConcurrent /\ serving' = serving + 1
             /\ work' = [work EXCEPT ![c] = [state |-> "running", ask |-> lookup[c].ask]]
    <2> DEFINE w == [state |-> "running", ask |-> lookup[c].ask]
    <2>1. lookup[c].ask \in AskedOf
      BY <1>0 DEF SlotInv, LookupType, LookupRecord
    <2>2. w \in WorkRecord /\ w.state = "running"
      BY <2>1 DEF WorkRecord
    <2>3. work' = [work EXCEPT ![c] = w]
      BY <1>6
    <2> HIDE DEF w
    <2>5. lookup'[c].pc \in {"sent", "directSent", "done"}
      BY <1>2, <1>4, <1>6
    <2>4. RoleInv'
      BY <1>0, <1>4, <1>6, <2>2, <2>3, <2>5, WorkStep
    <2> QED BY <1>3, <2>4 DEF SlotInv
  <1> QED BY <1>1, <1>5, <1>6

\* Every step keeps the counters.
LEMMA SlotInvNext == SlotInv /\ [CollateralNext]_collateralVars => SlotInv'
  <1> SUFFICES ASSUME SlotInv, [CollateralNext]_collateralVars PROVE SlotInv'
    OBVIOUS
  <1>0. LookupType /\ LineInv /\ OpenInv /\ RoleInv
    BY DEF SlotInv
  <1>1. ASSUME NEW c \in Lookups, Gated(c) PROVE SlotInv'
    <2>1. work' = work /\ serving' = serving /\ work[c].state # "running"
      BY <1>0, <1>1, GatedStep DEF Gated, RoleInv
    <2> QED BY <1>1, <2>1, GatedStep, RoleUnmoved DEF SlotInv
  <1>2. ASSUME NEW c \in Lookups, Cancel(c) PROVE SlotInv'
    <2> DEFINE t == [lookup[c] EXCEPT !.gone = TRUE]
    <2>1. lookup[c] \in [pc : CallPcs \cup {"waiting", "direct", "directSent"}, ask : AskedOf, gone : BOOLEAN]
      BY <1>0, <1>2 DEF Cancel, LookupType, LookupRecord
    <2>2. t \in LookupRecord /\ t.pc = lookup[c].pc
      BY <2>1 DEF LookupRecord
    <2>3. lookup' = [lookup EXCEPT ![c] = t] /\ line' = line /\ open' = open /\ work' = work /\ serving' = serving
      BY <1>2 DEF Cancel
    <2> HIDE DEF t
    <2>4. LookupType' /\ LineInv' /\ OpenInv'
      BY <2>2, <2>3, LookupStep
    <2>5. \A d \in Lookups : lookup'[d].pc = lookup[d].pc
      BY <1>0, <2>2, <2>3 DEF LookupType
    <2>6. RoleInv'
      BY <1>0, <2>3, <2>5, RoleUnmoved DEF RoleInv
    <2> QED BY <2>4, <2>6 DEF SlotInv
  <1>3. ASSUME NEW c \in Lookups, BeginCancelled(c) \/ GiveUp(c) \/ Receive(c) PROVE SlotInv'
    <2>1. Release(c) /\ lookup[c].pc \in CallPcs /\ work' = work /\ serving' = serving
      BY <1>3 DEF BeginCancelled, GiveUp, Receive, CallPcs
    <2>2. /\ LookupType' /\ LineInv' /\ OpenInv'
          /\ \A d \in Lookups : lookup'[d] = lookup[d] \/ lookup'[d].pc = "done" \/ lookup[d].pc = "waiting"
      BY <2>1, ReleaseStep
    <2>3. RoleInv'
      BY <1>0, <2>1, <2>2, RoleUnmoved DEF RoleInv
    <2> QED BY <2>2, <2>3 DEF SlotInv
  <1>4. ASSUME NEW c \in Lookups, Direct(c) PROVE SlotInv'
    <2>1. PICK q \in Questions : Asks(c, q, "direct")
      BY <1>4 DEF Direct
    <2> DEFINE t == [pc |-> "direct", ask |-> q, gone |-> FALSE]
    <2>2. q \in AskedOf
      BY CollateralAssumption DEF AskedOf
    <2>3. t \in LookupRecord /\ t.pc = "direct"
      BY <2>2 DEF LookupRecord
    <2>4. lookup' = [lookup EXCEPT ![c] = t]
      BY <2>1 DEF Asks
    <2>5. line' = line /\ open' = open /\ work' = work /\ serving' = serving /\ lookup[c].pc = "new"
      BY <1>4 DEF Direct
    <2> HIDE DEF t
    <2>6. LookupType' /\ LineInv' /\ OpenInv'
      BY <2>3, <2>4, <2>5, LookupStep DEF CallPcs
    <2>7. \A d \in Lookups : d # c => lookup'[d] = lookup[d]
      BY <1>0, <2>4 DEF LookupType
    <2>8. RoleInv'
      BY <1>0, <2>5, <2>7, RoleUnmoved DEF RoleInv
    <2> QED BY <2>6, <2>8 DEF SlotInv
  <1>5. ASSUME NEW c \in Lookups, Serve(c) \/ ServeDirect(c) PROVE SlotInv'
    BY <1>5, ArriveStep DEF Serve, ServeDirect
  <1>6. ASSUME NEW c \in Lookups, TurnAway(c) PROVE SlotInv'
    <2>1. /\ Reply(c, "done") /\ lookup[c].pc = "direct"
          /\ line' = line /\ open' = open /\ work' = work /\ serving' = serving
      BY <1>6 DEF TurnAway
    <2>2. PICK t \in LookupRecord : lookup' = [lookup EXCEPT ![c] = t] /\ t.pc = "done"
      BY <2>1, ReplyStep
    <2>3. LookupType' /\ LineInv' /\ OpenInv'
      BY <2>1, <2>2, LookupStep DEF CallPcs
    <2>4. \A d \in Lookups : d # c => lookup'[d] = lookup[d]
      BY <1>0, <2>2 DEF LookupType
    <2>5. RoleInv'
      BY <1>0, <2>1, <2>4, RoleUnmoved DEF RoleInv
    <2> QED BY <2>3, <2>5 DEF SlotInv
  <1>7. ASSUME NEW c \in Lookups, Finish(c) \/ Deadline(c) PROVE SlotInv'
    <2>1. PICK x \in {"answered", "done"} :
             /\ Reply(c, x) /\ (x = "answered" <=> lookup[c].pc = "sent")
      BY <1>7 DEF Finish, Deadline
    <2>2. /\ lookup[c].pc \in {"sent", "directSent"} /\ work[c].state = "running"
          /\ line' = line /\ open' = open /\ serving' = serving - 1
      BY <1>7 DEF Finish, Deadline
    <2>3. PICK t \in LookupRecord : lookup' = [lookup EXCEPT ![c] = t] /\ t.pc = x
      BY <2>1, <2>2, ReplyStep DEF CallPcs
    <2>4. LookupType' /\ LineInv' /\ OpenInv'
      BY <2>1, <2>2, <2>3, LookupStep DEF CallPcs
    <2>5. PICK w \in WorkRecord : work' = [work EXCEPT ![c] = w] /\ w.state # "running"
      <3> DEFINE none == [state |-> "none"]
                 left == [work[c] EXCEPT !.state = "detached"]
      <3>1. none \in WorkRecord /\ none.state # "running"
        BY DEF WorkRecord
      <3>2. left \in WorkRecord /\ left.state # "running"
        BY <1>0, <2>2 DEF RoleInv, WorkRecord
      <3>3. work' = [work EXCEPT ![c] = none] \/ work' = [work EXCEPT ![c] = left]
        BY <1>7 DEF Finish, Deadline
      <3> QED BY <3>1, <3>2, <3>3
    <2>6. \A d \in Lookups \ {c} : lookup'[d] = lookup[d]
      BY <1>0, <2>3 DEF LookupType
    <2>7. RoleInv'
      BY <2>2, <2>5, <2>6, WorkStep
    <2> QED BY <2>4, <2>7 DEF SlotInv
  <1>8. ASSUME NEW c \in Lookups, Disconnect(c) PROVE SlotInv'
    <2> DEFINE w == [work[c] EXCEPT !.state = "detached"]
    <2>1. w \in WorkRecord /\ w.state # "running"
      BY <1>0, <1>8 DEF Disconnect, RoleInv, WorkRecord
    <2>2. /\ work' = [work EXCEPT ![c] = w] /\ serving' = serving - 1 /\ work[c].state = "running"
          /\ UNCHANGED <<lookup, line, open>>
      BY <1>8 DEF Disconnect
    <2> HIDE DEF w
    <2>3. RoleInv'
      BY <2>1, <2>2, WorkStep
    <2>4. LookupType' /\ LineInv' /\ OpenInv'
      BY <1>0, <2>2 DEF LookupType, LineInv, OpenInv, CallsOf
    <2> QED BY <2>3, <2>4 DEF SlotInv
  <1>9. ASSUME UNCHANGED <<lookup, line, open, work, serving>> PROVE SlotInv'
    BY <1>0, <1>9 DEF SlotInv, LookupType, LineInv, OpenInv, RoleInv, CallsOf, RunningIn
  <1>10. CASE CollateralTick \/ UNCHANGED collateralVars \/ \E c \in Lookups : Look(c)
    BY <1>9, <1>10 DEF CollateralTick, collateralVars, Look
  <1> QED BY <1>1, <1>2, <1>3, <1>4, <1>5, <1>6, <1>7, <1>8, <1>10 DEF CollateralNext, ClientNext, RoleNext

\* Nothing is open at the start.
LEMMA SlotInvInit == CollateralInit => SlotInv
  <1> SUFFICES ASSUME CollateralInit PROVE SlotInv
    OBVIOUS
  <1>1. CallsOf = {} /\ RunningIn = {}
    BY DEF CollateralInit, CallsOf, RunningIn, CallPcs
  <1>2. Cardinality(CallsOf) = 0 /\ Cardinality(RunningIn) = 0
    BY <1>1, FS_EmptySet
  <1>3. LookupType
    BY DEF CollateralInit, LookupType, LookupRecord
  <1>4. LineInv
    BY DEF CollateralInit, LineInv
  <1>5. RoleInv
    BY <1>2, CollateralAssumption DEF CollateralInit, RoleInv, WorkRecord
  <1>6. OpenInv
    BY <1>2, CollateralAssumption DEF CollateralInit, OpenInv
  <1> QED BY <1>3, <1>4, <1>5, <1>6 DEF SlotInv

\* The open count of the collateral client and the serving count of the role are
\* what is running, for any number of lookups.
THEOREM CollateralSlotsAreCounted == CollateralSpec => []SlotsAreCounted
  <1>1. SlotInv => SlotsAreCounted
    BY DEF SlotInv, RoleInv, OpenInv, SlotsAreCounted, CallsOf, RunningIn, CallPcs
  <1> QED BY <1>1, SlotInvInit, SlotInvNext, PTL DEF CollateralSpec

-----------------------------------------------------------------------------
\* The values of a kind that reached an upstream, that a lookup may still ask
\* about, or that the role remembers.
AskedFor(k) == UNION {work[c].ask.values : c \in {d \in Lookups : work[d].state \in {"running", "detached"} /\ work[d].ask.op = k}}
Paid(k) == outbound[k] \cup AskedFor(k) \cup ToSet(ledger[k].admitted)

LedgerRecord == [admitted : Seq(Files \cup Apps), credit : Nat]
LedgerType ==
    /\ ledger \in [Kinds -> LedgerRecord] /\ cTime \in Nat
    /\ outbound = [k \in Kinds |-> outbound[k]]

\* Every value that was paid for is covered by what the allowance has spent.
AllowanceInv ==
    \A k \in Kinds :
        /\ IsFiniteSet(Paid(k))
        /\ Cardinality(Paid(k)) * NovelTicks + ledger[k].credit <= NovelBurst * NovelTicks + cTime

CollateralInv == SlotInv /\ LedgerType /\ AllowanceInv

\* What the role remembers after an admission is what it remembered and what
\* was asked.
LEMMA AdmittedIsKnown ==
    ASSUME LedgerType, NEW k \in Kinds, NEW vs \in SUBSET (Files \cup Apps), IsFiniteSet(vs),
           IsFiniteSet(ToSet(ledger[k].admitted)), NEW s \in Admitted(k, vs)
    PROVE  s \in Seq(Files \cup Apps) /\ ToSet(s) \subseteq ToSet(ledger[k].admitted) \cup vs
  <1> DEFINE old == ledger[k].admitted
             all == ToSet(old) \cup vs
             V == Files \cup Apps
  <1>1. all \in SUBSET V
    <2>1. old \in Seq(V)
      BY DEF LedgerType, LedgerRecord
    <2>2. ToSet(old) \in SUBSET V
      BY <2>1, ElementOfSeq, LenProperties DEF ToSet
    <2> QED BY <2>2
  <1>2. IsFiniteSet(all) /\ Cardinality(all) \in Nat
    <2>1. IsFiniteSet(all)
      BY FS_Union
    <2> QED BY <2>1, FS_CardinalityType
  <1>3. PICK t \in [1..Cardinality(all) -> all] :
           s = SubSeq(t, IF Len(t) > MaxSubjects THEN Len(t) - MaxSubjects + 1 ELSE 1, Len(t))
    BY DEF Admitted, SetToSeqs
  <1> HIDE DEF all, V
  <1>4. t \in Seq(all) /\ Len(t) = Cardinality(all)
    BY <1>2, IsASeq, LenProperties
  <1> DEFINE a == IF Len(t) > MaxSubjects THEN Len(t) - MaxSubjects + 1 ELSE 1
  <1>5. a \in 1..(Len(t) + 1) /\ Len(t) \in Nat
    BY <1>2, <1>4, CollateralAssumption
  <1> HIDE DEF a
  <1>6. /\ s \in Seq(all)
        /\ \A i \in DOMAIN s : s[i] \in all
    <2>1. s = SubSeq(t, a, Len(t))
      BY <1>3 DEF a
    <2>2. SubSeq(t, a, Len(t)) \in Seq(all)
      BY <1>4, <1>5, SubSeqProperties
    <2> QED BY <2>1, <2>2, ElementOfSeq, LenProperties
  <1>7. s \in Seq(V)
    BY <1>1, <1>6, SeqMonotonic
  <1> QED BY <1>6, <1>7 DEF ToSet, all, V

\* Multiplication keeps the order of natural numbers.
LEMMA Scaled ==
    ASSUME NEW m \in Nat, NEW n \in Nat, NEW u \in Nat, m <= n
    PROVE  m * u <= n * u /\ m * u \in Nat /\ n * u \in Nat
  <1> DEFINE d == n - m
  <1>1. d \in Nat /\ n = m + d
    OBVIOUS
  <1> HIDE DEF d
  <1>2. (m + d) * u = m * u + d * u /\ d * u \in Nat /\ m * u \in Nat
    BY <1>1
  <1> QED BY <1>1, <1>2

\* A step that pays for nothing new.
LEMMA NothingNew ==
    ASSUME LedgerType, AllowanceInv, LedgerType', cTime' \in {cTime, cTime + 1},
           \A k \in Kinds : /\ Paid(k)' \subseteq Paid(k)
                            /\ ledger'[k].credit <= ledger[k].credit + (cTime' - cTime)
    PROVE  AllowanceInv'
  <1> SUFFICES ASSUME NEW k \in Kinds
               PROVE  /\ IsFiniteSet(Paid(k)')
                      /\ Cardinality(Paid(k)') * NovelTicks + ledger'[k].credit <= NovelBurst * NovelTicks + cTime'
    BY DEF AllowanceInv, Kinds
  <1> DEFINE old == Paid(k)
             new == Paid(k)'
  <1>1. IsFiniteSet(old) /\ new \subseteq old
    BY DEF AllowanceInv
  <1>2. IsFiniteSet(new) /\ Cardinality(new) <= Cardinality(old) /\ Cardinality(new) \in Nat /\ Cardinality(old) \in Nat
    BY <1>1, FS_Subset, FS_CardinalityType
  <1>3. Cardinality(old) * NovelTicks + ledger[k].credit <= NovelBurst * NovelTicks + cTime
    BY DEF AllowanceInv
  <1>4. /\ ledger[k].credit \in Nat /\ ledger'[k].credit \in Nat /\ cTime \in Nat /\ NovelTicks \in Nat /\ NovelBurst \in Nat
        /\ ledger'[k].credit <= ledger[k].credit + (cTime' - cTime)
    BY CollateralAssumption DEF LedgerType, LedgerRecord
  <1> HIDE DEF old, new
  <1>5. Cardinality(new) * NovelTicks <= Cardinality(old) * NovelTicks
    BY <1>2, <1>4, Scaled
  <1>6. Cardinality(new) * NovelTicks \in Nat /\ Cardinality(old) * NovelTicks \in Nat /\ NovelBurst * NovelTicks \in Nat
    BY <1>2, <1>4
  <1>7. Cardinality(new) * NovelTicks + ledger'[k].credit <= NovelBurst * NovelTicks + cTime'
    BY <1>3, <1>4, <1>5, <1>6
  <1> QED BY <1>2, <1>7 DEF new

\* Every new value asked is paid for.
LEMMA PaysForNovel ==
    ASSUME LedgerType, AllowanceInv, LedgerType', cTime' = cTime, NEW k \in Kinds, NEW vs, IsFiniteSet(vs),
           Allowed(k, vs), ledger'[k].credit = ledger[k].credit - Novel(k, vs) * NovelTicks,
           Paid(k)' \subseteq Paid(k) \cup vs,
           \A j \in Kinds \ {k} : Paid(j)' \subseteq Paid(j) /\ ledger'[j].credit = ledger[j].credit
    PROVE  AllowanceInv'
  <1> DEFINE old == Paid(k)
             new == Paid(k)'
             novel == vs \ ToSet(ledger[k].admitted)
             c == ledger[k].credit
  <1>1. /\ IsFiniteSet(old) /\ Cardinality(old) \in Nat
        /\ IsFiniteSet(novel) /\ Cardinality(novel) \in Nat
    BY FS_Subset, FS_CardinalityType DEF AllowanceInv
  <1>2. new \subseteq old \cup novel
    BY DEF Paid
  <1>3. Cardinality(old) * NovelTicks + c <= NovelBurst * NovelTicks + cTime /\ ledger'[k].credit = c - Cardinality(novel) * NovelTicks
    BY DEF AllowanceInv, Novel
  <1>4. c \in Nat /\ ledger'[k].credit \in Nat /\ cTime \in Nat /\ NovelTicks \in Nat /\ NovelBurst \in Nat
    BY CollateralAssumption DEF LedgerType, LedgerRecord
  <1> HIDE DEF old, new, novel, c
  <1>5. IsFiniteSet(new) /\ Cardinality(new) <= Cardinality(old) + Cardinality(novel) /\ Cardinality(new) \in Nat
    <2>1. IsFiniteSet(old \cup novel) /\ Cardinality(old \cup novel) = Cardinality(old) + Cardinality(novel) - Cardinality(old \cap novel)
      BY <1>1, FS_Union
    <2>2. IsFiniteSet(new) /\ Cardinality(new) <= Cardinality(old \cup novel)
      BY <1>2, <2>1, FS_Subset
    <2>3. Cardinality(old \cap novel) \in Nat /\ Cardinality(new) \in Nat /\ Cardinality(old \cup novel) \in Nat
      BY <1>1, <2>1, <2>2, FS_Subset, FS_CardinalityType
    <2> QED BY <1>1, <2>1, <2>2, <2>3
  <1>6. Cardinality(new) * NovelTicks + ledger'[k].credit <= NovelBurst * NovelTicks + cTime'
    <2>1. /\ Cardinality(new) * NovelTicks <= (Cardinality(old) + Cardinality(novel)) * NovelTicks
          /\ Cardinality(new) * NovelTicks \in Nat
      BY <1>1, <1>4, <1>5, Scaled
    <2>2. (Cardinality(old) + Cardinality(novel)) * NovelTicks = Cardinality(old) * NovelTicks + Cardinality(novel) * NovelTicks
      BY <1>1, <1>4
    <2>3. /\ Cardinality(old) * NovelTicks \in Nat /\ Cardinality(novel) * NovelTicks \in Nat /\ NovelBurst * NovelTicks \in Nat
      BY <1>1, <1>4
    <2> QED BY <1>3, <1>4, <2>1, <2>2, <2>3
  <1>7. ASSUME NEW j \in Kinds \ {k}
        PROVE  /\ IsFiniteSet(Paid(j)')
               /\ Cardinality(Paid(j)') * NovelTicks + ledger'[j].credit <= NovelBurst * NovelTicks + cTime'
    <2> DEFINE before == Paid(j)
               after == Paid(j)'
    <2>1. after \subseteq before /\ IsFiniteSet(before)
      BY DEF AllowanceInv
    <2>2. /\ Cardinality(before) * NovelTicks + ledger[j].credit <= NovelBurst * NovelTicks + cTime
          /\ ledger'[j].credit = ledger[j].credit /\ ledger[j].credit \in Nat
      BY DEF AllowanceInv, LedgerType, LedgerRecord
    <2> HIDE DEF before, after
    <2>3. /\ IsFiniteSet(after) /\ Cardinality(after) <= Cardinality(before)
          /\ Cardinality(after) \in Nat /\ Cardinality(before) \in Nat
      BY <2>1, FS_Subset, FS_CardinalityType
    <2>4. /\ Cardinality(after) * NovelTicks <= Cardinality(before) * NovelTicks
          /\ Cardinality(after) * NovelTicks \in Nat /\ Cardinality(before) * NovelTicks \in Nat
      BY <1>4, <2>3, Scaled
    <2>5. NovelBurst * NovelTicks \in Nat
      BY <1>4
    <2>6. Cardinality(after) * NovelTicks + ledger'[j].credit <= NovelBurst * NovelTicks + cTime'
      BY <1>4, <2>2, <2>4, <2>5
    <2> QED BY <2>3, <2>6 DEF after
  <1>8. IsFiniteSet(Paid(k)') /\ Cardinality(Paid(k)') * NovelTicks + ledger'[k].credit <= NovelBurst * NovelTicks + cTime'
    BY <1>5, <1>6 DEF new
  <1> QED BY <1>7, <1>8 DEF AllowanceInv, Kinds

\* The work of one lookup changes: what may be asked changes with it.
LEMMA AskedForFollows ==
    ASSUME SlotInv, NEW c \in Lookups, NEW w, work' = [work EXCEPT ![c] = w], NEW k \in Kinds
    PROVE  AskedFor(k)' \subseteq
              AskedFor(k) \cup (IF w.state \in {"running", "detached"} /\ w.ask.op = k THEN w.ask.values ELSE {})
  <1>1. work'[c] = w /\ \A d \in Lookups \ {c} : work'[d] = work[d]
    BY DEF SlotInv, RoleInv
  <1> QED BY <1>1 DEF AskedFor

\* Every step keeps what was asked within the allowance.
LEMMA AllowanceNext == CollateralInv /\ [CollateralNext]_collateralVars => (LedgerType /\ AllowanceInv)'
  <1> SUFFICES ASSUME CollateralInv, [CollateralNext]_collateralVars PROVE LedgerType' /\ AllowanceInv'
    OBVIOUS
  <1>0. SlotInv /\ LedgerType /\ AllowanceInv /\ cTime \in Nat /\ LookupType /\ RoleInv
    BY DEF CollateralInv, SlotInv, LedgerType
  <1>n. \A k \in Kinds : ledger[k].credit \in Nat /\ ledger[k].admitted \in Seq(Files \cup Apps)
    BY <1>0 DEF LedgerType, LedgerRecord
  <1>1. ASSUME UNCHANGED <<ledger, cTime, outbound>>,
               \/ work' = work
               \/ \E c \in Lookups, w \in WorkRecord :
                     /\ work' = [work EXCEPT ![c] = w] /\ work[c].state = "running"
                     /\ w.state = "none" \/ (w.state = "detached" /\ w.ask = work[c].ask)
        PROVE  LedgerType' /\ AllowanceInv'
    <2>1. LedgerType'
      BY <1>0, <1>1 DEF LedgerType
    <2>2. \A k \in Kinds : AskedFor(k)' \subseteq AskedFor(k)
      <3>1. CASE work' = work
        BY <3>1 DEF AskedFor
      <3>2. ASSUME NEW c \in Lookups, NEW w \in WorkRecord, work' = [work EXCEPT ![c] = w], work[c].state = "running",
                   w.state = "none" \/ (w.state = "detached" /\ w.ask = work[c].ask), NEW k \in Kinds
            PROVE  AskedFor(k)' \subseteq AskedFor(k)
        <4>1. AskedFor(k)' \subseteq
                 AskedFor(k) \cup (IF w.state \in {"running", "detached"} /\ w.ask.op = k THEN w.ask.values ELSE {})
          BY <1>0, <3>2, AskedForFollows
        <4>2. w.state \in {"running", "detached"} /\ w.ask.op = k => w.ask.values \subseteq AskedFor(k)
          BY <3>2 DEF AskedFor
        <4> QED BY <4>1, <4>2
      <3> QED BY <1>1, <3>1, <3>2
    <2>3. \A k \in Kinds : Paid(k)' \subseteq Paid(k) /\ ledger'[k].credit <= ledger[k].credit + (cTime' - cTime)
      BY <1>0, <1>1, <1>n, <2>2 DEF Paid, ToSet
    <2> QED BY <1>0, <1>1, <2>1, <2>3, NothingNew
  <1>2. ASSUME NEW c \in Lookups, Look(c) PROVE LedgerType' /\ AllowanceInv'
    <2> DEFINE q == work[c].ask
    <2>1. PICK v \in q.values : outbound' = [outbound EXCEPT ![q.op] = @ \cup {v}]
      BY <1>2 DEF Look
    <2>2. work[c].state \in {"running", "detached"} /\ UNCHANGED <<ledger, cTime, work>>
      BY <1>2 DEF Look
    <2>3. LedgerType'
      BY <1>0, <2>1, <2>2 DEF LedgerType
    <2>4. ASSUME NEW k \in Kinds PROVE Paid(k)' \subseteq Paid(k)
      <3>1. outbound'[k] \subseteq outbound[k] \cup (IF q.op = k THEN {v} ELSE {})
        BY <1>0, <2>1 DEF LedgerType
      <3>2. q.op = k => v \in AskedFor(k)
        BY <2>1, <2>2 DEF AskedFor
      <3>3. AskedFor(k)' = AskedFor(k) /\ ToSet(ledger[k].admitted)' = ToSet(ledger[k].admitted)
        BY <2>2 DEF AskedFor, ToSet
      <3> QED BY <3>1, <3>2, <3>3 DEF Paid
    <2>5. \A k \in Kinds : ledger'[k].credit <= ledger[k].credit + (cTime' - cTime)
      BY <1>0, <1>n, <2>2
    <2> QED BY <1>0, <2>2, <2>3, <2>4, <2>5, NothingNew
  <1>3. CASE CollateralTick
    <2>1. UNCHANGED <<work, outbound>> /\ cTime' = cTime + 1
      BY <1>3 DEF CollateralTick
    <2>2. \A k \in Kinds : /\ ledger'[k].admitted = ledger[k].admitted
                            /\ ledger'[k].credit \in {ledger[k].credit, ledger[k].credit + 1}
                            /\ ledger'[k] \in LedgerRecord
      BY <1>0, <1>3, <1>n DEF CollateralTick, Refill, LedgerType, LedgerRecord
    <2>3. LedgerType'
      <3>1. ledger' = [k \in Kinds |-> ledger'[k]] /\ outbound' = [k \in Kinds |-> outbound'[k]] /\ cTime' \in Nat
        BY <1>0, <1>3, <2>1 DEF LedgerType, CollateralTick
      <3> QED BY <2>2, <3>1 DEF LedgerType
    <2>4. \A k \in Kinds : Paid(k)' \subseteq Paid(k)
      BY <2>1, <2>2 DEF Paid, AskedFor, ToSet
    <2>5. \A k \in Kinds : ledger'[k].credit <= ledger[k].credit + (cTime' - cTime)
      BY <1>0, <1>n, <2>1, <2>2
    <2> QED BY <1>0, <2>1, <2>3, <2>4, <2>5, NothingNew
  <1>4. ASSUME NEW c \in Lookups, NEW answered, NEW running, ArriveAtRole(c, answered, running),
               lookup[c].pc \in {"calling", "direct"}
        PROVE  LedgerType' /\ AllowanceInv'
    <2>0. UNCHANGED <<cTime, outbound>>
      BY <1>4 DEF ArriveAtRole
    <2>1. CASE UNCHANGED <<ledger, work>>
      BY <1>1, <2>0, <2>1
    <2>2. CASE Enter(c, running)
      <3> DEFINE q == lookup[c].ask
                 w == [state |-> "running", ask |-> q]
      <3>1. q \in Shapes /\ IsFiniteSet(q.values)
        BY <1>0, <1>4 DEF LookupType, LookupRecord, AskedOf
      <3>2. q.values \in SUBSET (Files \cup Apps)
        <4>1. q.values \in SUBSET Files \/ q.values = {} \/ q.values \in {{a} : a \in Apps}
          BY <3>1 DEF Shapes
        <4> QED BY <4>1
      <3>3. work' = [work EXCEPT ![c] = w] /\ w.state = "running" /\ w.ask = q
        BY <2>2 DEF Enter
      <3> HIDE DEF w, q
      <3>4. \A k \in Kinds : AskedFor(k)' \subseteq AskedFor(k) \cup (IF q.op = k THEN q.values ELSE {})
        BY <1>0, <3>3, AskedForFollows
      <3>5. CASE q.op = "releases" /\ UNCHANGED ledger
        <4>1. LedgerType'
          BY <1>0, <2>0, <3>5 DEF LedgerType
        <4>2. \A k \in Kinds : AskedFor(k)' \subseteq AskedFor(k)
          BY <3>4, <3>5 DEF Kinds
        <4>3. \A k \in Kinds : Paid(k)' \subseteq Paid(k) /\ ledger'[k].credit <= ledger[k].credit + (cTime' - cTime)
          BY <1>0, <1>n, <2>0, <3>5, <4>2 DEF Paid, ToSet
        <4> QED BY <1>0, <2>0, <4>1, <4>3, NothingNew
      <3>6. CASE q.op \in Kinds /\ Allowed(q.op, q.values) /\ Admit(q.op, q.values)
        <4>0. PICK k \in Kinds, vs \in SUBSET (Files \cup Apps) : k = q.op /\ vs = q.values
          BY <3>2, <3>6
        <4> DEFINE paid == ledger[k].credit - Novel(k, vs) * NovelTicks
        <4>1. PICK s \in Admitted(k, vs) : ledger' = [ledger EXCEPT ![k] = [admitted |-> s, credit |-> @.credit - Novel(k, vs) * NovelTicks]]
          BY <3>6, <4>0 DEF Admit
        <4>f. IsFiniteSet(ToSet(ledger[k].admitted))
          <5> DEFINE known == ToSet(ledger[k].admitted)
                     paidFor == Paid(k)
          <5>1. known \subseteq paidFor /\ IsFiniteSet(paidFor)
            BY <1>0 DEF AllowanceInv, Paid
          <5> HIDE DEF known, paidFor
          <5>2. IsFiniteSet(known)
            BY <5>1, FS_Subset
          <5> QED BY <5>2 DEF known
        <4>2. s \in Seq(Files \cup Apps) /\ ToSet(s) \subseteq ToSet(ledger[k].admitted) \cup vs
          BY <1>0, <3>1, <4>0, <4>f, AdmittedIsKnown
        <4>3. paid \in Nat
          <5>1. Novel(k, vs) \in Nat
            BY <3>1, <4>0, FS_Subset, FS_CardinalityType DEF Novel
          <5> QED BY <1>n, <3>6, <4>0, <5>1, CollateralAssumption DEF Allowed
        <4>4. /\ ledger'[k] = [admitted |-> s, credit |-> paid]
              /\ \A j \in Kinds \ {k} : ledger'[j] = ledger[j]
              /\ ledger' = [j \in Kinds |-> ledger'[j]]
          BY <1>0, <3>6, <4>1 DEF LedgerType
        <4> HIDE DEF paid
        <4>5. ledger'[k] \in LedgerRecord /\ ledger'[k].credit = paid /\ ledger'[k].admitted = s
          BY <4>2, <4>3, <4>4 DEF LedgerRecord
        <4>6. LedgerType'
          BY <1>0, <2>0, <3>6, <4>4, <4>5 DEF LedgerType
        <4>7. Paid(k)' \subseteq Paid(k) \cup vs
          <5>1. ToSet(ledger[k].admitted)' = ToSet(s) /\ outbound' = outbound
            BY <2>0, <4>5 DEF ToSet
          <5>2. AskedFor(k)' \subseteq AskedFor(k) \cup vs
            BY <3>4, <4>0
          <5> QED BY <4>2, <5>1, <5>2 DEF Paid
        <4>8. \A j \in Kinds \ {k} : Paid(j)' \subseteq Paid(j) /\ ledger'[j].credit = ledger[j].credit
          <5> SUFFICES ASSUME NEW j \in Kinds \ {k}
                       PROVE  Paid(j)' \subseteq Paid(j) /\ ledger'[j].credit = ledger[j].credit
            OBVIOUS
          <5>1. ToSet(ledger[j].admitted)' = ToSet(ledger[j].admitted) /\ outbound' = outbound
            BY <2>0, <4>4 DEF ToSet
          <5>2. AskedFor(j)' \subseteq AskedFor(j)
            BY <3>4, <4>0
          <5> QED BY <4>4, <5>1, <5>2 DEF Paid
        <4>9. Allowed(k, vs) /\ IsFiniteSet(vs)
          BY <3>1, <3>6, <4>0
        <4> QED BY <1>0, <2>0, <4>5, <4>6, <4>7, <4>8, <4>9, PaysForNovel DEF paid
      <3> QED BY <2>2, <3>5, <3>6 DEF Enter, q
    <2> QED BY <1>4, <2>1, <2>2 DEF ArriveAtRole, Refuse, RateLimitedRequest, Busy, RefuseNovel, NotAdmitted
  <1>5. ASSUME NEW c \in Lookups, Finish(c) \/ Deadline(c) \/ Disconnect(c) PROVE LedgerType' /\ AllowanceInv'
    <2> DEFINE none == [state |-> "none"]
               left == [work[c] EXCEPT !.state = "detached"]
    <2>1. none \in WorkRecord /\ none.state = "none"
      BY DEF WorkRecord
    <2>2. /\ work[c].state = "running" /\ UNCHANGED <<ledger, cTime, outbound>>
          /\ work' = [work EXCEPT ![c] = none] \/ work' = [work EXCEPT ![c] = left]
      BY <1>5 DEF Finish, Deadline, Disconnect
    <2>3. left \in WorkRecord /\ left.state = "detached" /\ left.ask = work[c].ask
      BY <1>0, <2>2 DEF RoleInv, WorkRecord
    <2> HIDE DEF none, left
    <2> QED BY <1>1, <2>1, <2>2, <2>3
  <1>6. CASE \/ UNCHANGED collateralVars
             \/ \E c \in Lookups : Gated(c) \/ Cancel(c) \/ BeginCancelled(c) \/ GiveUp(c) \/ Receive(c) \/ Direct(c) \/ TurnAway(c)
    BY <1>1, <1>6 DEF Gated, Cancel, BeginCancelled, GiveUp, Receive, Direct, TurnAway, collateralVars
  <1>7. ASSUME NEW c \in Lookups, Serve(c) \/ ServeDirect(c) PROVE LedgerType' /\ AllowanceInv'
    BY <1>4, <1>7 DEF Serve, ServeDirect
  <1> QED BY <1>2, <1>3, <1>5, <1>6, <1>7 DEF CollateralNext, ClientNext, RoleNext

\* The collateral role asks upstream nothing it did not admit, and admits within
\* the allowance its clock earned, whoever asks and however often.
THEOREM OutboundIsPaid == CollateralSpec => []OutboundIsAdmitted
  <1>1. CollateralInit => CollateralInv
    <2> SUFFICES ASSUME CollateralInit PROVE CollateralInv
      OBVIOUS
    <2>1. SlotInv
      BY SlotInvInit
    <2>2. LedgerType
      BY EmptySeq, CollateralAssumption DEF CollateralInit, LedgerType, LedgerRecord
    <2>3. \A k \in Kinds : Paid(k) = {}
      BY DEF CollateralInit, Paid, AskedFor, ToSet
    <2>4. AllowanceInv
      <3>1. \A k \in Kinds : ledger[k].credit = NovelBurst * NovelTicks /\ cTime = 0
        BY DEF CollateralInit
      <3>2. NovelBurst * NovelTicks \in Nat /\ 0 * NovelTicks = 0
        BY CollateralAssumption
      <3>3. IsFiniteSet({}) /\ Cardinality({}) = 0
        BY FS_EmptySet
      <3>4. ASSUME NEW k \in Kinds
            PROVE  /\ IsFiniteSet(Paid(k))
                   /\ Cardinality(Paid(k)) * NovelTicks + ledger[k].credit <= NovelBurst * NovelTicks + cTime
        <4>1. Cardinality(Paid(k)) = 0 /\ IsFiniteSet(Paid(k))
          BY <2>3, <3>3
        <4>2. Cardinality(Paid(k)) * NovelTicks = 0
          BY <3>2, <4>1
        <4> QED BY <3>1, <3>2, <4>1, <4>2
      <3> QED BY <3>4 DEF AllowanceInv
    <2> QED BY <2>1, <2>2, <2>4 DEF CollateralInv
  <1>2. CollateralInv => OutboundIsAdmitted
    <2> SUFFICES ASSUME CollateralInv, NEW k \in Kinds
                 PROVE  Cardinality(outbound[k]) * NovelTicks <= NovelBurst * NovelTicks + cTime
      BY DEF OutboundIsAdmitted
    <2> DEFINE old == outbound[k]
               all == Paid(k)
    <2>1. old \subseteq all /\ IsFiniteSet(all)
      BY DEF Paid, CollateralInv, AllowanceInv
    <2>2. /\ Cardinality(all) * NovelTicks + ledger[k].credit <= NovelBurst * NovelTicks + cTime
          /\ ledger[k].credit \in Nat /\ cTime \in Nat /\ NovelTicks \in Nat /\ NovelBurst \in Nat
      BY CollateralAssumption DEF CollateralInv, AllowanceInv, LedgerType, LedgerRecord
    <2> HIDE DEF old, all
    <2>3. Cardinality(old) <= Cardinality(all) /\ Cardinality(old) \in Nat /\ Cardinality(all) \in Nat
      BY <2>1, FS_Subset, FS_CardinalityType
    <2>4. Cardinality(old) * NovelTicks <= Cardinality(all) * NovelTicks /\ NovelBurst * NovelTicks \in Nat
          /\ Cardinality(old) * NovelTicks \in Nat /\ Cardinality(all) * NovelTicks \in Nat
      BY <2>2, <2>3, Scaled
    <2> QED BY <2>2, <2>4 DEF old
  <1>3. CollateralInv /\ [CollateralNext]_collateralVars => CollateralInv'
    BY SlotInvNext, AllowanceNext DEF CollateralInv
  <1> QED BY <1>1, <1>2, <1>3, PTL DEF CollateralSpec

-----------------------------------------------------------------------------
\* Boot configuration.

BootSpec == BootInit /\ [][BootNext]_bootVars

\* A process runs with an environment loadConfig accepted.
AcceptedInv == \A e \in booted : ~Refuses(e)

Confined(e) ==
    /\ \A p \in KeyProviders : Holds(e, p) => p \in Served(e) \cup Unchecked(e)
    /\ Served(e) \cap e.elsewhere = {}
    /\ ContentTier(e.role) => e.has \cap ContentForbidden = {}
    /\ e.role = Pool =>
         /\ \A p \in e.pool : e.keys[p] = "file"
         /\ \A p, q \in e.pool : p # q => e.tokens[p] # e.tokens[q]
         /\ {e.tokens[v] : v \in ServiceTokens \ {"worker", "collateral"}} = {"none"}
    /\ e.tokens["collateral"] # "none" => e.role \in {Pool, Collateral}
    /\ e.role = Collateral => {v \in TokenVariables : e.tokens[v] # "none"} = {"collateral"}

\* What the split checks of an accepted production environment established.
LEMMA SplitChecksPass ==
    ASSUME NEW e, ~Refuses(e), Production(e), IsSplitRole(e.role)
    PROVE  /\ ~GivenForbidden(e) /\ ~RoleRefuses(e) /\ ~CollateralTokenRefused(e) /\ ~OriginsRefuse(e)
           /\ ~ConfidentialKeysRefuse(e)
  BY DEF Refuses, SplitRefuses

\* The role blocks: each key is one the role serves, or one nothing checks.
LEMMA KeysAreServed ==
    ASSUME NEW e, IsSplitRole(e.role), ~RoleRefuses(e), ~ConfidentialKeysRefuse(e),
           NEW p \in KeyProviders, Holds(e, p)
    PROVE  p \in Served(e) \cup Unchecked(e)
  <1>0. p \in {"venice", "fireworks", "deepinfra", "chutes", "tinfoil", "near-ai", "phala-ai"}
    BY BootAssumption
  <1>1. e.role \in {"venice-worker", "fireworks-worker", "bedrock-worker", "deepinfra-worker", "chutes-worker",
                    "tinfoil-worker", "near-worker", "phala-ai-worker", "control", "relay", "compat",
                    "pool-worker", "gateway-attestation", "release-collateral"}
    BY DEF IsSplitRole, ProviderWorkers, WorkerProviderForRole, Pool, Gateway, Collateral
  <1>2. CASE e.role = "pool-worker"
    BY <1>2 DEF RoleRefuses, Pool, Gateway, Collateral, PoolRefuses, PoolKeysRefuse, Served
  <1>3. CASE e.role # "pool-worker"
    <2>1. p \in {"chutes", "tinfoil", "near-ai", "phala-ai"} => WorkerProviderForRole(e.role) = p
      BY <1>3 DEF ConfidentialKeysRefuse, Pool
    <2>2. Served(e) = {WorkerProviderForRole(e.role)} \ {"none"}
      BY <1>3 DEF Served, Pool
    <2>3. CASE p \in {"chutes", "tinfoil", "near-ai", "phala-ai"}
      BY <2>1, <2>2, <2>3
    <2>4. CASE p \in OlderKeys
      <3>1. HoldsAny(e, OlderKeys) /\ ~NoProviderKeys(e)
        BY <2>4 DEF HoldsAny, NoProviderKeys
      <3>2. e.role \notin {"control", "relay", "compat", "gateway-attestation", "release-collateral", "bedrock-worker"}
        BY <3>1, <1>3 DEF RoleRefuses, ControlRefuses, RelayRefuses, CompatRefuses, AttestationRefuses,
             CollateralRefuses, WorkerRefuses, BedrockWorkerRefuses, Pool, Gateway, Collateral
      <3>3. CASE e.role \in {"chutes-worker", "tinfoil-worker", "near-worker", "phala-ai-worker"}
        BY <3>3, <2>4 DEF Unchecked
      <3>4. CASE e.role \in {"venice-worker", "fireworks-worker", "deepinfra-worker"}
        <4>1. ~WorkerRefuses(e)
          BY <3>4 DEF RoleRefuses, Pool, Gateway, Collateral
        <4>2. p = WorkerProviderForRole(e.role)
          BY <4>1, <3>4, <2>4 DEF WorkerRefuses, VeniceWorkerRefuses, FireworksWorkerRefuses, DeepInfraWorkerRefuses,
               HoldsAny, OlderKeys, WorkerProviderForRole
        <4> QED BY <4>2, <2>2, <1>0
      <3> QED BY <3>2, <3>3, <3>4, <1>1, <1>3
    <2> QED BY <2>3, <2>4, <1>0 DEF OlderKeys
  <1> QED BY <1>2, <1>3

\* The checks of an accepted environment amount to confinement.
LEMMA AcceptedIsConfined ==
    ASSUME NEW e, ~Refuses(e), Production(e), IsSplitRole(e.role)
    PROVE  Confined(e)
  <1>0. /\ ~GivenForbidden(e) /\ ~RoleRefuses(e) /\ ~CollateralTokenRefused(e) /\ ~OriginsRefuse(e)
        /\ ~ConfidentialKeysRefuse(e)
    BY SplitChecksPass
  <1>1. \A p \in KeyProviders : Holds(e, p) => p \in Served(e) \cup Unchecked(e)
    BY <1>0, KeysAreServed
  <1>2. Served(e) \cap e.elsewhere = {}
    BY <1>0 DEF OriginsRefuse
  <1>3. ContentTier(e.role) => e.has \cap ContentForbidden = {}
    BY <1>0 DEF GivenForbidden, Forbidden
  <1>4. ASSUME e.role = Pool
        PROVE  /\ \A p \in e.pool : e.keys[p] = "file"
               /\ \A p, q \in e.pool : p # q => e.tokens[p] # e.tokens[q]
               /\ {e.tokens[v] : v \in ServiceTokens \ {"worker", "collateral"}} = {"none"}
    <2>1. ~PoolKeysRefuse(e) /\ ~PoolTokensRefuse(e)
      BY <1>0, <1>4 DEF RoleRefuses, Pool, Gateway, Collateral, PoolRefuses
    <2>2. ServiceTokens \ {"worker", "collateral"} = ForbiddenTokens(e.role)
      BY <1>4 DEF ServiceTokens, ForbiddenTokens, Pool, Collateral
    <2>3. \A v \in ForbiddenTokens(e.role) : e.tokens[v] = "none"
      BY <1>0 DEF GivenForbidden
    <2>4. "relay" \in ForbiddenTokens(e.role)
      BY <1>4 DEF ForbiddenTokens, Pool, Collateral
    <2> QED BY <2>1, <2>2, <2>3, <2>4 DEF PoolKeysRefuse, PoolTokensRefuse
  <1>5. e.tokens["collateral"] # "none" => e.role \in {Pool, Collateral}
    BY <1>0 DEF CollateralTokenRefused
  <1>6. ASSUME e.role = Collateral
        PROVE  {v \in TokenVariables : e.tokens[v] # "none"} = {"collateral"}
    <2>1. \A v \in TokenVariables \ {"collateral"} : e.tokens[v] = "none"
      BY <1>0, <1>6 DEF GivenForbidden, ForbiddenTokens, Pool, Collateral
    <2>2. e.tokens["collateral"] # "none"
      BY <1>0, <1>6 DEF RoleRefuses, Pool, Gateway, Collateral, CollateralRefuses, Strong
    <2>3. "collateral" \in TokenVariables
      BY DEF TokenVariables, ServiceTokens
    <2> QED BY <2>1, <2>2, <2>3
  <1> QED BY <1>1, <1>2, <1>3, <1>4, <1>5, <1>6 DEF Confined

\* loadConfig: a production process of a split role runs only with the authority
\* of its role, whatever environment an operator hands it.
THEOREM AuthorityStaysConfined == BootSpec => []AuthorityIsConfined
  <1>1. BootInit => AcceptedInv
    BY DEF BootInit, AcceptedInv
  <1>2. AcceptedInv /\ [BootNext]_bootVars => AcceptedInv'
    <2> SUFFICES ASSUME AcceptedInv, [BootNext]_bootVars PROVE AcceptedInv'
      OBVIOUS
    <2>1. CASE booted' = booted
      BY <2>1 DEF AcceptedInv
    <2>2. CASE Boot \/ RefuseBoot
      BY <2>2 DEF AcceptedInv, Boot, RefuseBoot
    <2>3. booted' = booted \/ Boot \/ RefuseBoot
      BY DEF BootNext, bootVars, Toggle, SetKey, SetToken, SetPool, PointElsewhere, Edit
    <2> QED BY <2>1, <2>2, <2>3
  <1>3. AcceptedInv => AuthorityIsConfined
    <2> SUFFICES ASSUME AcceptedInv PROVE AuthorityIsConfined
      OBVIOUS
    <2>1. \A e \in Running : Confined(e)
      BY AcceptedIsConfined DEF AcceptedInv, Running
    <2> QED BY <2>1, Zenon DEF Confined, AuthorityIsConfined
  <1> QED BY <1>1, <1>2, <1>3, PTL DEF BootSpec

-----------------------------------------------------------------------------
\* The authority cache.

AuthoritySpec == AuthorityInit /\ [][AuthorityNext]_authorityVars

\* What was read of a key: a version, and a time at which it was published.
Seen(k, v, t) == k \in fetcher.subjects /\ v \in Nat \ {0} /\ t \in Nat /\ t <= aTime /\ CurrentAt(k, v, t)

\* An answer can be served at its age; a load has not outlived its deadlines
\* and dates what it reads from its start.
EntryInv(e) ==
    /\ e = [key |-> e.key, answer |-> e.answer, failure |-> e.failure, flight |-> e.flight]
    /\ e.key \in fetcher.subjects
    /\ e.answer # NoAnswer => Seen(e.key, e.answer.value, e.answer.at)
    /\ e.flight \in [started : Nat, host : Nat, call : Nat, value : Nat]
    /\ e.flight # NoFlight =>
          /\ e.flight.started <= aTime /\ aTime <= e.flight.started + LoadTimeout
          /\ e.flight.call >= 1
          /\ e.flight.call > 1 => Seen(e.key, e.flight.value, e.flight.started)

OneEach(s) == \A i, j \in 1 .. Len(s) : i # j => s[i].key # s[j].key
TableInv ==
    /\ entries \in Seq(ToSet(entries))
    /\ \A i \in 1 .. Len(entries) : EntryInv(entries[i])
    /\ OneEach(entries)

GoodResult(s) ==
    s.pc = "served" => Seen(s.key, s.value, s.at) /\ s.when \in Nat /\ s.when - s.at <= MaxStale

AskerInv == asker = [c \in Askers |-> asker[c]] /\ \A c \in Askers : GoodResult(asker[c])

PublishedInv ==
    /\ aTime \in Nat
    /\ published = [k \in fetcher.subjects |-> published[k]]
    /\ \A k \in fetcher.subjects : published[k] \in Seq(Nat)

CacheInv == PublishedInv /\ TableInv /\ AskerInv

Below == OpToRel(<, Nat)

\* A non-empty set of natural numbers has a least element.
LEMMA LeastNatural ==
    ASSUME NEW T \in SUBSET Nat, T # {}
    PROVE  \E m \in T : \A n \in T : m <= n
  <1>1. IsWellFoundedOn(Below, Nat)
    BY NatLessThanWellFounded DEF Below
  <1>2. PICK m \in T : \A n \in T : ~ (<<n, m>> \in Below)
    BY <1>1, WFMin
  <1>3. ASSUME NEW n \in T PROVE m <= n
    <2>1. n < m => <<n, m>> \in Below
      BY DEF Below, OpToRel
    <2> QED BY <1>2, <2>1
  <1> QED BY <1>3

\* What was published at a time still was, whatever is published later.
LEMMA SeenStays ==
    ASSUME PublishedInv, fetcher' = fetcher, aTime' \in {aTime, aTime + 1},
           \/ published' = published
           \/ \E k \in fetcher.subjects : published' = [published EXCEPT ![k] = Append(@, aTime)],
           NEW k, NEW v, NEW t, Seen(k, v, t)
    PROVE  Seen(k, v, t)'
  <1>1. CASE published' = published
    BY <1>1 DEF Seen, CurrentAt, PublishedInv
  <1>2. ASSUME NEW j \in fetcher.subjects, published' = [published EXCEPT ![j] = Append(@, aTime)]
        PROVE  Seen(k, v, t)'
    <2>0. k \in fetcher.subjects /\ v \in Nat \ {0} /\ t \in Nat /\ t <= aTime /\ CurrentAt(k, v, t)
      BY DEF Seen
    <2>1. CASE k # j
      <3>1. published'[k] = published[k]
        BY <1>2, <2>0, <2>1 DEF PublishedInv
      <3> QED BY <2>0, <3>1 DEF Seen, CurrentAt, PublishedInv
    <2>2. CASE k = j
      <3>1. published'[k] = Append(published[k], aTime)
        BY <1>2, <2>0, <2>2 DEF PublishedInv
      <3>2. published[k] \in Seq(Nat) /\ aTime \in Nat
        BY <2>0 DEF PublishedInv
      <3>3. /\ Len(published'[k]) = Len(published[k]) + 1 /\ Len(published[k]) \in Nat
            /\ \A i \in 1 .. Len(published[k]) : published'[k][i] = published[k][i]
            /\ published'[k][Len(published[k]) + 1] = aTime
        BY <3>1, <3>2
      <3>4. CASE v <= Len(published[k])
        BY <2>0, <3>2, <3>3, <3>4 DEF Seen, CurrentAt
      <3>5. CASE v = Len(published[k]) + 1
        BY <2>0, <3>2, <3>3, <3>5 DEF Seen, CurrentAt
      <3>6. CASE v > Len(published[k]) + 1
        BY <2>0, <3>2, <3>3, <3>6 DEF Seen, CurrentAt
      <3> QED BY <2>0, <3>3, <3>4, <3>5, <3>6
    <2> QED BY <2>1, <2>2
  <1> QED BY <1>1, <1>2

\* The entry of a cached key is the one that carries it.
LEMMA EntryFound ==
    ASSUME TableInv, NEW k, Cached(k)
    PROVE  /\ EntryInv(EntryOf(k)) /\ EntryOf(k).key = k /\ k \in fetcher.subjects
           /\ \A i \in 1 .. Len(entries) : entries[i].key = k => entries[i] = EntryOf(k)
  <1>1. DOMAIN entries = 1 .. Len(entries)
    BY DEF TableInv
  <1>2. PICK i \in 1 .. Len(entries) : entries[i] = EntryOf(k) /\ entries[i].key = k
    BY <1>1 DEF Cached, EntryOf, PositionOf
  <1>3. EntryInv(entries[i])
    BY DEF TableInv
  <1>4. k \in fetcher.subjects
    BY <1>2, <1>3 DEF EntryInv
  <1> QED BY <1>2, <1>3, <1>4, Zenon DEF TableInv, OneEach

\* Writing the entry of one key.
LEMMA SetEntryKeeps ==
    ASSUME TableInv, NEW k, NEW e, e.key = k, EntryInv(e), entries' = SetEntry(k, e),
           UNCHANGED <<fetcher, aTime, published>>
    PROVE  TableInv'
  <1>1. DOMAIN entries = 1 .. Len(entries) /\ Len(entries) \in Nat
    BY DEF TableInv
  <1>2. entries' = [i \in 1 .. Len(entries) |-> IF entries[i].key = k THEN e ELSE entries[i]]
    BY <1>1 DEF SetEntry
  <1>3. entries' \in Seq(ToSet(entries'))
    <2>1. \A i \in 1 .. Len(entries) : entries'[i] \in ToSet(entries')
      BY <1>2 DEF ToSet
    <2> QED BY <1>1, <1>2, <2>1
  <1>4. Len(entries') = Len(entries)
    BY <1>1, <1>2
  <1>5. \A i \in 1 .. Len(entries) : entries'[i] = e \/ entries'[i] = entries[i]
    BY <1>2
  <1>6. \A i \in 1 .. Len(entries) : entries'[i].key = entries[i].key
    BY <1>2
  <1>7. \A i \in 1 .. Len(entries) : EntryInv(entries[i])'
    <2> SUFFICES ASSUME NEW i \in 1 .. Len(entries) PROVE EntryInv(entries[i])'
      OBVIOUS
    <2>1. EntryInv(entries[i])
      BY DEF TableInv
    <2>2. CASE entries'[i] = e
      BY <2>2 DEF EntryInv, Seen, CurrentAt
    <2>3. CASE entries'[i] = entries[i]
      BY <2>1, <2>3 DEF EntryInv, Seen, CurrentAt
    <2> QED BY <1>5, <2>2, <2>3
  <1>8. OneEach(entries')
    BY <1>4, <1>6 DEF TableInv, OneEach
  <1> QED BY <1>3, <1>4, <1>7, <1>8 DEF TableInv

\* Making room drops an entry or none.
LEMMA RoomMadeIs ==
    ASSUME TableInv
    PROVE  /\ RoomMade \in Seq(ToSet(entries)) /\ OneEach(RoomMade)
           /\ \A i \in 1 .. Len(RoomMade) : RoomMade[i] \in ToSet(entries)
  <1>1. entries \in Seq(ToSet(entries)) /\ OneEach(entries)
    BY DEF TableInv
  <1>2. RoomMade = entries \/ \E i \in 1 .. Len(entries) : RoomMade = RemoveAt(entries, i)
    <2> DEFINE idle == {i \in DOMAIN entries : entries[i].flight = NoFlight}
    <2>1. DOMAIN entries = 1 .. Len(entries) /\ Len(entries) \in Nat
      BY <1>1
    <2>2. CASE RoomMade = entries
      BY <2>2
    <2>3. CASE RoomMade # entries
      <3>1. idle # {} /\ RoomMade = RemoveAt(entries, CHOOSE i \in idle : \A j \in idle : i <= j)
        BY <2>3 DEF RoomMade
      <3>2. PICK i \in idle : \A j \in idle : i <= j
        <4>1. idle \subseteq Nat /\ idle # {}
          BY <2>1, <3>1
        <4> HIDE DEF idle
        <4> QED BY <4>1, LeastNatural
      <3>3. (CHOOSE m \in idle : \A j \in idle : m <= j) \in idle
        BY <3>2
      <3> QED BY <3>1, <3>3, <2>1
    <2> QED BY <2>2, <2>3
  <1>3. CASE RoomMade = entries
    BY <1>1, <1>3
  <1>4. ASSUME NEW i \in 1 .. Len(entries), RoomMade = RemoveAt(entries, i)
        PROVE  RoomMade \in Seq(ToSet(entries)) /\ OneEach(RoomMade)
    <2> DEFINE n == Len(entries)
    <2>0. n \in Nat /\ i \in 1 .. n
      BY <1>1
    <2>1. /\ SubSeq(entries, 1, i - 1) \in Seq(ToSet(entries)) /\ Len(SubSeq(entries, 1, i - 1)) = i - 1
          /\ \A m \in 1 .. i - 1 : SubSeq(entries, 1, i - 1)[m] = entries[m]
      BY <1>1, <2>0
    <2>2. /\ SubSeq(entries, i + 1, n) \in Seq(ToSet(entries)) /\ Len(SubSeq(entries, i + 1, n)) = n - i
          /\ \A m \in 1 .. n - i : SubSeq(entries, i + 1, n)[m] = entries[i + m]
      BY <1>1, <2>0
    <2>3. RoomMade = SubSeq(entries, 1, i - 1) \o SubSeq(entries, i + 1, n)
      BY <1>4 DEF RemoveAt
    <2>4. /\ RoomMade \in Seq(ToSet(entries)) /\ Len(RoomMade) = n - 1
          /\ \A m \in 1 .. n - 1 : RoomMade[m] = IF m < i THEN entries[m] ELSE entries[m + 1]
      <3> DEFINE a == SubSeq(entries, 1, i - 1)
                 b == SubSeq(entries, i + 1, n)
      <3>1. a \in Seq(ToSet(entries)) /\ b \in Seq(ToSet(entries)) /\ RoomMade = a \o b
        BY <2>1, <2>2, <2>3
      <3>2. /\ Len(a) = i - 1 /\ Len(b) = n - i
            /\ \A m \in 1 .. i - 1 : a[m] = entries[m]
            /\ \A m \in 1 .. n - i : b[m] = entries[i + m]
        BY <2>1, <2>2
      <3> HIDE DEF a, b, n
      <3>3. /\ RoomMade \in Seq(ToSet(entries)) /\ Len(RoomMade) = Len(a) + Len(b)
            /\ \A m \in 1 .. Len(a) + Len(b) : RoomMade[m] = IF m <= Len(a) THEN a[m] ELSE b[m - Len(a)]
        BY <3>1
      <3>4. ASSUME NEW m \in 1 .. n - 1
            PROVE  RoomMade[m] = IF m < i THEN entries[m] ELSE entries[m + 1]
        <4>1. CASE m < i
          BY <2>0, <3>2, <3>3, <3>4, <4>1
        <4>2. CASE m >= i
          <5>1. m - (i - 1) \in 1 .. n - i /\ i + (m - (i - 1)) = m + 1
            BY <2>0, <3>4, <4>2
          <5> QED BY <2>0, <3>2, <3>3, <3>4, <4>2, <5>1
        <4> QED BY <2>0, <4>1, <4>2
      <3> QED BY <2>0, <3>2, <3>3, <3>4
    <2> DEFINE from(m) == IF m < i THEN m ELSE m + 1
    <2>5. \A m \in 1 .. n - 1 : from(m) \in 1 .. n /\ RoomMade[m] = entries[from(m)]
      BY <2>0, <2>4
    <2>6. \A m, l \in 1 .. n - 1 : m # l => from(m) # from(l)
      BY <2>0
    <2> HIDE DEF from, n
    <2>7. \A m, l \in 1 .. n : m # l => entries[m].key # entries[l].key
      BY <1>1 DEF OneEach, n
    <2> QED BY <2>4, <2>5, <2>6, <2>7 DEF OneEach
  <1> QED BY <1>2, <1>3, <1>4

\* What a caller is given while the entry is within the bound on age.
LEMMA AnswerIsGood ==
    ASSUME CacheInv, NEW k, UsableStale(k)
    PROVE  GoodResult(Answer(k, EntryOf(k).answer))
  <1>1. Cached(k) /\ EntryOf(k).answer # NoAnswer /\ aTime - EntryOf(k).answer.at <= MaxStale /\ aTime \in Nat
    BY DEF UsableStale, Answered, AgeOf, CacheInv, PublishedInv
  <1>2. Seen(k, EntryOf(k).answer.value, EntryOf(k).answer.at)
    BY <1>1, EntryFound DEF CacheInv, EntryInv
  <1> QED BY <1>1, <1>2 DEF GoodResult, Answer

\* A fresh answer is within the bound on age.
LEMMA FreshIsUsable == ASSUME CacheInv, NEW k, StillFresh(k) PROVE UsableStale(k)
  <1>1. FreshFor <= MaxStale /\ FreshFor \in Int /\ MaxStale \in Int
    BY AuthorityAssumption
  <1>2. Cached(k) /\ EntryOf(k).answer # NoAnswer /\ AgeOf(k) < FreshFor
    BY DEF StillFresh, Answered
  <1>3. EntryOf(k).answer.at \in Nat /\ aTime \in Nat
    BY <1>2, EntryFound DEF CacheInv, EntryInv, Seen, PublishedInv
  <1> QED BY <1>1, <1>2, <1>3 DEF UsableStale, Answered, AgeOf

\* An answer, or an error, given to one caller or to all that wait.
LEMMA ResultsAreGiven ==
    ASSUME CacheInv, UNCHANGED <<fetcher, aTime, published>>, NEW s, GoodResult(s),
           \/ \E c \in Askers : Give(c, s)
           \/ \E k : Resolve(k, s)
    PROVE  AskerInv'
  <1>1. asker' = [c \in Askers |-> asker'[c]] /\ \A c \in Askers : asker'[c] \in {asker[c], s}
    BY DEF CacheInv, AskerInv, Give, Resolve
  <1>2. \A x : GoodResult(x) => GoodResult(x)'
    BY DEF GoodResult, Seen, CurrentAt
  <1> QED BY <1>1, <1>2 DEF CacheInv, AskerInv

\* What asks and loads leave alone: what was published,
LEMMA PublishedStays == ASSUME CacheInv, UNCHANGED <<fetcher, aTime, published>> PROVE PublishedInv'
  BY DEF CacheInv, PublishedInv

\* the table,
LEMMA TableStays ==
    ASSUME CacheInv, UNCHANGED <<fetcher, aTime, published, entries>> PROVE TableInv'
  BY DEF CacheInv, TableInv, EntryInv, Seen, CurrentAt

\* and the callers.
LEMMA AskersStay ==
    ASSUME CacheInv, UNCHANGED <<fetcher, aTime, published, asker>> PROVE AskerInv'
  BY DEF CacheInv, AskerInv, GoodResult, Seen, CurrentAt

\* A new flight is dated now.
LEMMA FlightIsNew ==
    ASSUME CacheInv
    PROVE  /\ Flight = [started |-> aTime, host |-> 1, call |-> 1, value |-> 0]
           /\ Flight \in [started : Nat, host : Nat, call : Nat, value : Nat]
           /\ Flight.started <= aTime /\ aTime <= Flight.started + LoadTimeout
  <1>1. aTime \in Nat /\ LoadTimeout \in Nat
    BY AuthorityAssumption DEF CacheInv, PublishedInv
  <1>2. Flight = [started |-> aTime, host |-> 1, call |-> 1, value |-> 0]
    BY DEF Flight
  <1> QED BY <1>1, <1>2

\* get without a usable answer begins a refresh, making room for the key.
LEMMA RefreshingKeeps ==
    ASSUME CacheInv, NEW k \in fetcher.subjects, entries' = Refreshing(k), UNCHANGED <<fetcher, aTime, published>>
    PROVE  TableInv'
  <1>0. TableInv
    BY DEF CacheInv
  <1>1. CASE Cached(k)
    <2>0. PICK e : e = [EntryOf(k) EXCEPT !.flight = Flight]
      OBVIOUS
    <2>1. EntryInv(EntryOf(k)) /\ EntryOf(k).key = k
      BY <1>0, <1>1, EntryFound
    <2>2. e = [key |-> k, answer |-> EntryOf(k).answer, failure |-> EntryOf(k).failure, flight |-> Flight]
      BY <2>0, <2>1 DEF EntryInv
    <2>3. e.key = k /\ e.answer = EntryOf(k).answer /\ e.flight = Flight
          /\ e = [key |-> e.key, answer |-> e.answer, failure |-> e.failure, flight |-> e.flight]
      BY <2>2
    <2>4. entries' = SetEntry(k, e)
      BY <1>1, <2>0 DEF Refreshing
    <2>5. EntryInv(e)
      BY <2>1, <2>3, FlightIsNew DEF EntryInv
    <2> QED BY <1>0, <2>3, <2>4, <2>5, SetEntryKeeps
  <1>2. CASE ~Cached(k)
    <2>0. PICK e, s : e = [key |-> k, answer |-> NoAnswer, failure |-> NoFailure, flight |-> Flight] /\ s = RoomMade
      OBVIOUS
    <2>1. EntryInv(e)
      BY <2>0, FlightIsNew DEF EntryInv
    <2>2. s \in Seq(ToSet(entries)) /\ OneEach(s) /\ \A i \in 1 .. Len(s) : s[i] \in ToSet(entries)
      BY <1>0, <2>0, RoomMadeIs
    <2>3. \A x \in ToSet(entries) : EntryInv(x) /\ x.key # k
      <3>1. ASSUME NEW x \in ToSet(entries) PROVE \E i \in 1 .. Len(entries) : entries[i] = x
        BY <1>0 DEF TableInv, ToSet
      <3>2. ASSUME NEW i \in 1 .. Len(entries) PROVE EntryInv(entries[i]) /\ entries[i].key # k
        <4>1. i \in DOMAIN entries
          BY <1>0 DEF TableInv
        <4> QED BY <1>0, <1>2, <4>1 DEF TableInv, Cached, PositionOf
      <3> QED BY <3>1, <3>2
    <2>4. entries' = Append(s, e)
      BY <1>2, <2>0 DEF Refreshing
    <2>5. e.key = k
      BY <2>0
    <2>20. PICK n : n = Len(s)
      OBVIOUS
    <2>6. /\ n \in Nat /\ Len(entries') = n + 1 /\ DOMAIN entries' = 1 .. n + 1
          /\ \A i \in 1 .. n : entries'[i] = s[i]
          /\ entries'[n + 1] = e
      <3>1. s \in Seq(ToSet(entries) \cup {e})
        <4>1. \A i \in 1 .. n : s[i] \in ToSet(entries) \cup {e}
          BY <2>2, <2>20
        <4>2. n \in Nat /\ s = [i \in 1 .. n |-> s[i]]
          BY <2>2, <2>20
        <4> QED BY <4>1, <4>2
      <3> QED BY <2>4, <2>20, <3>1
    <2>7. \A i \in 1 .. n + 1 : EntryInv(entries'[i])
      BY <2>1, <2>2, <2>3, <2>6, <2>20
    <2>8. \A i \in 1 .. n : entries'[i].key # k
      BY <2>2, <2>3, <2>6, <2>20
    <2>9. \A i, j \in 1 .. n : i # j => entries'[i].key # entries'[j].key
      BY <2>2, <2>6, <2>20 DEF OneEach
    <2>10. OneEach(entries')
      <3>1. ASSUME NEW i \in 1 .. n + 1, NEW j \in 1 .. n + 1, i # j
            PROVE  entries'[i].key # entries'[j].key
        <4>1. CASE i \in 1 .. n /\ j \in 1 .. n
          BY <2>9, <3>1, <4>1
        <4>2. CASE i = n + 1 /\ j \in 1 .. n
          BY <2>5, <2>6, <2>8, <4>2
        <4>3. CASE j = n + 1 /\ i \in 1 .. n
          BY <2>5, <2>6, <2>8, <4>3
        <4> QED BY <2>6, <3>1, <4>1, <4>2, <4>3
      <3> QED BY <2>6, <3>1 DEF OneEach
    <2>11. entries' \in Seq(ToSet(entries'))
      <3>1. \A i \in 1 .. n + 1 : entries'[i] \in ToSet(entries')
        BY <2>6 DEF ToSet
      <3>2. entries' = [i \in 1 .. n + 1 |-> entries'[i]]
        <4>1. s \in Seq(ToSet(entries) \cup {e})
          <5>1. \A i \in 1 .. n : s[i] \in ToSet(entries) \cup {e}
            BY <2>2, <2>20
          <5>2. n \in Nat /\ s = [i \in 1 .. n |-> s[i]]
            BY <2>2, <2>20
          <5> QED BY <5>1, <5>2
        <4>2. entries' \in Seq(ToSet(entries) \cup {e})
          BY <2>4, <4>1
        <4> QED BY <4>2, <2>6
      <3>3. n + 1 \in Nat
        BY <2>6
      <3> QED BY <3>1, <3>2, <3>3
    <2>12. \A x : EntryInv(x) => EntryInv(x)'
      BY DEF EntryInv, Seen, CurrentAt
    <2>13. \A i \in 1 .. Len(entries') : EntryInv(entries[i])'
      BY <2>6, <2>7, <2>12
    <2> QED BY <2>10, <2>11, <2>13 DEF TableInv
  <1> QED BY <1>1, <1>2

\* GetAnswer, Abandon and TakeResult.
LEMMA AskingKeeps == ASSUME CacheInv, Asking PROVE CacheInv'
  <1>1. PICK c \in Askers : GetAnswer(c) \/ Abandon(c) \/ TakeResult(c)
    BY DEF Asking
  <1>2. UNCHANGED <<fetcher, aTime, published>>
    BY <1>1 DEF GetAnswer, Abandon, TakeResult
  <1>3. \A k : GoodResult(NoResult) /\ GoodResult(WaitingFor(k))
    BY DEF GoodResult, NoResult, WaitingFor
  <1>4. CASE Abandon(c) \/ TakeResult(c)
    <2>1. Give(c, NoResult) /\ entries' = entries
      BY <1>4 DEF Abandon, TakeResult
    <2> QED BY <1>2, <1>3, <2>1, ResultsAreGiven, TableStays, PublishedStays DEF CacheInv
  <1>5. CASE GetAnswer(c)
    <2>1. PICK k \in fetcher.subjects : ServeFresh(c, k) \/ JoinRefresh(c, k) \/ HoldBack(c, k) \/ BeginRefresh(c, k)
      BY <1>5 DEF GetAnswer
    <2>2. entries' = entries \/ entries' = Refreshing(k)
      BY <2>1 DEF ServeFresh, JoinRefresh, HoldBack, BeginRefresh
    <2>3. TableInv'
      BY <1>2, <2>2, TableStays, RefreshingKeeps
    <2>4. \/ UsableStale(k) /\ Give(c, Answer(k, EntryOf(k).answer))
          \/ Give(c, NoResult)
          \/ Give(c, WaitingFor(k))
      BY <2>1, FreshIsUsable DEF ServeFresh, JoinRefresh, HoldBack, BeginRefresh, WithinSwr
    <2>5. CASE UsableStale(k) /\ Give(c, Answer(k, EntryOf(k).answer))
      <3>1. PICK s : s = Answer(k, EntryOf(k).answer)
        OBVIOUS
      <3>2. GoodResult(s) /\ Give(c, s)
        BY <2>5, <3>1, AnswerIsGood
      <3> QED BY <1>2, <2>3, <3>2, ResultsAreGiven, PublishedStays DEF CacheInv
    <2>6. CASE Give(c, NoResult)
      BY <1>2, <1>3, <2>3, <2>6, ResultsAreGiven, PublishedStays DEF CacheInv
    <2>7. CASE Give(c, WaitingFor(k))
      BY <1>2, <1>3, <2>3, <2>7, ResultsAreGiven, PublishedStays DEF CacheInv
    <2> QED BY <2>4, <2>5, <2>6, <2>7
  <1> QED BY <1>1, <1>4, <1>5

\* The entry of a key whose load goes on, fails or completes.
LEMMA LoadWrites ==
    ASSUME CacheInv, NEW k, RefreshInFlight(k), UNCHANGED <<fetcher, aTime, published>>,
           NEW a, NEW f, NEW g, entries' = SetEntry(k, [key |-> k, answer |-> a, failure |-> f, flight |-> g]),
           a = EntryOf(k).answer \/ Seen(k, a.value, a.at),
           g = NoFlight \/ (/\ g \in [started : Nat, host : Nat, call : Nat, value : Nat]
                            /\ g.started = EntryOf(k).flight.started /\ g.call >= 1
                            /\ g.call > 1 => Seen(k, g.value, g.started))
    PROVE  TableInv'
  <1>0. TableInv /\ Cached(k) /\ EntryOf(k).flight # NoFlight
    BY DEF CacheInv, RefreshInFlight
  <1>1. EntryInv(EntryOf(k)) /\ EntryOf(k).key = k /\ k \in fetcher.subjects
    BY <1>0, EntryFound
  <1>2. PICK e : e = [key |-> k, answer |-> a, failure |-> f, flight |-> g]
    OBVIOUS
  <1>3. e.key = k /\ e.answer = a /\ e.flight = g /\ e = [key |-> e.key, answer |-> e.answer, failure |-> e.failure, flight |-> e.flight]
    BY <1>2
  <1>4. g \in [started : Nat, host : Nat, call : Nat, value : Nat]
    BY DEF NoFlight
  <1>5. g # NoFlight => g.started <= aTime /\ aTime <= g.started + LoadTimeout
    BY <1>0, <1>1 DEF EntryInv
  <1>6. a # NoAnswer => Seen(k, a.value, a.at)
    BY <1>1 DEF EntryInv
  <1>7. EntryInv(e)
    BY <1>1, <1>3, <1>4, <1>5, <1>6, Zenon DEF EntryInv
  <1> QED BY <1>0, <1>2, <1>3, <1>7, SetEntryKeeps

\* A failed refresh keeps the answer, and serves it while it is usable.
LEMMA FailureKeeps ==
    ASSUME CacheInv, NEW k, RefreshInFlight(k), UNCHANGED <<fetcher, aTime, published>>, NEW t, RefreshFails(k, t)
    PROVE  CacheInv'
  <1>1. EntryInv(EntryOf(k)) /\ EntryOf(k).key = k
    BY EntryFound DEF CacheInv, RefreshInFlight
  <1>2. PICK f : entries' = SetEntry(k, [key |-> k, answer |-> EntryOf(k).answer, failure |-> f, flight |-> NoFlight])
    BY DEF RefreshFails
  <1>4. PICK a, g : a = EntryOf(k).answer /\ g = NoFlight
    OBVIOUS
  <1>5. TableInv'
    BY <1>2, <1>4, LoadWrites
  <1>6. Resolve(k, IF UsableStale(k) THEN Answer(k, EntryOf(k).answer) ELSE NoResult)
    BY DEF RefreshFails
  <1>7. PICK s : s = (IF UsableStale(k) THEN Answer(k, EntryOf(k).answer) ELSE NoResult)
    OBVIOUS
  <1>8. GoodResult(s)
    <2>1. GoodResult(NoResult)
      BY DEF GoodResult, NoResult
    <2> QED BY <1>7, <2>1, AnswerIsGood
  <1>9. AskerInv'
    BY <1>6, <1>7, <1>8, ResultsAreGiven
  <1> QED BY <1>5, <1>9, PublishedStays DEF CacheInv

\* authorityFetch goes on to the next endpoint, and reads afresh there.
LEMMA EndpointKeeps ==
    ASSUME CacheInv, NEW k, RefreshInFlight(k), UNCHANGED <<fetcher, aTime, published>>, NEW t, EndpointFailed(k, t)
    PROVE  CacheInv'
  <1>1. EntryInv(EntryOf(k)) /\ EntryOf(k).key = k /\ EntryOf(k).flight # NoFlight
    BY EntryFound DEF CacheInv, RefreshInFlight
  <1>2. CASE RefreshFails(k, t)
    BY <1>2, FailureKeeps
  <1>3. CASE /\ entries' = SetEntry(k, [EntryOf(k) EXCEPT !.flight =
                    [started |-> @.started, host |-> @.host + 1, call |-> 1, value |-> 0]])
             /\ UNCHANGED asker
    <2>1. PICK e, g : e = EntryOf(k) /\ g = [started |-> e.flight.started, host |-> e.flight.host + 1, call |-> 1, value |-> 0]
      OBVIOUS
    <2>2. entries' = SetEntry(k, [e EXCEPT !.flight = g])
      BY <1>3, <2>1
    <2>3. [e EXCEPT !.flight = g] = [key |-> k, answer |-> e.answer, failure |-> e.failure, flight |-> g]
      BY <1>1, <2>1 DEF EntryInv
    <2>4. /\ g \in [started : Nat, host : Nat, call : Nat, value : Nat]
          /\ g.started = e.flight.started /\ g.call >= 1 /\ ~(g.call > 1)
      BY <1>1, <2>1 DEF EntryInv
    <2>5. PICK a, f : a = e.answer /\ f = e.failure
      OBVIOUS
    <2>6. entries' = SetEntry(k, [key |-> k, answer |-> a, failure |-> f, flight |-> g])
      BY <2>2, <2>3, <2>5
    <2>7. a = EntryOf(k).answer /\ g.started = EntryOf(k).flight.started
      BY <2>1, <2>4, <2>5
    <2>8. TableInv'
      BY <2>4, <2>6, <2>7, LoadWrites
    <2> QED BY <1>3, <2>8, AskersStay, PublishedStays DEF CacheInv
  <1> QED BY <1>2, <1>3 DEF EndpointFailed

\* A call answered: what it read is the version published now.
LEMMA CallKeeps ==
    ASSUME CacheInv, NEW k, RefreshInFlight(k), UNCHANGED <<fetcher, aTime, published, asker>>,
           entries' = SetEntry(k, [EntryOf(k) EXCEPT !.flight =
                [started |-> @.started, host |-> @.host, call |-> @.call + 1, value |-> ReadVersion(k)]])
    PROVE  CacheInv'
  <1>1. EntryInv(EntryOf(k)) /\ EntryOf(k).key = k /\ k \in fetcher.subjects /\ EntryOf(k).flight # NoFlight
    BY EntryFound DEF CacheInv, RefreshInFlight
  <1>2. PICK e, n : e = EntryOf(k) /\ n = e.flight
    OBVIOUS
  <1>3. PICK v : v = ReadVersion(k)
    OBVIOUS
  <1>4. PICK g : g = [started |-> n.started, host |-> n.host, call |-> n.call + 1, value |-> v]
    OBVIOUS
  <1>5. n \in [started : Nat, host : Nat, call : Nat, value : Nat] /\ n.call >= 1 /\ n.started <= aTime
    BY <1>1, <1>2 DEF EntryInv
  <1>6. Seen(k, v, n.started)
    <2>1. CASE n.call = 1
      <3>1. v = Len(published[k]) + 1
        BY <1>2, <1>3, <2>1 DEF ReadVersion, Version
      <3>2. Len(published[k]) \in Nat
        BY <1>1 DEF CacheInv, PublishedInv
      <3>3. v \in Nat \ {0} /\ ~(v <= Len(published[k]))
        BY <3>1, <3>2
      <3> QED BY <1>1, <1>5, <3>3 DEF Seen, CurrentAt
    <2>2. CASE n.call # 1
      <3>1. n.call > 1 /\ v = n.value
        BY <1>2, <1>3, <1>5, <2>2 DEF ReadVersion
      <3> QED BY <1>1, <1>2, <3>1 DEF EntryInv
    <2> QED BY <2>1, <2>2
  <1>7. /\ g \in [started : Nat, host : Nat, call : Nat, value : Nat]
        /\ g.started = n.started /\ g.call >= 1 /\ g.value = v
    BY <1>4, <1>5, <1>6 DEF Seen
  <1>8. entries' = SetEntry(k, [key |-> k, answer |-> e.answer, failure |-> e.failure, flight |-> g])
    <2>1. entries' = SetEntry(k, [e EXCEPT !.flight = g])
      BY <1>2, <1>3, <1>4
    <2>2. [e EXCEPT !.flight = g] = [key |-> k, answer |-> e.answer, failure |-> e.failure, flight |-> g]
      BY <1>1, <1>2 DEF EntryInv
    <2> QED BY <2>1, <2>2
  <1>9. PICK a, f : a = e.answer /\ f = e.failure
    OBVIOUS
  <1>10. TableInv'
    BY <1>2, <1>6, <1>7, <1>8, <1>9, LoadWrites
  <1> QED BY <1>10, AskersStay, PublishedStays DEF CacheInv

\* A completed load answers with what it read, dated at its start.
LEMMA CompletionKeeps == ASSUME CacheInv, NEW k, LoadCompletes(k) PROVE CacheInv'
  <1>0. UNCHANGED <<fetcher, aTime, published>> /\ RefreshInFlight(k) /\ EntryOf(k).flight.call > CallsPerLoad
    BY DEF LoadCompletes
  <1>1. EntryInv(EntryOf(k)) /\ EntryOf(k).key = k /\ EntryOf(k).flight # NoFlight
    BY <1>0, EntryFound DEF CacheInv, RefreshInFlight
  <1>2. PICK n : n = EntryOf(k).flight
    OBVIOUS
  <1>3. n.call > 1 /\ n.started \in Nat /\ aTime <= n.started + LoadTimeout
    <2>1. n.call \in Nat /\ CallsPerLoad \in Nat \ {0} /\ n.call > CallsPerLoad
      BY <1>0, <1>1, <1>2, AuthorityAssumption DEF EntryInv
    <2> QED BY <1>1, <1>2, <2>1 DEF EntryInv
  <1>4. Seen(k, n.value, n.started)
    BY <1>1, <1>2, <1>3 DEF EntryInv
  <1>5. PICK a : a = [value |-> n.value, at |-> n.started]
    OBVIOUS
  <1>6. a.value = n.value /\ a.at = n.started /\ Seen(k, a.value, a.at)
    BY <1>4, <1>5
  <1>7. /\ entries' = SetEntry(k, [key |-> k, answer |-> a, failure |-> NoFailure, flight |-> NoFlight])
        /\ Resolve(k, Answer(k, a))
    BY <1>2, <1>5 DEF LoadCompletes, RefreshSucceeds, LoadedAnswer
  <1>8. PICK f, g, s : f = NoFailure /\ g = NoFlight /\ s = Answer(k, a)
    OBVIOUS
  <1>9. TableInv'
    BY <1>0, <1>6, <1>7, <1>8, LoadWrites
  <1>10. GoodResult(s)
    <2>1. aTime \in Nat /\ MaxStale \in Nat /\ LoadTimeout \in Nat /\ LoadTimeout <= MaxStale
      BY AuthorityAssumption DEF CacheInv, PublishedInv
    <2>2. s.key = k /\ s.value = a.value /\ s.at = a.at /\ s.when = aTime
      BY <1>8 DEF Answer
    <2> QED BY <1>3, <1>6, <2>1, <2>2 DEF GoodResult
  <1>11. AskerInv'
    BY <1>0, <1>7, <1>8, <1>10, ResultsAreGiven
  <1> QED BY <1>0, <1>9, <1>11, PublishedStays DEF CacheInv

\* Upstream publishes, or the clock moves while no load is overdue.
LEMMA WorldMoves ==
    ASSUME CacheInv, (\E k \in fetcher.subjects : PublishNext(k)) \/ AuthorityTick
    PROVE  CacheInv'
  <1>1. /\ UNCHANGED <<fetcher, entries, asker>> /\ aTime' \in {aTime, aTime + 1} /\ aTime \in Nat
        /\ \/ published' = published
           \/ \E k \in fetcher.subjects : published' = [published EXCEPT ![k] = Append(@, aTime)]
    BY DEF PublishNext, AuthorityTick, CacheInv, PublishedInv
  <1>2. \A k, v, t : Seen(k, v, t) => Seen(k, v, t)'
    BY <1>1, SeenStays DEF CacheInv
  <1>3. PublishedInv'
    <2>1. CASE published' = published
      BY <1>1, <2>1 DEF CacheInv, PublishedInv
    <2>2. ASSUME NEW k \in fetcher.subjects, published' = [published EXCEPT ![k] = Append(@, aTime)]
          PROVE  PublishedInv'
      <3>0. aTime \in Nat /\ aTime' \in {aTime, aTime + 1}
        BY <1>1
      <3>1. published[k] \in Seq(Nat) /\ aTime \in Nat /\ aTime' \in Nat
        <4>1. \A j \in fetcher.subjects : published[j] \in Seq(Nat)
          BY DEF CacheInv, PublishedInv
        <4>2. published[k] \in Seq(Nat)
          BY <4>1
        <4>3. aTime \in Nat /\ aTime' \in Nat
          BY <3>0
        <4> QED BY <4>2, <4>3
      <3>2. Append(published[k], aTime) \in Seq(Nat)
        BY <3>1
      <3>3. published \in [fetcher.subjects -> Seq(Nat)]
        BY DEF CacheInv, PublishedInv
      <3>4. published' \in [fetcher.subjects -> Seq(Nat)]
        BY <2>2, <3>2, <3>3
      <3>5. fetcher' = fetcher
        BY <1>1
      <3> QED BY <3>1, <3>4, <3>5 DEF PublishedInv
    <2> QED BY <1>1, <2>1, <2>2
  <1>4. AskerInv'
    BY <1>1, <1>2 DEF CacheInv, AskerInv, GoodResult
  <1>5. ASSUME NEW i \in 1 .. Len(entries) PROVE EntryInv(entries[i])'
    <2>1. PICK e : e = entries[i]
      OBVIOUS
    <2>2. EntryInv(e)
      BY <2>1 DEF CacheInv, TableInv
    <2>3. e.flight # NoFlight => e.flight.started <= aTime' /\ aTime' <= e.flight.started + LoadTimeout
      <3> SUFFICES ASSUME e.flight # NoFlight PROVE e.flight.started <= aTime' /\ aTime' <= e.flight.started + LoadTimeout
        OBVIOUS
      <3>1. e.flight.started \in Nat /\ e.flight.started <= aTime /\ aTime <= e.flight.started + LoadTimeout
        BY <2>2 DEF EntryInv
      <3>2. LoadTimeout \in Nat
        BY AuthorityAssumption
      <3>3. CASE aTime' = aTime
        BY <3>1, <3>3
      <3>4. CASE aTime' # aTime
        <4>1. AuthorityTick
          BY <3>4 DEF PublishNext
        <4>2. e.key \in fetcher.subjects /\ ~Overdue(e.key)
          BY <2>2, <4>1 DEF AuthorityTick, EntryInv
        <4>3. Cached(e.key)
          <5>1. i \in DOMAIN entries
            BY DEF CacheInv, TableInv
          <5> QED BY <2>1, <5>1 DEF Cached, PositionOf
        <4>4. EntryOf(e.key) = e
          BY <2>1, <4>3, EntryFound DEF CacheInv
        <4>5. ~(aTime >= e.flight.started + LoadTimeout)
          BY <4>2, <4>3, <4>4 DEF Overdue, RefreshInFlight
        <4> QED BY <1>1, <3>1, <3>2, <4>5
      <3> QED BY <3>3, <3>4
    <2>4. EntryInv(e)'
      BY <1>1, <1>2, <2>2, <2>3 DEF EntryInv
    <2> QED BY <1>1, <2>1, <2>4
  <1>6. TableInv'
    BY <1>1, <1>5 DEF CacheInv, TableInv, OneEach
  <1> QED BY <1>3, <1>4, <1>6 DEF CacheInv

\* Every step of the cache keeps the invariant.
LEMMA CacheInvNext == CacheInv /\ [AuthorityNext]_authorityVars => CacheInv'
  <1> SUFFICES ASSUME CacheInv, [AuthorityNext]_authorityVars PROVE CacheInv'
    OBVIOUS
  <1>1. CASE Asking
    BY <1>1, AskingKeeps
  <1>2. ASSUME NEW k \in fetcher.subjects, BudgetRefuses(k) \/ AskEndpoint(k) \/ RateLimited(k) PROVE CacheInv'
    <2>1. RefreshInFlight(k) /\ UNCHANGED <<fetcher, aTime, published>>
      BY <1>2 DEF BudgetRefuses, AskEndpoint, RateLimited
    <2>2. \/ \E t : EndpointFailed(k, t)
          \/ /\ entries' = SetEntry(k, [EntryOf(k) EXCEPT !.flight =
                    [started |-> @.started, host |-> @.host, call |-> @.call + 1, value |-> ReadVersion(k)]])
             /\ UNCHANGED asker
      BY <1>2 DEF BudgetRefuses, AskEndpoint, RateLimited
    <2> QED BY <2>1, <2>2, EndpointKeeps, CallKeeps
  <1>3. ASSUME NEW k, LoadCompletes(k) PROVE CacheInv'
    BY <1>3, CompletionKeeps
  <1>4. CASE (\E k \in fetcher.subjects : PublishNext(k)) \/ AuthorityTick
    BY <1>4, WorldMoves
  <1>5. CASE UNCHANGED authorityVars
    <2>1. UNCHANGED <<fetcher, aTime, published, entries, asker>>
      BY <1>5 DEF authorityVars
    <2> QED BY <2>1, AskersStay, TableStays, PublishedStays DEF CacheInv
  <1> QED BY <1>1, <1>2, <1>3, <1>4, <1>5 DEF AuthorityNext, Loading

\* Every verdict of a release authority (fetchLayer.ts) is at most maxStale old
\* and was published at the time it carries, for any number of keys and
\* callers, any endpoints and any failures: a revocation is out within maxStale.
THEOREM VerdictsAreDated == AuthoritySpec => []ServedAgeIsTrue
  <1>1. AuthorityInit => CacheInv
    <2> SUFFICES ASSUME AuthorityInit PROVE CacheInv
      OBVIOUS
    <2>1. PublishedInv
      BY DEF AuthorityInit, PublishedInv
    <2>2. TableInv
      BY DEF AuthorityInit, TableInv, OneEach
    <2>3. AskerInv
      BY DEF AuthorityInit, AskerInv, GoodResult
    <2> QED BY <2>1, <2>2, <2>3 DEF CacheInv
  <1>2. CacheInv => ServedAgeIsTrue
    BY DEF CacheInv, AskerInv, GoodResult, Seen, ServedAgeIsTrue
  <1> QED BY <1>1, <1>2, CacheInvNext, PTL DEF AuthoritySpec

-----------------------------------------------------------------------------
\* The parts side by side: MCEdge runs one of them and leaves the others alone,
\* so what is proved of each part holds of every behaviour it checks.

\* One part runs; no step touches the variables of another.
LEMMA PartsAreLeftAlone ==
    ASSUME [Next]_parts
    PROVE  /\ [LocksNext]_lockVars
           /\ [StreamNext]_streamVars
           /\ [IngressNext]_ingressVars
           /\ [BrokerNext]_brokerVars
           /\ [AdminNext]_adminVars
           /\ [WorkerNext]_workerVars
           /\ [TlsNext]_tlsVars
           /\ [BootNext]_bootVars
           /\ [AuthorityNext]_authorityVars
           /\ [CollateralNext]_collateralVars
  <1>1. CASE UNCHANGED parts
    BY <1>1 DEF parts
  <1>2. CASE RunLocks
    BY <1>2 DEF RunLocks
  <1>3. CASE RunStream
    BY <1>3 DEF RunStream
  <1>4. CASE RunIngress
    BY <1>4 DEF RunIngress
  <1>5. CASE RunBroker
    BY <1>5 DEF RunBroker
  <1>6. CASE RunAdmin
    BY <1>6 DEF RunAdmin
  <1>7. CASE RunWorker
    BY <1>7 DEF RunWorker
  <1>8. CASE RunTls
    BY <1>8 DEF RunTls
  <1>9. CASE RunBoot
    BY <1>9 DEF RunBoot
  <1>10. CASE RunAuthority
    BY <1>10 DEF RunAuthority
  <1>11. CASE RunCollateral
    BY <1>11 DEF RunCollateral
  <1> QED BY <1>1, <1>2, <1>3, <1>4, <1>5, <1>6, <1>7, <1>8, <1>9, <1>10, <1>11 DEF Next

\* Every behaviour of the edge is one of each part.
LEMMA EdgeRunsParts ==
    Spec => LocksSpec /\ StreamSpec /\ IngressSpec /\ BrokerSpec /\ AdminSpec
            /\ WorkerSpec /\ TlsSpec /\ BootSpec /\ AuthoritySpec /\ CollateralSpec
  <1>1. Init => LocksInit /\ StreamInit /\ IngressInit /\ BrokerInit /\ AdminInit
                /\ WorkerInit /\ TlsInit /\ BootInit /\ AuthorityInit /\ CollateralInit
    BY DEF Init
  <1>2. [Next]_parts => /\ [LocksNext]_lockVars
                        /\ [StreamNext]_streamVars
                        /\ [IngressNext]_ingressVars
                        /\ [BrokerNext]_brokerVars
                        /\ [AdminNext]_adminVars
                        /\ [WorkerNext]_workerVars
                        /\ [TlsNext]_tlsVars
                        /\ [BootNext]_bootVars
                        /\ [AuthorityNext]_authorityVars
                        /\ [CollateralNext]_collateralVars
    BY PartsAreLeftAlone
  <1> QED BY <1>1, <1>2, PTL DEF Spec, LocksSpec, StreamSpec, IngressSpec, BrokerSpec, AdminSpec, WorkerSpec, TlsSpec, BootSpec, AuthoritySpec, CollateralSpec

\* Whichever part runs: ingress, the collateral client and the collateral role
\* count what they hold.
THEOREM EdgeCountsAreTrue == Spec => []CountsAreTrue
  <1>1. CountersAreTrue /\ SlotsAreCounted => CountsAreTrue
    BY DEF CountsAreTrue
  <1> QED BY <1>1, EdgeRunsParts, IngressCountsAreTrue, CollateralSlotsAreCounted, PTL

\* And every other part keeps its promise at once: locks, stream, broker, keys,
\* credentials, evidence, boot configuration, verdicts and outbound requests.
THEOREM EdgeIsSafe ==
    Spec => [](/\ NoDeadlock
               /\ NoLostWakeup
               /\ DoneMeansComplete
               /\ ChargedOnce
               /\ AuthorisationsAreKept
               /\ CredentialStaysHome
               /\ EvidenceIsCurrent
               /\ AuthorityIsConfined
               /\ ServedAgeIsTrue
               /\ OutboundIsAdmitted)
  <1> QED BY EdgeRunsParts, LocksCannotDeadlock, WritesAreWoken, DoneIsTruthful, ClientIsChargedOnce, AuthorisationsHappenOnce,
             CredentialsStayHome, EvidenceStaysCurrent, AuthorityStaysConfined, VerdictsAreDated, OutboundIsPaid, PTL
=============================================================================
