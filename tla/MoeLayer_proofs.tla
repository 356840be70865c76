--------------------------- MODULE MoeLayer_proofs ---------------------------
(***************************************************************************)
(* Proofs about MoeLayer, for any group of ranks, any set of               *)
(* configurations and batches, and any number of calls, captures, replays  *)
(* and reloads, however far the two streams drift apart.                   *)
(***************************************************************************)
EXTENDS MoeLayer, KernelSearch_proofs, SequenceTheorems, FiniteSetTheorems, TLAPS

-----------------------------------------------------------------------------
(* Streams.  A queue is [Stream -> Seq(Entry)]: the two lanes of the       *)
(* device, or the work of a graph under capture marked with run 1.  M is   *)
(* the memory it meets and F the events that were fired before.            *)

Entry == [work : Pieces, run : Nat]
Queue == [Stream -> Seq(Entry)]
Passing == Names \ (Weights \cup {"ids"})   \* tensors of a single run

\* Both streams come to their runs one after the other, ...
Sorted(Q) ==
  \A s \in Stream : \A i, j \in DOMAIN Q[s] : i <= j => Q[s][i].run <= Q[s][j].run

\* ... the second one to a run's work only behind the fork, ...
Forked(Q, F) ==
  \A i \in DOMAIN Q["alt"] :
    \/ <<"fork", Q["alt"][i].run>> \in F
    \/ \E k \in 1 .. i : Q["alt"][k].run = Q["alt"][i].run /\ "fork" \in Q["alt"][k].work.waits

\* ... which the first one fires once, when it is done with earlier runs, ...
FiresFork(Q, k) == "fork" \in Q["main"][k].work.fires
ForkedOnce(Q, F) ==
  /\ \A i \in DOMAIN Q["main"] : \A e \in F :
       e[1] = "fork" =>
         Q["main"][i].run >= e[2] /\ ~(Q["main"][i].run = e[2] /\ FiresFork(Q, i))
  /\ \A i, j \in DOMAIN Q["main"] :
       FiresFork(Q, i) /\ FiresFork(Q, j) /\ Q["main"][i].run = Q["main"][j].run => i = j

\* ... and the join is the last thing it does in a run.
FiresJoin(Q, k) == "join" \in Q["alt"][k].work.fires
JoinedOnce(Q, F) ==
  /\ \A i \in DOMAIN Q["alt"] : <<"join", Q["alt"][i].run>> \notin F
  /\ \A i, j \in DOMAIN Q["alt"] :
       i < j /\ FiresJoin(Q, i) => Q["alt"][i].run < Q["alt"][j].run

\* The first stream has still to wait for what the second one has to do, but
\* for a run that is still open.
WaitsJoin(Q, k) == "join" \in Q["main"][k].work.waits
Joined(Q, open) ==
  \A i \in DOMAIN Q["alt"] :
    \/ Q["alt"][i].run \in open
    \/ \E k \in DOMAIN Q["main"] : Q["main"][k].run = Q["alt"][i].run /\ WaitsJoin(Q, k)

\* A stream fires its own event only.
FiresInPlace(Q) ==
  /\ \A i \in DOMAIN Q["main"] : "join" \notin Q["main"][i].work.fires
  /\ \A i \in DOMAIN Q["alt"] : "fork" \notin Q["alt"][i].work.fires

Ordered(Q, F, open) ==
  FiresInPlace(Q) /\ Sorted(Q) /\ Forked(Q, F) /\ ForkedOnce(Q, F) /\ JoinedOnce(Q, F) /\ Joined(Q, open)

\* An entry of a run is done before another one of that run.
Before(Q, q, j, s, i) ==
  \/ q = s /\ j < i
  \/ /\ q = "main" /\ s = "alt"
     /\ \E k \in DOMAIN Q["main"] :
          j < k /\ Q["main"][k].run = Q["main"][j].run /\ FiresFork(Q, k)
  \/ /\ q = "alt" /\ s = "main"
     /\ \E k \in DOMAIN Q["main"] :
          k < i /\ Q["main"][k].run = Q["main"][i].run /\ WaitsJoin(Q, k)

\* Parameters are not written by a run, the ids only to their block, and a
\* block at most once in a run.
WritesTo(Q, s, i, b) == \E o \in Q[s][i].work.writes : o[1] = b
WritesInPlace(Q) ==
  \A s \in Stream : \A i \in DOMAIN Q[s] : \A o \in Q[s][i].work.writes :
    o = <<Own.ids, "ids">> \/ (o[1] >= Own.ar /\ o[2] \in Passing)
OneWriter(Q) ==
  \A s, q \in Stream : \A i \in DOMAIN Q[s], j \in DOMAIN Q[q] :
    \A o \in Q[s][i].work.writes, p \in Q[q][j].work.writes :
      o[1] = p[1] /\ Q[s][i].run = Q[q][j].run => s = q /\ i = j /\ o = p

\* A tensor of run r is in its block and stays, or will be put there before
\* it is read.
Stored(Q, M, b, nm, r) ==
  /\ M[b] = <<nm, r>>
  /\ \A s \in Stream : \A i \in DOMAIN Q[s] : Q[s][i].run = r => ~WritesTo(Q, s, i, b)
Served(Q, M, s, i, o) ==
  \/ Stored(Q, M, o[1], o[2], Q[s][i].run)
  \/ \E q \in Stream : \E j \in DOMAIN Q[q] :
       /\ Q[q][j].run = Q[s][i].run /\ o \in Q[q][j].work.writes
       /\ Before(Q, q, j, s, i)
ReadsServed(Q, M) ==
  \A s \in Stream : \A i \in DOMAIN Q[s] : \A o \in Q[s][i].work.reads :
    o[2] \in Passing => o[1] >= Own.ar /\ Served(Q, M, s, i, o)

\* What is in a block is not younger than what is still to be done.
Settled(Q, M) ==
  \A b \in Block : \A s \in Stream : \A i \in DOMAIN Q[s] :
    b >= Own.ar => M[b][2] <= Q[s][i].run

Stored4(M) == M[Own.ids] = <<"ids", 0>>
IdsWriter(Q, q, j) == <<Own.ids, "ids">> \in Q[q][j].work.writes
IdsServed(Q, M) ==
  \A s \in Stream : \A i \in DOMAIN Q[s] : \A o \in Q[s][i].work.reads :
    o[2] = "ids" =>
      /\ o[1] = Own.ids
      /\ \/ Stored4(M)
         \/ \E q \in Stream : \E j \in DOMAIN Q[q] :
              IdsWriter(Q, q, j) /\ ((q = s /\ j < i) \/ Q[q][j].run < Q[s][i].run)

Programme(Q, M, F, open) ==
  /\ Ordered(Q, F, open)
  /\ WritesInPlace(Q) /\ OneWriter(Q) /\ ReadsServed(Q, M) /\ Settled(Q, M)

-----------------------------------------------------------------------------
(* The call under way.                                                     *)

Nothing == [b \in Block |-> Junk]
Capturing == pc # "idle" /\ mode = "capture"
Captured(g) == Marked(graph[g], 1)

Queued  == IF Capturing THEN Captured(Len(graph)) ELSE lane
Memory  == IF Capturing THEN Nothing ELSE mem
Events  == IF Capturing THEN {} ELSE fired
ThisRun == IF Capturing THEN 1 ELSE run
Open    == pc \in {"clone", "shared", "routed"} /\ TwoStreams

HeldNow ==
  (IF pc = "idle" THEN {} ELSE {"x"})
  \cup (IF pc \in {"idle", "gate"} THEN {} ELSE {"gate"})
  \cup (IF TwoStreams /\ CloneSink /\ pc \in {"shared", "routed", "combine", "return"}
          THEN {"sink"} ELSE {})
  \cup (IF Has /\ (pc \in {"combine", "return"} \/ (pc = "routed" /\ TwoStreams))
          THEN {"shared"} ELSE {})
  \cup (IF pc \in {"combine", "return"} \/ (pc = "shared" /\ ~TwoStreams)
          THEN {"routed"} ELSE {})

Outcome == {"sum", "buf"}

CallInv ==
  /\ pc # "idle" => sink = "ready" /\ routing \in Routings[cfg]
  /\ pc = "idle" => held = <<>> /\ routing = None
  /\ pc = "clone" => TwoStreams /\ CloneSink
  /\ pc = "shared" => Has
  /\ DOMAIN held \ Outcome = HeldNow
  /\ pc # "return" => DOMAIN held \cap Outcome = {}
  /\ pc \notin {"idle", "gate"} =>
       /\ gate = IF Shortcut THEN FusedGate ELSE PlainGate
       /\ captured = IF cfg.capturer /\ ~Shortcut THEN routing ELSE None
  /\ Capturing => Len(graph) > 0
  /\ stash # <<>> => Has
  /\ \A nm \in DOMAIN held \ {"buf"} : held[nm][1] \in Fresh /\ held[nm][2] \in Stream

\* Where a tensor of the call was made.
MadeOn(nm) == IF held[nm][2] = "alt" THEN "alt" ELSE "main"

\* Tensor nm is in block b, or made by work to be done on one of the streams:
\* before the fork, or with the join still to be waited for, where that counts.
Ready(Q, M, b, nm, on, r, dues) ==
  \/ Stored(Q, M, b, nm, r)
  \/ \E j \in DOMAIN Q[on] :
       /\ Q[on][j].run = r /\ <<b, nm>> \in Q[on][j].work.writes
       /\ "fork" \in dues => \E k \in DOMAIN Q["main"] : j < k /\ Q["main"][k].run = r /\ FiresFork(Q, k)
       /\ "join" \in dues => \E k \in DOMAIN Q["main"] : Q["main"][k].run = r /\ WaitsJoin(Q, k)

\* Every tensor in hand is there or will be before a reader of the next step.
ForkDue(nm) == MadeOn(nm) = "main" /\ TwoStreams /\ pc # "gate" /\ nm \in {"x", "gate"}
JoinDue(nm) == MadeOn(nm) = "alt" /\ pc \in {"combine", "return"}
Dues(nm) == {e \in Event : (e = "fork" /\ ForkDue(nm)) \/ (e = "join" /\ JoinDue(nm))}
HeldServed ==
  \A nm \in DOMAIN held :
    Ready(Queued, Memory, held[nm][1], nm, MadeOn(nm), ThisRun, Dues(nm))

\* The call has written to the blocks in its hands only.
Touched ==
  pc \notin {"idle", "return"} =>
    \A b \in Block :
      /\ b >= Own.ar
      /\ (Memory[b][2] = ThisRun \/ \E s \in Stream : \E i \in DOMAIN Queued[s] :
                                   Queued[s][i].run = ThisRun /\ WritesTo(Queued, s, i, b))
      => \E nm \in DOMAIN held : held[nm][1] = b

\* Fork and join are issued once.
EventsAhead ==
  /\ pc = "gate" =>
       /\ <<"fork", ThisRun>> \notin Events
       /\ \A i \in DOMAIN Queued["main"] : Queued["main"][i].run = ThisRun => ~FiresFork(Queued, i)
       /\ \A i \in DOMAIN Queued["alt"] : Queued["alt"][i].run # ThisRun
  /\ pc \in {"gate", "clone", "shared", "routed"} =>
       /\ <<"join", ThisRun>> \notin Events
       /\ \A i \in DOMAIN Queued["alt"] : Queued["alt"][i].run = ThisRun => ~FiresJoin(Queued, i)
  /\ Open =>
       \/ <<"fork", ThisRun>> \in Events
       \/ \E k \in DOMAIN Queued["alt"] :
            Queued["alt"][k].run = ThisRun /\ "fork" \in Queued["alt"][k].work.waits

\* The allocator: nothing that is in use or in another list is given away.
Given(nm) == held[nm][1]
FreeInv ==
  /\ \A q, p \in Pool \X Stream : q # p => free[q] \cap free[p] = {}
  /\ \A q \in Pool \X Stream : \A b \in free[q] : b <= top
  /\ \A nm \in DOMAIN held :
       /\ nm = "buf" => held[nm] = <<Own.ar, "none">>
       /\ nm # "buf" =>
            /\ Given(nm) \in Fresh /\ Given(nm) <= top
            /\ held[nm][2] = IF nm \in {"x", "gate", "routed", "sum"} THEN "main"
                             ELSE IF nm = "sink" \/ TwoStreams THEN "alt" ELSE "main"
            /\ \A q \in Pool \X Stream : Given(nm) \notin free[q]
            /\ \A other \in DOMAIN held : Given(other) = Given(nm) => other = nm

\* Runs have their numbers in turn.
RunsInv ==
  /\ \A s \in Stream : \A i \in DOMAIN lane[s] : lane[s][i].run <= run
  /\ \A e \in fired : e[2] <= run
  /\ \A b \in Block : b >= Own.ar => mem[b][2] <= run

IdsInv ==
  /\ IdsServed(lane, mem)
  /\ idsBuilt =>
       \/ Stored4(mem)
       \/ \E q \in Stream : \E j \in DOMAIN lane[q] : IdsWriter(lane, q, j)
  /\ (pc \in {"gate", "clone", "shared"} \/ (pc = "routed" /\ ~TwoStreams)) =>
       \A q \in Stream : \A j \in DOMAIN lane[q] : IdsWriter(lane, q, j) => lane[q][j].run < run
  /\ (SharedKind = "fused" /\ (warm \/ (mode = "warmup" /\ ("shared" \in DOMAIN held)))) => idsBuilt
  /\ Capturing => warm
  /\ \A g \in DOMAIN graph : \A s \in Stream : \A i \in DOMAIN graph[g][s] :
       /\ \A o \in graph[g][s][i].reads : o[2] = "ids" => o[1] = Own.ids /\ idsBuilt
       /\ <<Own.ids, "ids">> \notin graph[g][s][i].writes

OpenRun(r) == IF Open THEN {r} ELSE {}
StreamInv ==
  /\ Programme(lane, mem, fired, IF Capturing THEN {} ELSE OpenRun(run))
  /\ \A g \in DOMAIN graph :
       Programme(Captured(g), Nothing, {}, IF Capturing /\ g = Len(graph) THEN OpenRun(1) ELSE {})

\* Weights are read from where they are kept, nothing writes there, and what is
\* there comes from the last load.
PieceOK(from, w) ==
  /\ \A o \in w.reads : o[2] \in Weights => o \in from
  /\ \A o \in w.writes : o = <<Own.ids, "ids">> \/ (o[1] >= Own.ar /\ o[2] \in Passing)
LaneOK == \A s \in Stream : \A i \in DOMAIN lane[s] : PieceOK(SinkReads, lane[s][i].work)
GraphOK ==
  \A g \in DOMAIN graph : \A s \in Stream : \A i \in DOMAIN graph[g][s] : PieceOK(SinkReads, graph[g][s][i])
SinkKept ==
  /\ sink \in {"loaded", "ready"} /\ SharedKind \notin {"none", "fp4"} => mem[Own.w2] = <<"w2", epoch>>
  /\ sink = "loaded" /\ SharedKind = "fp4" => mem[Own.w2] = <<"w2", epoch>>
  /\ sink = "ready" /\ SharedKind = "linear" => linear /\ mem[Own.w2lin] = <<"w2lin", epoch>>
  /\ sink = "ready" /\ SharedKind = "fp4" /\ epoch = 1 => mem[Own.fp4] = <<"fp4", epoch>>
  /\ SharedKind # "none" /\ sink # "none" => epoch >= 1
WeightInv == LaneOK /\ GraphOK /\ (lane # Empty => sink = "ready") /\ SinkKept

IInv ==
  /\ TypeOK /\ CallInv /\ WeightInv
  /\ StreamInv /\ HeldServed /\ Touched /\ EventsAhead /\ FreeInv /\ RunsInv /\ IdsInv

-----------------------------------------------------------------------------
(* The device does the next piece of work of stream s.                     *)

\* No entry of a queue is younger than the run that is open.
UpTo(Q, open) == \A r \in open : \A s \in Stream : \A i \in DOMAIN Q[s] : Q[s][i].run <= r

CanRun(Q, F, s) ==
  /\ Q[s] # <<>>
  /\ \A e \in Q[s][1].work.waits : <<e, Q[s][1].run>> \in F

\* Where an entry was before stream s0 lost its first one.
Old(s0, s, i) == IF s = s0 THEN i + 1 ELSE i
Rest(Q, Q2, s0) ==
  /\ 1 \in DOMAIN Q[s0]
  /\ \A s \in Stream : \A i \in DOMAIN Q2[s] :
       Old(s0, s, i) \in DOMAIN Q[s] /\ Q2[s][i] = Q[s][Old(s0, s, i)]
  /\ \A s \in Stream : \A i \in DOMAIN Q[s] :
       ~(s = s0 /\ i = 1) => \E k \in DOMAIN Q2[s] : Old(s0, s, k) = i

\* Entries are counted from one.
LEMMA QueueIndex ==
  ASSUME NEW Q \in Queue, NEW s \in Stream
  PROVE  /\ Q[s] \in Seq(Entry) /\ DOMAIN Q[s] = 1 .. Len(Q[s]) /\ Len(Q[s]) \in Nat
         /\ \A i \in DOMAIN Q[s] : i \in Nat \ {0} /\ Q[s][i] \in Entry /\ Q[s][i].run \in Nat
                                   /\ Q[s][i].work \in Pieces
<1>1. Q[s] \in Seq(Entry)
  BY DEF Queue
<1>2. \A i \in DOMAIN Q[s] : Q[s][i] \in Entry
  BY <1>1
<1> QED
  BY <1>1, <1>2 DEF Entry

\* Losing the first entry of a stream.
LEMMA TailIsRest ==
  ASSUME NEW Q \in Queue, NEW s0 \in Stream, Q[s0] # <<>>
  PROVE  /\ [Q EXCEPT ![s0] = Tail(Q[s0])] \in Queue
         /\ Rest(Q, [Q EXCEPT ![s0] = Tail(Q[s0])], s0)
         /\ Head(Q[s0]) = Q[s0][1]
<1> DEFINE Q2 == [Q EXCEPT ![s0] = Tail(Q[s0])]
<1>1. Q[s0] \in Seq(Entry)
  BY DEF Queue
<1>2. /\ Tail(Q[s0]) \in Seq(Entry) /\ Len(Tail(Q[s0])) = Len(Q[s0]) - 1
      /\ \A i \in 1 .. Len(Tail(Q[s0])) : Tail(Q[s0])[i] = Q[s0][i + 1]
  BY <1>1, HeadTailProperties
<1>3. Len(Q[s0]) \in Nat \ {0} /\ DOMAIN Q[s0] = 1 .. Len(Q[s0])
  BY <1>1
<1>4. DOMAIN Tail(Q[s0]) = 1 .. Len(Q[s0]) - 1
  BY <1>2
<1>5. \A s \in Stream : Q2[s] = IF s = s0 THEN Tail(Q[s0]) ELSE Q[s]
  BY DEF Queue
<1>6. Q2 \in Queue
  BY <1>2 DEF Queue
<1>7. ASSUME NEW s \in Stream, NEW i \in DOMAIN Q2[s]
      PROVE  Old(s0, s, i) \in DOMAIN Q[s] /\ Q2[s][i] = Q[s][Old(s0, s, i)]
  <2>1. CASE s = s0
    <3>1. i \in 1 .. Len(Tail(Q[s0])) /\ Q2[s] = Tail(Q[s0])
      BY <2>1, <1>2, <1>4, <1>5
    <3>2. i + 1 \in DOMAIN Q[s0] /\ Tail(Q[s0])[i] = Q[s0][i + 1]
      BY <3>1, <1>2, <1>3
    <3> QED
      BY <3>1, <3>2, <2>1 DEF Old
  <2>2. CASE s # s0
    BY <2>2, <1>5 DEF Old
  <2> QED
    BY <2>1, <2>2
<1>8. ASSUME NEW s \in Stream, NEW i \in DOMAIN Q[s], ~(s = s0 /\ i = 1)
      PROVE  \E k \in DOMAIN Q2[s] : Old(s0, s, k) = i
  <2>1. CASE s = s0
    <3>1. i - 1 \in DOMAIN Q2[s] /\ (i - 1) + 1 = i
      BY <2>1, <1>8, <1>3, <1>4, <1>5
    <3> QED
      BY <3>1, <2>1 DEF Old
  <2>2. CASE s # s0
    BY <2>2, <1>5 DEF Old
  <2> QED
    BY <2>1, <2>2
<1>9. 1 \in DOMAIN Q[s0] /\ Head(Q[s0]) = Q[s0][1]
  BY <1>1, <1>3
<1>10. Rest(Q, Q2, s0)
  BY <1>7, <1>8, <1>9 DEF Rest
<1> QED
  BY <1>6, <1>9, <1>10

\* Whatever can run belongs to the oldest run there is work of: the streams
\* never work on two runs at once.
LEMMA HeadIsLeast ==
  ASSUME NEW Q \in Queue, NEW F, NEW open, NEW s0 \in Stream,
         Ordered(Q, F, open), UpTo(Q, open), CanRun(Q, F, s0)
  PROVE  \A s \in Stream : \A i \in DOMAIN Q[s] : Q[s0][1].run <= Q[s][i].run
<1>1. 1 \in DOMAIN Q[s0]
  BY QueueIndex DEF CanRun
<1> SUFFICES ASSUME NEW s \in Stream, NEW i \in DOMAIN Q[s]
             PROVE  Q[s0][1].run <= Q[s][i].run
  OBVIOUS
<1>2. i \in Nat \ {0} /\ Q[s][i].run \in Nat /\ Q[s0][1].run \in Nat
  BY <1>1, QueueIndex
<1>3. CASE s = s0
  BY <1>1, <1>2, <1>3 DEF Ordered, Sorted
<1>4. CASE s0 = "main" /\ s = "alt"
  <2>1. CASE Q["alt"][i].run \in open
    BY <2>1, <1>1, <1>4 DEF UpTo
  <2>2. ASSUME NEW k \in DOMAIN Q["main"], Q["main"][k].run = Q["alt"][i].run
        PROVE  Q[s0][1].run <= Q[s][i].run
    <3>1. 1 <= k
      BY QueueIndex DEF Stream
    <3> QED
      BY <2>2, <3>1, <1>1, <1>4 DEF Ordered, Sorted
  <2> QED
    BY <2>1, <2>2, <1>4 DEF Ordered, Joined
<1>5. CASE s0 = "alt" /\ s = "main"
  <2>1. <<"fork", Q["alt"][1].run>> \in F
    <3>1. \/ <<"fork", Q["alt"][1].run>> \in F
          \/ \E k \in 1 .. 1 : "fork" \in Q["alt"][k].work.waits
      BY <1>1, <1>5 DEF Ordered, Forked
    <3> QED
      BY <3>1, <1>5 DEF CanRun
  <2>2. Q["main"][i].run >= Q["alt"][1].run
    BY <2>1, <1>5 DEF Ordered, ForkedOnce
  <2> QED
    BY <2>2, <1>2, <1>5
<1> QED
  BY <1>3, <1>4, <1>5 DEF Stream

\* What can run and reads a tensor of its run has it in the block.
LEMMA ReadsWell ==
  ASSUME NEW Q \in Queue, NEW M, NEW F, NEW open, NEW s0 \in Stream,
         Programme(Q, M, F, open), CanRun(Q, F, s0),
         NEW o \in Q[s0][1].work.reads, o[2] \in Passing
  PROVE  M[o[1]] = <<o[2], Q[s0][1].run>>
<1>1. 1 \in DOMAIN Q[s0]
  BY QueueIndex DEF CanRun
<1>2. Served(Q, M, s0, 1, o)
  BY <1>1 DEF Programme, ReadsServed
<1>3. ASSUME NEW q \in Stream, NEW j \in DOMAIN Q[q], Q[q][j].run = Q[s0][1].run,
             Before(Q, q, j, s0, 1)
      PROVE  FALSE
  <2>1. j \in Nat \ {0}
    BY QueueIndex
  <2>2. \A k \in DOMAIN Q["main"] : k \in Nat \ {0}
    BY QueueIndex DEF Stream
  <2>3. PICK k \in DOMAIN Q["main"] :
          /\ q = "main" /\ s0 = "alt" /\ Q["main"][k].run = Q["alt"][1].run /\ FiresFork(Q, k)
    BY <1>3, <2>1, <2>2 DEF Before
  <2>4. <<"fork", Q["alt"][1].run>> \in F
    <3>1. \/ <<"fork", Q["alt"][1].run>> \in F
          \/ \E x \in 1 .. 1 : "fork" \in Q["alt"][x].work.waits
      BY <1>1, <2>3 DEF Programme, Ordered, Forked
    <3> QED
      BY <3>1, <2>3 DEF CanRun
  <2> QED
    BY <2>3, <2>4 DEF Programme, Ordered, ForkedOnce
<1>4. Stored(Q, M, o[1], o[2], Q[s0][1].run)
  BY <1>2, <1>3 DEF Served
<1> QED
  BY <1>4 DEF Stored

\* What is left of a stream is what it was, one place further on.
LEMMA OldIndex ==
  ASSUME NEW Q \in Queue, NEW Q2 \in Queue, NEW s0 \in Stream, Rest(Q, Q2, s0)
  PROVE  /\ \A s \in Stream : \A i \in DOMAIN Q2[s] :
              /\ Old(s0, s, i) \in DOMAIN Q[s] /\ Q2[s][i] = Q[s][Old(s0, s, i)]
              /\ i \in Nat \ {0} /\ Old(s0, s, i) >= i /\ (s = s0 => Old(s0, s, i) > 1)
              /\ \A j \in DOMAIN Q2[s] :
                   (i < j <=> Old(s0, s, i) < Old(s0, s, j)) /\ (Old(s0, s, i) = Old(s0, s, j) => i = j)
<1>1. \A s \in Stream : \A i \in DOMAIN Q2[s] : i \in Nat \ {0}
  BY QueueIndex
<1> QED
  BY <1>1 DEF Rest, Old

\* The order of the two streams survives a piece of work that is done.
LEMMA OrderedRest ==
  ASSUME NEW Q \in Queue, NEW Q2 \in Queue, NEW F, NEW F2, NEW open, NEW s0 \in Stream,
         Rest(Q, Q2, s0), Ordered(Q, F, open), UpTo(Q, open), CanRun(Q, F, s0),
         F2 = F \cup {<<e, Q[s0][1].run>> : e \in Q[s0][1].work.fires}
  PROVE  Ordered(Q2, F2, open)
<1> DEFINE r0 == Q[s0][1].run
<1>1. 1 \in DOMAIN Q[s0]
  BY QueueIndex DEF CanRun
<1>2. \A s \in Stream : \A i \in DOMAIN Q2[s] : r0 <= Q2[s][i].run
  BY HeadIsLeast, OldIndex
<1>3. FiresInPlace(Q2)
  BY OldIndex DEF Ordered, FiresInPlace, Stream
<1>4. Sorted(Q2)
  <2> SUFFICES ASSUME NEW s \in Stream, NEW i \in DOMAIN Q2[s], NEW j \in DOMAIN Q2[s], i <= j
               PROVE  Q2[s][i].run <= Q2[s][j].run
    BY DEF Sorted
  <2>1. Old(s0, s, i) <= Old(s0, s, j)
    BY QueueIndex DEF Old
  <2> QED
    BY <2>1, OldIndex DEF Ordered, Sorted
<1>5. Forked(Q2, F2)
  <2> SUFFICES ASSUME NEW i \in DOMAIN Q2["alt"], <<"fork", Q2["alt"][i].run>> \notin F2
               PROVE  \E k \in 1 .. i : /\ Q2["alt"][k].run = Q2["alt"][i].run
                                        /\ "fork" \in Q2["alt"][k].work.waits
    BY DEF Forked
  <2> DEFINE ii == Old(s0, "alt", i)
  <2>1. ii \in DOMAIN Q["alt"] /\ Q2["alt"][i] = Q["alt"][ii]
    BY OldIndex DEF Stream
  <2>2. PICK k \in 1 .. ii : Q["alt"][k].run = Q["alt"][ii].run /\ "fork" \in Q["alt"][k].work.waits
    BY <2>1 DEF Ordered, Forked
  <2>3. k \in DOMAIN Q["alt"]
    BY <2>1, <2>2, QueueIndex DEF Stream
  <2>4. ~(s0 = "alt" /\ k = 1)
    BY <2>1, <2>2 DEF CanRun
  <2>5. PICK kk \in DOMAIN Q2["alt"] : Old(s0, "alt", kk) = k
    BY <2>3, <2>4 DEF Rest, Stream
  <2>6. kk \in 1 .. i
    BY <2>2, <2>5, QueueIndex DEF Old, Stream
  <2>7. Q2["alt"][kk] = Q["alt"][k]
    BY <2>5, OldIndex DEF Stream
  <2> QED
    BY <2>1, <2>2, <2>6, <2>7
<1>6. ForkedOnce(Q2, F2)
  <2>1. ASSUME NEW i \in DOMAIN Q2["main"], NEW e \in F2, e[1] = "fork"
        PROVE  Q2["main"][i].run >= e[2] /\ ~(Q2["main"][i].run = e[2] /\ FiresFork(Q2, i))
    <3> DEFINE ii == Old(s0, "main", i)
    <3>1. ii \in DOMAIN Q["main"] /\ Q2["main"][i] = Q["main"][ii] /\ (s0 = "main" => ii # 1)
      BY OldIndex DEF Stream
    <3>2. CASE e \in F
      BY <3>1, <3>2, <2>1 DEF Ordered, ForkedOnce, FiresFork
    <3>3. CASE e \notin F
      <4>1. e[2] = r0 /\ "fork" \in Q[s0][1].work.fires
        BY <3>3, <2>1
      <4>2. s0 = "main"
        BY <4>1, <1>1 DEF Ordered, FiresInPlace, Stream
      <4>3. Q2["main"][i].run >= r0
        BY <1>2, QueueIndex, <1>1 DEF Stream
      <4>4. ASSUME Q2["main"][i].run = r0, FiresFork(Q2, i) PROVE FALSE
        BY <4>1, <4>2, <4>4, <3>1, <1>1 DEF Ordered, ForkedOnce, FiresFork
      <4> QED
        BY <4>1, <4>3, <4>4
    <3> QED
      BY <3>2, <3>3
  <2>2. ASSUME NEW i \in DOMAIN Q2["main"], NEW j \in DOMAIN Q2["main"],
               FiresFork(Q2, i), FiresFork(Q2, j), Q2["main"][i].run = Q2["main"][j].run
        PROVE  i = j
    <3>1. Old(s0, "main", i) = Old(s0, "main", j)
      BY <2>2, OldIndex DEF Ordered, ForkedOnce, FiresFork, Stream
    <3> QED
      BY <3>1, OldIndex DEF Stream
  <2> QED
    BY <2>1, <2>2 DEF ForkedOnce
<1>7. JoinedOnce(Q2, F2)
  <2>1. ASSUME NEW i \in DOMAIN Q2["alt"], <<"join", Q2["alt"][i].run>> \in F2
        PROVE  FALSE
    <3> DEFINE ii == Old(s0, "alt", i)
    <3>1. ii \in DOMAIN Q["alt"] /\ Q2["alt"][i] = Q["alt"][ii] /\ (s0 = "alt" => 1 < ii)
      BY OldIndex DEF Stream
    <3>2. <<"join", Q["alt"][ii].run>> \notin F
      BY <3>1 DEF Ordered, JoinedOnce
    <3>3. "join" \in Q[s0][1].work.fires /\ Q2["alt"][i].run = r0
      BY <2>1, <3>1, <3>2
    <3>4. s0 = "alt"
      BY <3>3, <1>1 DEF Ordered, FiresInPlace, Stream
    <3>5. Q["alt"][1].run < Q["alt"][ii].run
      BY <3>1, <3>3, <3>4, <1>1 DEF Ordered, JoinedOnce, FiresJoin
    <3> QED
      BY <3>1, <3>3, <3>4, <3>5, <1>1, QueueIndex
  <2>2. ASSUME NEW i \in DOMAIN Q2["alt"], NEW j \in DOMAIN Q2["alt"], i < j, FiresJoin(Q2, i)
        PROVE  Q2["alt"][i].run < Q2["alt"][j].run
    <3>1. Old(s0, "alt", i) < Old(s0, "alt", j)
      BY <2>2, OldIndex DEF Stream
    <3> QED
      BY <3>1, <2>2, OldIndex DEF Ordered, JoinedOnce, FiresJoin, Stream
  <2> QED
    BY <2>1, <2>2 DEF JoinedOnce
<1>8. Joined(Q2, open)
  <2> SUFFICES ASSUME NEW i \in DOMAIN Q2["alt"], Q2["alt"][i].run \notin open
               PROVE  \E k \in DOMAIN Q2["main"] :
                        Q2["main"][k].run = Q2["alt"][i].run /\ WaitsJoin(Q2, k)
    BY DEF Joined
  <2> DEFINE ii == Old(s0, "alt", i)
  <2>1. ii \in DOMAIN Q["alt"] /\ Q2["alt"][i] = Q["alt"][ii]
    BY OldIndex DEF Stream
  <2>2. PICK k \in DOMAIN Q["main"] : Q["main"][k].run = Q["alt"][ii].run /\ WaitsJoin(Q, k)
    BY <2>1 DEF Ordered, Joined
  <2>3. <<"join", Q["alt"][ii].run>> \notin F
    BY <2>1 DEF Ordered, JoinedOnce
  <2>4. ~(s0 = "main" /\ k = 1)
    BY <2>2, <2>3 DEF CanRun, WaitsJoin
  <2>5. PICK kk \in DOMAIN Q2["main"] : Old(s0, "main", kk) = k
    BY <2>2, <2>4 DEF Rest, Stream
  <2>6. Q2["main"][kk] = Q["main"][k]
    BY <2>5, OldIndex DEF Stream
  <2> QED
    BY <2>1, <2>2, <2>6 DEF WaitsJoin
<1> QED
  BY <1>3, <1>4, <1>5, <1>6, <1>7, <1>8 DEF Ordered

\* What the memory is after the first entry of stream s0.
Does(Q, M, M2, s0) ==
  /\ \A o \in Q[s0][1].work.writes :
       M2[o[1]] = <<o[2], IF o[2] = "ids" THEN 0 ELSE Q[s0][1].run>>
  /\ \A b \in Block : ~WritesTo(Q, s0, 1, b) => M2[b] = M[b]

\* A step of the device, as the lemmas below take it.
Step(Q, Q2, M, M2, F, open, s0) ==
  /\ Rest(Q, Q2, s0) /\ UpTo(Q, open) /\ CanRun(Q, F, s0)
  /\ Programme(Q, M, F, open) /\ Does(Q, M, M2, s0)

\* A tensor that is in its block stays there, unless its run is over.
LEMMA StoredRest ==
  ASSUME NEW Q \in Queue, NEW Q2 \in Queue, NEW M, NEW M2, NEW F, NEW open, NEW s0 \in Stream,
         Step(Q, Q2, M, M2, F, open, s0),
         NEW b \in Block, b >= Own.ar, NEW nm, NEW r \in Nat, r >= Q[s0][1].run,
         Stored(Q, M, b, nm, r)
  PROVE  Stored(Q2, M2, b, nm, r)
<1>1. 1 \in DOMAIN Q[s0]
  BY QueueIndex DEF Step, CanRun
<1>2. ~WritesTo(Q, s0, 1, b)
  <2>1. M[b] = <<nm, r>> /\ (Q[s0][1].run = r => ~WritesTo(Q, s0, 1, b))
    BY <1>1 DEF Stored
  <2>2. r <= Q[s0][1].run
    BY <1>1, <2>1 DEF Step, Programme, Settled
  <2>3. Q[s0][1].run \in Nat
    BY <1>1, QueueIndex
  <2> QED
    BY <2>1, <2>2, <2>3
<1>3. M2[b] = <<nm, r>>
  BY <1>2 DEF Step, Does, Stored
<1>4. ASSUME NEW s \in Stream, NEW i \in DOMAIN Q2[s], Q2[s][i].run = r
      PROVE  ~WritesTo(Q2, s, i, b)
  BY <1>4, OldIndex DEF Step, Stored, WritesTo
<1> QED
  BY <1>3, <1>4 DEF Stored

\* A tensor that will be written still will be, or now is.
LEMMA PendingRest ==
  ASSUME NEW Q \in Queue, NEW Q2 \in Queue, NEW M, NEW M2, NEW F, NEW open, NEW s0 \in Stream,
         Step(Q, Q2, M, M2, F, open, s0),
         NEW q \in Stream, NEW j \in DOMAIN Q[q], NEW o \in Q[q][j].work.writes,
         o[2] \in Passing
  PROVE  \/ \E k \in DOMAIN Q2[q] : Old(s0, q, k) = j
         \/ q = s0 /\ j = 1 /\ Stored(Q2, M2, o[1], o[2], Q[q][j].run)
<1>1. CASE ~(q = s0 /\ j = 1)
  BY <1>1 DEF Step, Rest
<1>2. CASE q = s0 /\ j = 1
  <2>1. M2[o[1]] = <<o[2], Q[q][j].run>>
    BY <1>2 DEF Step, Does, Passing
  <2>2. o[1] # Own.ids
    BY DEF Step, Programme, WritesInPlace, Own, Passing
  <2>3. ASSUME NEW s \in Stream, NEW i \in DOMAIN Q2[s], Q2[s][i].run = Q[q][j].run,
               WritesTo(Q2, s, i, o[1])
        PROVE  FALSE
    <3> DEFINE ii == Old(s0, s, i)
    <3>1. ii \in DOMAIN Q[s] /\ Q2[s][i] = Q[s][ii] /\ ~(s = s0 /\ ii = 1)
      BY OldIndex DEF Step
    <3>2. PICK p \in Q[s][ii].work.writes : p[1] = o[1]
      BY <2>3, <3>1 DEF WritesTo
    <3>3. s = q /\ ii = j
      BY <2>3, <3>1, <3>2 DEF Step, Programme, OneWriter
    <3> QED
      BY <3>1, <3>3, <1>2
  <2> QED
    BY <1>2, <2>1, <2>3 DEF Stored
<1> QED
  BY <1>1, <1>2

\* The data of the two streams survives a piece of work that is done.
LEMMA DataRest ==
  ASSUME NEW Q \in Queue, NEW Q2 \in Queue, NEW M, NEW M2, NEW F, NEW open, NEW s0 \in Stream,
         Step(Q, Q2, M, M2, F, open, s0)
  PROVE  WritesInPlace(Q2) /\ OneWriter(Q2) /\ ReadsServed(Q2, M2) /\ Settled(Q2, M2)
<1>1. 1 \in DOMAIN Q[s0] /\ Q[s0][1].run \in Nat
  BY QueueIndex DEF Step, CanRun
<1>2. \A s \in Stream : \A i \in DOMAIN Q[s] : Q[s0][1].run <= Q[s][i].run
  BY HeadIsLeast DEF Step, Programme
<1>3. WritesInPlace(Q2)
  BY OldIndex DEF Step, Programme, WritesInPlace
<1>4. OneWriter(Q2)
  <2> SUFFICES ASSUME NEW s \in Stream, NEW q \in Stream, NEW i \in DOMAIN Q2[s],
                      NEW j \in DOMAIN Q2[q], NEW o \in Q2[s][i].work.writes,
                      NEW p \in Q2[q][j].work.writes, o[1] = p[1], Q2[s][i].run = Q2[q][j].run
               PROVE  s = q /\ i = j /\ o = p
    BY DEF OneWriter
  <2>1. s = q /\ Old(s0, s, i) = Old(s0, q, j) /\ o = p
    BY OldIndex DEF Step, Programme, OneWriter
  <2> QED
    BY <2>1, OldIndex DEF Step
<1>5. ReadsServed(Q2, M2)
  <2> SUFFICES ASSUME NEW s \in Stream, NEW i \in DOMAIN Q2[s], NEW o \in Q2[s][i].work.reads,
                      o[2] \in Passing
               PROVE  o[1] >= Own.ar /\ Served(Q2, M2, s, i, o)
    BY DEF ReadsServed
  <2> DEFINE ii == Old(s0, s, i)
  <2>1. ii \in DOMAIN Q[s] /\ Q2[s][i] = Q[s][ii] /\ (s = s0 => ii > 1)
    BY OldIndex DEF Step
  <2>2. o[1] >= Own.ar /\ Served(Q, M, s, ii, o)
    BY <2>1 DEF Step, Programme, ReadsServed
  <2>3. o[1] \in Block /\ Q[s][ii].run \in Nat
    BY <2>1, QueueIndex DEF Pieces
  <2>4. CASE Stored(Q, M, o[1], o[2], Q[s][ii].run)
    BY <2>1, <2>2, <2>3, <2>4, <1>2, StoredRest DEF Served
  <2>5. ASSUME NEW q \in Stream, NEW j \in DOMAIN Q[q], Q[q][j].run = Q[s][ii].run,
               o \in Q[q][j].work.writes, Before(Q, q, j, s, ii)
        PROVE  Served(Q2, M2, s, i, o)
    <3>1. CASE q = s0 /\ j = 1 /\ Stored(Q2, M2, o[1], o[2], Q[q][j].run)
      BY <3>1, <2>1, <2>5 DEF Served
    <3>2. ASSUME NEW jj \in DOMAIN Q2[q], Old(s0, q, jj) = j
          PROVE  Served(Q2, M2, s, i, o)
      <4>1. Q2[q][jj] = Q[q][j]
        BY <3>2, OldIndex DEF Step
      <4>2. Before(Q2, q, jj, s, i)
        <5>1. CASE q = s /\ j < ii
          BY <5>1, <3>2, OldIndex DEF Step, Before
        <5>2. ASSUME q = "main", s = "alt", NEW k \in DOMAIN Q["main"], j < k,
                     Q["main"][k].run = Q["main"][j].run, FiresFork(Q, k)
              PROVE  Before(Q2, q, jj, s, i)
          <6>1. ~(s0 = "main" /\ k = 1)
            BY <5>2, QueueIndex
          <6>2. PICK kk \in DOMAIN Q2["main"] : Old(s0, "main", kk) = k
            BY <6>1, <5>2 DEF Step, Rest, Stream
          <6>3. Q2["main"][kk] = Q["main"][k] /\ jj < kk
            BY <6>2, <5>2, <3>2, OldIndex DEF Step, Stream
          <6> QED
            BY <6>3, <5>2, <4>1 DEF Before, FiresFork
        <5>3. ASSUME q = "alt", s = "main", NEW k \in DOMAIN Q["main"], k < ii,
                     Q["main"][k].run = Q["main"][ii].run, WaitsJoin(Q, k)
              PROVE  Before(Q2, q, jj, s, i)
          <6>0. <<"join", Q["alt"][j].run>> \notin F
            BY <5>3, <2>5 DEF Step, Programme, Ordered, JoinedOnce
          <6>1. ~(s0 = "main" /\ k = 1)
            BY <6>0, <5>3, <2>5 DEF Step, CanRun, WaitsJoin
          <6>2. PICK kk \in DOMAIN Q2["main"] : Old(s0, "main", kk) = k
            BY <6>1, <5>3 DEF Step, Rest, Stream
          <6>3. Q2["main"][kk] = Q["main"][k] /\ kk < i
            BY <6>2, <5>3, OldIndex DEF Step, Stream
          <6> QED
            BY <6>3, <5>3, <2>1 DEF Before, WaitsJoin
        <5> QED
          BY <2>5, <5>1, <5>2, <5>3 DEF Before
      <4> QED
        BY <4>1, <4>2, <2>1, <2>5 DEF Served
    <3> QED
      BY <2>5, <3>1, <3>2, PendingRest
  <2> QED
    BY <2>2, <2>4, <2>5 DEF Served
<1>6. Settled(Q2, M2)
  <2> SUFFICES ASSUME NEW b \in Block, NEW s \in Stream, NEW i \in DOMAIN Q2[s], b >= Own.ar
               PROVE  M2[b][2] <= Q2[s][i].run
    BY DEF Settled
  <2> DEFINE ii == Old(s0, s, i)
  <2>1. ii \in DOMAIN Q[s] /\ Q2[s][i] = Q[s][ii]
    BY OldIndex DEF Step
  <2>2. CASE ~WritesTo(Q, s0, 1, b)
    BY <2>1, <2>2 DEF Step, Does, Programme, Settled
  <2>3. ASSUME NEW o \in Q[s0][1].work.writes, o[1] = b
        PROVE  M2[b][2] <= Q2[s][i].run
    <3>1. o[2] # "ids"
      BY <2>3, <1>1 DEF Step, Programme, WritesInPlace, Own, Passing
    <3>2. M2[b][2] = Q[s0][1].run
      BY <2>3, <3>1 DEF Step, Does
    <3> QED
      BY <3>2, <2>1, <1>2
  <2> QED
    BY <2>2, <2>3 DEF WritesTo
<1> QED
  BY <1>3, <1>4, <1>5, <1>6

-----------------------------------------------------------------------------
(* The host enqueues work N of run r behind what is there.                 *)

Added(Q, Q2, N) ==
  /\ \A s \in Stream : \A i \in DOMAIN Q[s] : i \in DOMAIN Q2[s] /\ Q2[s][i] = Q[s][i]
  /\ \A s \in Stream : \A i \in DOMAIN N[s] :
       Len(Q[s]) + i \in DOMAIN Q2[s] /\ Q2[s][Len(Q[s]) + i] = N[s][i]
  /\ \A s \in Stream : \A i \in DOMAIN Q2[s] :
       i \in DOMAIN Q[s] \/ \E k \in DOMAIN N[s] : i = Len(Q[s]) + k

\* Sequence l is a with c behind it.
Behind(a, c, l) ==
  /\ \A i \in DOMAIN a : i \in DOMAIN l /\ l[i] = a[i]
  /\ \A i \in DOMAIN c : Len(a) + i \in DOMAIN l /\ l[Len(a) + i] = c[i]
  /\ \A i \in DOMAIN l : i \in DOMAIN a \/ \E k \in DOMAIN c : i = Len(a) + k

\* Where the elements of a concatenation are.
LEMMA ConcatIndex ==
  ASSUME NEW S, NEW a \in Seq(S), NEW c \in Seq(S)
  PROVE  a \o c \in Seq(S) /\ Behind(a, c, a \o c)
<1> DEFINE l == a \o c
<1>1. /\ l \in Seq(S) /\ Len(l) = Len(a) + Len(c)
      /\ \A i \in 1 .. Len(a) + Len(c) : l[i] = IF i <= Len(a) THEN a[i] ELSE c[i - Len(a)]
  BY ConcatProperties
<1>2. /\ DOMAIN a = 1 .. Len(a) /\ DOMAIN c = 1 .. Len(c) /\ Len(a) \in Nat /\ Len(c) \in Nat
  OBVIOUS
<1> HIDE DEF l
<1>3. DOMAIN l = 1 .. Len(a) + Len(c)
  BY <1>1
<1>4. ASSUME NEW i \in DOMAIN a PROVE i \in DOMAIN l /\ l[i] = a[i]
  BY <1>1, <1>2, <1>3
<1>5. ASSUME NEW i \in DOMAIN c PROVE Len(a) + i \in DOMAIN l /\ l[Len(a) + i] = c[i]
  <2>1. /\ Len(a) + i \in 1 .. Len(a) + Len(c) /\ ~(Len(a) + i <= Len(a))
        /\ (Len(a) + i) - Len(a) = i
    BY <1>2
  <2> QED
    BY <2>1, <1>1, <1>3
<1>6. ASSUME NEW i \in DOMAIN l, i \notin DOMAIN a
      PROVE  \E k \in DOMAIN c : i = Len(a) + k
  <2>1. i - Len(a) \in DOMAIN c /\ i = Len(a) + (i - Len(a))
    BY <1>2, <1>3, <1>6
  <2> QED
    BY <2>1
<1>7. Behind(a, c, l)
  BY <1>4, <1>5, <1>6 DEF Behind
<1> QED
  BY <1>1, <1>7 DEF l

\* Concatenation adds the new entries behind the old ones.
LEMMA ConcatAdds ==
  ASSUME NEW Q \in Queue, NEW N \in Queue
  PROVE  /\ [s \in Stream |-> Q[s] \o N[s]] \in Queue
         /\ Added(Q, [s \in Stream |-> Q[s] \o N[s]], N)
<1> DEFINE Q2 == [s \in Stream |-> Q[s] \o N[s]]
<1>1. \A s \in Stream : Q[s] \in Seq(Entry) /\ N[s] \in Seq(Entry) /\ Q2[s] = Q[s] \o N[s]
  BY DEF Queue
<1>2. \A s \in Stream : Q[s] \o N[s] \in Seq(Entry)
  BY <1>1, ConcatIndex
<1>3. Q2 \in Queue
  BY <1>1, <1>2 DEF Queue
<1>4. ASSUME NEW s \in Stream
      PROVE  /\ \A i \in DOMAIN Q[s] : i \in DOMAIN Q2[s] /\ Q2[s][i] = Q[s][i]
             /\ \A i \in DOMAIN N[s] :
                  Len(Q[s]) + i \in DOMAIN Q2[s] /\ Q2[s][Len(Q[s]) + i] = N[s][i]
             /\ \A i \in DOMAIN Q2[s] :
                  i \in DOMAIN Q[s] \/ \E k \in DOMAIN N[s] : i = Len(Q[s]) + k
  <2>1. Q[s] \in Seq(Entry) /\ N[s] \in Seq(Entry) /\ Q2[s] = Q[s] \o N[s]
    BY <1>1
  <2>2. Behind(Q[s], N[s], Q2[s])
    BY <2>1, ConcatIndex
  <2> HIDE DEF Q2
  <2> QED
    BY <2>2 DEF Behind
<1> HIDE DEF Q2
<1>5. Added(Q, Q2, N)
  BY <1>4 DEF Added
<1> QED
  BY <1>3, <1>5 DEF Q2

\* The new work finds what it reads: there and left alone, ...
Found(Q, N, M, r, s, i, o) ==
  \/ Stored(Q, M, o[1], o[2], r) /\ \A q \in Stream : \A j \in DOMAIN N[q] : ~WritesTo(N, q, j, o[1])
  \* ... made by new work, ...
  \/ \E q \in Stream : \E j \in DOMAIN N[q] : o \in N[q][j].work.writes /\ Before(N, q, j, s, i)
  \* ... or by what is already enqueued.
  \/ \E q \in Stream : \E j \in DOMAIN Q[q] :
       /\ Q[q][j].run = r /\ o \in Q[q][j].work.writes
       /\ \/ q = s
          \/ /\ q = "main" /\ s = "alt"
             /\ \E k \in DOMAIN Q["main"] : j < k /\ Q["main"][k].run = r /\ FiresFork(Q, k)
          \/ /\ q = "alt" /\ s = "main"
             /\ \E k \in DOMAIN Q["main"] : Q["main"][k].run = r /\ WaitsJoin(Q, k)

\* The new work keeps to the order of the two streams, ...
FitsOrder(Q, N, F, r, open, open2) ==
  /\ \A s \in Stream : \A i \in DOMAIN Q[s] : Q[s][i].run <= r
  /\ \A s \in Stream : \A i \in DOMAIN N[s] : N[s][i].run = r
  /\ FiresInPlace(N)
  /\ \A i \in DOMAIN N["alt"] :
       \/ <<"fork", r>> \in F
       \/ \E k \in DOMAIN Q["alt"] : Q["alt"][k].run = r /\ "fork" \in Q["alt"][k].work.waits
       \/ \E k \in 1 .. i : "fork" \in N["alt"][k].work.waits
  /\ \A e \in F : e[2] <= r
  /\ \A i \in DOMAIN N["main"] : FiresFork(N, i) =>
       /\ <<"fork", r>> \notin F
       /\ \A k \in DOMAIN Q["main"] : Q["main"][k].run = r => ~FiresFork(Q, k)
       /\ \A k \in DOMAIN N["main"] : FiresFork(N, k) => k = i
  /\ \A i \in DOMAIN N["alt"] :
       /\ <<"join", r>> \notin F
       /\ \A k \in DOMAIN Q["alt"] : Q["alt"][k].run = r => ~FiresJoin(Q, k)
       /\ FiresJoin(N, i) => \A k \in DOMAIN N["alt"] : k <= i
  /\ \A i \in DOMAIN N["alt"] : r \in open2 \/ \E k \in DOMAIN N["main"] : WaitsJoin(N, k)
  /\ \A x \in open : x \in open2 \/ (x = r /\ \E k \in DOMAIN N["main"] : WaitsJoin(N, k))

\* ... and of the data.
FitsData(Q, N, M, r) ==
  /\ WritesInPlace(N) /\ OneWriter(N)
  /\ \A s \in Stream : \A i \in DOMAIN N[s] : \A o \in N[s][i].work.writes :
       /\ o[1] >= Own.ar => M[o[1]][2] # r
       /\ \A q \in Stream : \A j \in DOMAIN Q[q] : Q[q][j].run = r => ~WritesTo(Q, q, j, o[1])
  /\ \A s \in Stream : \A i \in DOMAIN N[s] : \A o \in N[s][i].work.reads :
       o[2] \in Passing => o[1] >= Own.ar /\ Found(Q, N, M, r, s, i, o)
  /\ \A b \in Block : b >= Own.ar => M[b][2] <= r

\* Where the entries of the longer queue come from.
LEMMA AddedIndex ==
  ASSUME NEW Q \in Queue, NEW Q2 \in Queue, NEW N \in Queue, Added(Q, Q2, N),
         NEW s \in Stream, NEW i \in DOMAIN Q2[s]
  PROVE  \/ i \in DOMAIN Q[s] /\ Q2[s][i] = Q[s][i]
         \/ \E k \in DOMAIN N[s] : /\ i = Len(Q[s]) + k /\ Q2[s][i] = N[s][k] /\ k \in Nat \ {0}
                                   /\ \A j \in DOMAIN Q[s] : j < i
<1>1. /\ Len(Q[s]) \in Nat /\ DOMAIN Q[s] = 1 .. Len(Q[s])
      /\ \A k \in DOMAIN N[s] : k \in Nat \ {0}
  BY QueueIndex
<1> QED
  BY <1>1 DEF Added

\* The order of the streams survives new work that fits.
LEMMA OrderedAdded ==
  ASSUME NEW Q \in Queue, NEW Q2 \in Queue, NEW N \in Queue, Added(Q, Q2, N),
         NEW F \in SUBSET (Event \X Nat), NEW r \in Nat, NEW open, NEW open2,
         Ordered(Q, F, open), FitsOrder(Q, N, F, r, open, open2)
  PROVE  Ordered(Q2, F, open2)
<1> USE DEF FitsOrder
<1>0. /\ \A s \in Stream : \A i \in DOMAIN Q[s] : i \in DOMAIN Q2[s] /\ Q2[s][i] = Q[s][i]
      /\ \A s \in Stream : \A i \in DOMAIN N[s] :
           Len(Q[s]) + i \in DOMAIN Q2[s] /\ Q2[s][Len(Q[s]) + i] = N[s][i]
  BY DEF Added
<1>i. \A s \in Stream : /\ Len(Q[s]) \in Nat /\ DOMAIN Q[s] = 1 .. Len(Q[s])
                        /\ \A k \in DOMAIN N[s] : k \in Nat \ {0}
  BY QueueIndex
<1>n. "main" \in Stream /\ "alt" \in Stream
  BY DEF Stream
<1>1. FiresInPlace(Q2)
  BY <1>n, AddedIndex DEF Ordered, FiresInPlace
<1>2. Sorted(Q2)
  <2> SUFFICES ASSUME NEW s \in Stream, NEW i \in DOMAIN Q2[s], NEW j \in DOMAIN Q2[s], i <= j
               PROVE  Q2[s][i].run <= Q2[s][j].run
    BY DEF Sorted
  <2>1. CASE i \in DOMAIN Q[s] /\ j \in DOMAIN Q[s]
    BY <2>1, <1>0 DEF Ordered, Sorted
  <2>2. CASE j \notin DOMAIN Q[s]
    <3>1. Q2[s][j].run = r
      BY <2>2, AddedIndex
    <3>2. Q2[s][i].run <= r
      BY AddedIndex
    <3> QED
      BY <3>1, <3>2
  <2>3. CASE i \notin DOMAIN Q[s] /\ j \in DOMAIN Q[s]
    <3>1. j < i /\ i \in Nat /\ j \in Nat
      BY <2>3, AddedIndex, QueueIndex
    <3> QED
      BY <3>1
  <2> QED
    BY <2>1, <2>2, <2>3
<1>3. Forked(Q2, F)
  <2> SUFFICES ASSUME NEW i \in DOMAIN Q2["alt"], <<"fork", Q2["alt"][i].run>> \notin F
               PROVE  \E k \in 1 .. i : /\ Q2["alt"][k].run = Q2["alt"][i].run
                                        /\ "fork" \in Q2["alt"][k].work.waits
    BY DEF Forked
  <2>1. CASE i \in DOMAIN Q["alt"]
    <3>1. Q2["alt"][i] = Q["alt"][i]
      BY <2>1, <1>0, <1>n
    <3>2. PICK k \in 1 .. i : Q["alt"][k].run = Q["alt"][i].run /\ "fork" \in Q["alt"][k].work.waits
      BY <2>1, <3>1 DEF Ordered, Forked
    <3>3. k \in DOMAIN Q["alt"]
      BY <2>1, <1>i, <1>n
    <3> QED
      BY <3>1, <3>2, <3>3, <1>0, <1>n
  <2>2. ASSUME NEW m \in DOMAIN N["alt"], i = Len(Q["alt"]) + m, Q2["alt"][i] = N["alt"][m],
               \A j \in DOMAIN Q["alt"] : j < i
        PROVE  \E k \in 1 .. i : /\ Q2["alt"][k].run = Q2["alt"][i].run
                                 /\ "fork" \in Q2["alt"][k].work.waits
    <3>1. Q2["alt"][i].run = r
      BY <2>2, <1>n
    <3>2. ASSUME NEW k \in DOMAIN Q["alt"], Q["alt"][k].run = r, "fork" \in Q["alt"][k].work.waits
          PROVE  \E x \in 1 .. i : /\ Q2["alt"][x].run = Q2["alt"][i].run
                                   /\ "fork" \in Q2["alt"][x].work.waits
      <4>1. k \in 1 .. i
        BY <2>2, <1>i, <1>n
      <4> QED
        BY <4>1, <3>1, <3>2, <1>0, <1>n
    <3>3. ASSUME NEW k \in 1 .. m, "fork" \in N["alt"][k].work.waits
          PROVE  \E x \in 1 .. i : /\ Q2["alt"][x].run = Q2["alt"][i].run
                                   /\ "fork" \in Q2["alt"][x].work.waits
      <4>1. k \in DOMAIN N["alt"]
        <5>1. DOMAIN N["alt"] = 1 .. Len(N["alt"]) /\ Len(N["alt"]) \in Nat
          BY QueueIndex, <1>n
        <5> QED
          BY <5>1
      <4>2. Len(Q["alt"]) + k \in 1 .. i
        BY <2>2, <1>i, <1>n
      <4>3. Q2["alt"][Len(Q["alt"]) + k] = N["alt"][k] /\ N["alt"][k].run = r
        BY <4>1, <1>0, <1>n
      <4> QED
        BY <4>2, <4>3, <3>1, <3>3
    <3> QED
      BY <2>2, <3>1, <3>2, <3>3
  <2> QED
    BY <2>1, <2>2, <1>n, AddedIndex
<1>4. ForkedOnce(Q2, F)
  <2>1. ASSUME NEW i \in DOMAIN Q2["main"], NEW e \in F, e[1] = "fork"
        PROVE  Q2["main"][i].run >= e[2] /\ ~(Q2["main"][i].run = e[2] /\ FiresFork(Q2, i))
    <3>1. CASE i \in DOMAIN Q["main"]
      BY <3>1, <2>1, <1>0, <1>n DEF Ordered, ForkedOnce, FiresFork
    <3>2. ASSUME NEW m \in DOMAIN N["main"], Q2["main"][i] = N["main"][m]
          PROVE  Q2["main"][i].run >= e[2] /\ ~(Q2["main"][i].run = e[2] /\ FiresFork(Q2, i))
      <4>1. Q2["main"][i].run = r /\ e[2] <= r
        BY <3>2, <1>n
      <4>2. CASE FiresFork(N, m)
        <5>1. <<"fork", r>> \notin F
          BY <4>2
        <5>2. e # <<"fork", r>> /\ e = <<e[1], e[2]>> /\ e[2] \in Nat
          BY <5>1
        <5>3. e[2] # r
          BY <5>2, <2>1
        <5> QED
          BY <4>1, <5>2, <5>3
      <4>3. CASE ~FiresFork(N, m)
        BY <3>2, <4>1, <4>3 DEF FiresFork
      <4> QED
        BY <4>2, <4>3
    <3> QED
      BY <3>1, <3>2, <1>n, AddedIndex
  <2>2. ASSUME NEW i \in DOMAIN Q2["main"], NEW j \in DOMAIN Q2["main"],
               FiresFork(Q2, i), FiresFork(Q2, j), Q2["main"][i].run = Q2["main"][j].run
        PROVE  i = j
    <3>1. CASE i \in DOMAIN Q["main"] /\ j \in DOMAIN Q["main"]
      BY <3>1, <2>2, <1>0, <1>n DEF Ordered, ForkedOnce, FiresFork
    <3>2. CASE i \in DOMAIN Q["main"] /\ j \notin DOMAIN Q["main"]
      BY <3>2, <2>2, <1>0, <1>n, AddedIndex DEF FiresFork
    <3>3. CASE i \notin DOMAIN Q["main"] /\ j \in DOMAIN Q["main"]
      BY <3>3, <2>2, <1>0, <1>n, AddedIndex DEF FiresFork
    <3>4. CASE i \notin DOMAIN Q["main"] /\ j \notin DOMAIN Q["main"]
      BY <3>4, <2>2, <1>0, <1>n, AddedIndex DEF FiresFork
    <3> QED
      BY <3>1, <3>2, <3>3, <3>4
  <2> QED
    BY <2>1, <2>2 DEF ForkedOnce
<1>5. JoinedOnce(Q2, F)
  <2>1. ASSUME NEW i \in DOMAIN Q2["alt"]
        PROVE  <<"join", Q2["alt"][i].run>> \notin F
    <3>1. CASE i \in DOMAIN Q["alt"]
      BY <3>1, <1>0, <1>n DEF Ordered, JoinedOnce
    <3>2. ASSUME NEW m \in DOMAIN N["alt"], Q2["alt"][i] = N["alt"][m]
          PROVE  <<"join", Q2["alt"][i].run>> \notin F
      BY <3>2, <1>n
    <3> QED
      BY <3>1, <3>2, <1>n, AddedIndex
  <2>2. ASSUME NEW i \in DOMAIN Q2["alt"], NEW j \in DOMAIN Q2["alt"], i < j, FiresJoin(Q2, i)
        PROVE  Q2["alt"][i].run < Q2["alt"][j].run
    <3>1. CASE i \in DOMAIN Q["alt"] /\ j \in DOMAIN Q["alt"]
      BY <3>1, <2>2, <1>0, <1>n DEF Ordered, JoinedOnce, FiresJoin
    <3>2. CASE i \in DOMAIN Q["alt"] /\ j \notin DOMAIN Q["alt"]
      <4>1. PICK m \in DOMAIN N["alt"] : Q2["alt"][j] = N["alt"][m]
        BY <3>2, <1>n, AddedIndex
      <4>2. Q2["alt"][j].run = r
        BY <4>1, <1>n
      <4>3. Q2["alt"][i] = Q["alt"][i] /\ Q["alt"][i].run <= r /\ Q["alt"][i].run \in Nat
        BY <3>2, <1>0, <1>n, QueueIndex
      <4>4. Q["alt"][i].run # r
        BY <4>1, <4>3, <3>2, <2>2, <1>n DEF FiresJoin
      <4> QED
        BY <4>2, <4>3, <4>4
    <3>3. CASE i \notin DOMAIN Q["alt"]
      <4>1. PICK m \in DOMAIN N["alt"] : i = Len(Q["alt"]) + m /\ Q2["alt"][i] = N["alt"][m]
        BY <3>3, <1>n, AddedIndex
      <4>2. j \notin DOMAIN Q["alt"]
        BY <4>1, <2>2, <1>i, <1>n
      <4>3. PICK k \in DOMAIN N["alt"] : j = Len(Q["alt"]) + k
        BY <4>2, <1>n, AddedIndex
      <4>4. k <= m
        BY <4>1, <4>3, <2>2 DEF FiresJoin
      <4> QED
        BY <4>1, <4>3, <4>4, <2>2, <1>i, <1>n
    <3> QED
      BY <3>1, <3>2, <3>3
  <2> QED
    BY <2>1, <2>2 DEF JoinedOnce
<1>6. Joined(Q2, open2)
  <2> SUFFICES ASSUME NEW i \in DOMAIN Q2["alt"], Q2["alt"][i].run \notin open2
               PROVE  \E k \in DOMAIN Q2["main"] :
                        Q2["main"][k].run = Q2["alt"][i].run /\ WaitsJoin(Q2, k)
    BY DEF Joined
  <2>1. ASSUME NEW k \in DOMAIN N["main"], WaitsJoin(N, k), Q2["alt"][i].run = r
        PROVE  \E x \in DOMAIN Q2["main"] :
                 Q2["main"][x].run = Q2["alt"][i].run /\ WaitsJoin(Q2, x)
    <3>1. /\ Len(Q["main"]) + k \in DOMAIN Q2["main"]
          /\ Q2["main"][Len(Q["main"]) + k] = N["main"][k]
          /\ N["main"][k].run = r
      BY <1>0, <1>n
    <3> QED
      BY <3>1, <2>1 DEF WaitsJoin
  <2>2. CASE i \in DOMAIN Q["alt"] /\ Q["alt"][i].run \in open
    <3>1. Q2["alt"][i] = Q["alt"][i]
      BY <2>2, <1>0, <1>n
    <3> QED
      BY <3>1, <2>1, <2>2
  <2>3. CASE i \in DOMAIN Q["alt"] /\ Q["alt"][i].run \notin open
    BY <2>3, <1>0, <1>n DEF Ordered, Joined, WaitsJoin
  <2>4. CASE i \notin DOMAIN Q["alt"]
    <3>1. PICK m \in DOMAIN N["alt"] : Q2["alt"][i] = N["alt"][m]
      BY <2>4, <1>n, AddedIndex
    <3>2. Q2["alt"][i].run = r
      BY <3>1, <1>n
    <3> QED
      BY <3>1, <3>2, <2>1
  <2> QED
    BY <2>2, <2>3, <2>4
<1> QED
  BY <1>1, <1>2, <1>3, <1>4, <1>5, <1>6 DEF Ordered

\* So does what is known about the data.
LEMMA DataAdded ==
  ASSUME NEW Q \in Queue, NEW Q2 \in Queue, NEW N \in Queue, Added(Q, Q2, N),
         NEW F \in SUBSET (Event \X Nat), NEW M, NEW r \in Nat, NEW open, NEW open2,
         Programme(Q, M, F, open), FitsOrder(Q, N, F, r, open, open2), FitsData(Q, N, M, r)
  PROVE  WritesInPlace(Q2) /\ OneWriter(Q2) /\ ReadsServed(Q2, M) /\ Settled(Q2, M)
<1>0. /\ \A s \in Stream : \A i \in DOMAIN Q[s] : i \in DOMAIN Q2[s] /\ Q2[s][i] = Q[s][i]
      /\ \A s \in Stream : \A i \in DOMAIN N[s] :
           Len(Q[s]) + i \in DOMAIN Q2[s] /\ Q2[s][Len(Q[s]) + i] = N[s][i]
  BY DEF Added
<1>i. \A s \in Stream : /\ Len(Q[s]) \in Nat /\ DOMAIN Q[s] = 1 .. Len(Q[s])
                        /\ \A k \in DOMAIN N[s] : k \in Nat \ {0}
  BY QueueIndex
<1>n. "main" \in Stream /\ "alt" \in Stream
  BY DEF Stream
<1>r. /\ \A s \in Stream : \A i \in DOMAIN Q[s] : Q[s][i].run <= r
      /\ \A s \in Stream : \A i \in DOMAIN N[s] : N[s][i].run = r
  BY DEF FitsOrder
<1>1. WritesInPlace(Q2)
  <2> SUFFICES ASSUME NEW s \in Stream, NEW i \in DOMAIN Q2[s], NEW o \in Q2[s][i].work.writes
               PROVE  o = <<Own.ids, "ids">> \/ (o[1] >= Own.ar /\ o[2] \in Passing)
    BY DEF WritesInPlace
  <2>1. CASE i \in DOMAIN Q[s]
    BY <2>1, <1>0 DEF Programme, WritesInPlace
  <2>2. ASSUME NEW m \in DOMAIN N[s], Q2[s][i] = N[s][m]
        PROVE  o = <<Own.ids, "ids">> \/ (o[1] >= Own.ar /\ o[2] \in Passing)
    BY <2>2 DEF FitsData, WritesInPlace
  <2> QED
    BY <2>1, <2>2, AddedIndex
<1>2. OneWriter(Q2)
  <2> SUFFICES ASSUME NEW s \in Stream, NEW q \in Stream, NEW i \in DOMAIN Q2[s],
                      NEW j \in DOMAIN Q2[q], NEW o \in Q2[s][i].work.writes,
                      NEW p \in Q2[q][j].work.writes, o[1] = p[1], Q2[s][i].run = Q2[q][j].run
               PROVE  s = q /\ i = j /\ o = p
    BY DEF OneWriter
  <2>1. CASE i \in DOMAIN Q[s] /\ j \in DOMAIN Q[q]
    BY <2>1, <1>0 DEF Programme, OneWriter
  <2>2. ASSUME NEW m \in DOMAIN N[s], Q2[s][i] = N[s][m], j \in DOMAIN Q[q] PROVE FALSE
    <3>1. Q2[q][j] = Q[q][j] /\ Q[q][j].run = r
      BY <2>2, <1>0, <1>r
    <3>2. ~WritesTo(Q, q, j, o[1])
      BY <2>2, <3>1 DEF FitsData
    <3> QED
      BY <3>1, <3>2 DEF WritesTo
  <2>3. ASSUME NEW m \in DOMAIN N[q], Q2[q][j] = N[q][m], i \in DOMAIN Q[s] PROVE FALSE
    <3>1. Q2[s][i] = Q[s][i] /\ Q[s][i].run = r
      BY <2>3, <1>0, <1>r
    <3>2. ~WritesTo(Q, s, i, p[1])
      BY <2>3, <3>1 DEF FitsData
    <3> QED
      BY <3>1, <3>2 DEF WritesTo
  <2>4. ASSUME NEW m \in DOMAIN N[s], i = Len(Q[s]) + m, Q2[s][i] = N[s][m],
               NEW k \in DOMAIN N[q], j = Len(Q[q]) + k, Q2[q][j] = N[q][k]
        PROVE  s = q /\ i = j /\ o = p
    <3>1. N[s][m].run = N[q][k].run
      BY <1>r
    <3>2. s = q /\ m = k /\ o = p
      BY <2>4, <3>1 DEF FitsData, OneWriter
    <3> QED
      BY <2>4, <3>2
  <2> QED
    BY <2>1, <2>2, <2>3, <2>4, AddedIndex
\* A tensor that new work does not touch stays where it is.
<1>3. ASSUME NEW b, NEW nm, NEW x \in Nat, Stored(Q, M, b, nm, x),
             x # r \/ \A q \in Stream : \A j \in DOMAIN N[q] : ~WritesTo(N, q, j, b)
      PROVE  Stored(Q2, M, b, nm, x)
  <2> SUFFICES ASSUME NEW s \in Stream, NEW i \in DOMAIN Q2[s], Q2[s][i].run = x
               PROVE  ~WritesTo(Q2, s, i, b)
    BY <1>3 DEF Stored
  <2>1. CASE i \in DOMAIN Q[s]
    BY <2>1, <1>0, <1>3 DEF Stored, WritesTo
  <2>2. ASSUME NEW m \in DOMAIN N[s], Q2[s][i] = N[s][m]
        PROVE  ~WritesTo(Q2, s, i, b)
    BY <2>2, <1>r, <1>3 DEF WritesTo
  <2> QED
    BY <2>1, <2>2, AddedIndex
<1>4. ReadsServed(Q2, M)
  <2> SUFFICES ASSUME NEW s \in Stream, NEW i \in DOMAIN Q2[s], NEW o \in Q2[s][i].work.reads,
                      o[2] \in Passing
               PROVE  o[1] >= Own.ar /\ Served(Q2, M, s, i, o)
    BY DEF ReadsServed
  <2>1. CASE i \in DOMAIN Q[s]
    <3>1. Q2[s][i] = Q[s][i] /\ Q[s][i].run \in Nat
      BY <2>1, <1>0, QueueIndex
    <3>2. o[1] >= Own.ar /\ Served(Q, M, s, i, o)
      BY <2>1, <3>1 DEF Programme, ReadsServed
    <3>3. CASE Stored(Q, M, o[1], o[2], Q[s][i].run)
      <4>1. ASSUME NEW q \in Stream, NEW j \in DOMAIN N[q], WritesTo(N, q, j, o[1]),
                   Q[s][i].run = r
            PROVE  FALSE
        <5>1. PICK p \in N[q][j].work.writes : p[1] = o[1]
          BY <4>1 DEF WritesTo
        <5>2. M[o[1]] = <<o[2], r>>
          BY <3>3, <4>1 DEF Stored
        <5>3. M[p[1]][2] # r
          BY <5>1, <3>2 DEF FitsData
        <5> QED
          BY <5>1, <5>2, <5>3
      <4>2. Stored(Q2, M, o[1], o[2], Q[s][i].run)
        BY <4>1, <3>1, <3>3, <1>3
      <4> QED
        BY <4>2, <3>1, <3>2 DEF Served
    <3>4. ASSUME NEW q \in Stream, NEW j \in DOMAIN Q[q], Q[q][j].run = Q[s][i].run,
                 o \in Q[q][j].work.writes, Before(Q, q, j, s, i)
          PROVE  Served(Q2, M, s, i, o)
      <4>1. Q2[q][j] = Q[q][j] /\ j \in DOMAIN Q2[q]
        BY <1>0
      <4>2. Before(Q2, q, j, s, i)
        BY <3>1, <3>4, <4>1, <1>0, <1>n DEF Before, FiresFork, WaitsJoin
      <4> QED
        BY <4>1, <4>2, <3>1, <3>4 DEF Served
    <3> QED
      BY <3>2, <3>3, <3>4 DEF Served
  <2>2. ASSUME NEW m \in DOMAIN N[s], i = Len(Q[s]) + m, Q2[s][i] = N[s][m],
               \A j \in DOMAIN Q[s] : j < i
        PROVE  o[1] >= Own.ar /\ Served(Q2, M, s, i, o)
    <3>0. Q2[s][i].run = r
      BY <2>2, <1>r
    <3>1. o[1] >= Own.ar /\ Found(Q, N, M, r, s, m, o)
      BY <2>2 DEF FitsData
    <3>2. CASE Stored(Q, M, o[1], o[2], r)
               /\ \A q \in Stream : \A j \in DOMAIN N[q] : ~WritesTo(N, q, j, o[1])
      BY <3>0, <3>1, <3>2, <1>3 DEF Served
    <3>3. ASSUME NEW q \in Stream, NEW j \in DOMAIN N[q], o \in N[q][j].work.writes,
                 Before(N, q, j, s, m)
          PROVE  Served(Q2, M, s, i, o)
      <4> DEFINE jj == Len(Q[q]) + j
      <4>1. jj \in DOMAIN Q2[q] /\ Q2[q][jj] = N[q][j] /\ Q2[q][jj].run = r
        BY <1>0, <1>r
      <4>2. CASE q = s /\ j < m
        <5>1. jj < i
          BY <4>2, <2>2, <1>i
        <5> QED
          BY <5>1, <4>1, <4>2, <3>0, <3>3 DEF Served, Before
      <4>3. ASSUME q = "main", s = "alt", NEW k \in DOMAIN N["main"], j < k, FiresFork(N, k)
            PROVE  Served(Q2, M, s, i, o)
        <5> DEFINE kk == Len(Q["main"]) + k
        <5>1. kk \in DOMAIN Q2["main"] /\ Q2["main"][kk] = N["main"][k] /\ N["main"][k].run = r
          BY <1>0, <1>r, <1>n
        <5>2. jj < kk
          BY <4>3, <1>i, <1>n
        <5>3. Before(Q2, q, jj, s, i)
          BY <5>1, <5>2, <4>1, <4>3 DEF Before, FiresFork
        <5> QED
          BY <5>3, <4>1, <3>0, <3>3 DEF Served
      <4>4. ASSUME q = "alt", s = "main", NEW k \in DOMAIN N["main"], k < m, WaitsJoin(N, k)
            PROVE  Served(Q2, M, s, i, o)
        <5> DEFINE kk == Len(Q["main"]) + k
        <5>1. kk \in DOMAIN Q2["main"] /\ Q2["main"][kk] = N["main"][k] /\ N["main"][k].run = r
          BY <1>0, <1>r, <1>n
        <5>2. kk < i
          BY <4>4, <2>2, <1>i, <1>n
        <5>3. Before(Q2, q, jj, s, i)
          BY <5>1, <5>2, <4>4, <3>0 DEF Before, WaitsJoin
        <5> QED
          BY <5>3, <4>1, <3>0, <3>3 DEF Served
      <4> QED
        BY <3>3, <4>2, <4>3, <4>4 DEF Before
    <3>4. ASSUME NEW q \in Stream, NEW j \in DOMAIN Q[q], Q[q][j].run = r,
                 o \in Q[q][j].work.writes,
                 \/ q = s
                 \/ /\ q = "main" /\ s = "alt"
                    /\ \E k \in DOMAIN Q["main"] :
                         j < k /\ Q["main"][k].run = r /\ FiresFork(Q, k)
                 \/ /\ q = "alt" /\ s = "main"
                    /\ \E k \in DOMAIN Q["main"] : Q["main"][k].run = r /\ WaitsJoin(Q, k)
          PROVE  Served(Q2, M, s, i, o)
      <4>1. j \in DOMAIN Q2[q] /\ Q2[q][j] = Q[q][j]
        BY <1>0
      <4>2. CASE q = s
        BY <4>1, <4>2, <3>0, <3>4, <2>2 DEF Served, Before
      <4>3. ASSUME q = "main", s = "alt", NEW k \in DOMAIN Q["main"], j < k,
                   Q["main"][k].run = r, FiresFork(Q, k)
            PROVE  Served(Q2, M, s, i, o)
        <5>1. k \in DOMAIN Q2["main"] /\ Q2["main"][k] = Q["main"][k]
          BY <1>0, <1>n
        <5>2. Before(Q2, q, j, s, i)
          BY <5>1, <4>1, <4>3, <3>4 DEF Before, FiresFork
        <5> QED
          BY <5>2, <4>1, <3>0, <3>4 DEF Served
      <4>4. ASSUME q = "alt", s = "main", NEW k \in DOMAIN Q["main"],
                   Q["main"][k].run = r, WaitsJoin(Q, k)
            PROVE  Served(Q2, M, s, i, o)
        <5>1. k \in DOMAIN Q2["main"] /\ Q2["main"][k] = Q["main"][k] /\ k < i
          BY <1>0, <1>n, <2>2, <4>4
        <5>2. Before(Q2, q, j, s, i)
          BY <5>1, <4>1, <4>4, <3>0 DEF Before, WaitsJoin
        <5> QED
          BY <5>2, <4>1, <3>0, <3>4 DEF Served
      <4> QED
        BY <3>4, <4>2, <4>3, <4>4
    <3> QED
      BY <3>1, <3>2, <3>3, <3>4 DEF Found
  <2> QED
    BY <2>1, <2>2, AddedIndex
<1>5. Settled(Q2, M)
  <2> SUFFICES ASSUME NEW b \in Block, NEW s \in Stream, NEW i \in DOMAIN Q2[s], b >= Own.ar
               PROVE  M[b][2] <= Q2[s][i].run
    BY DEF Settled
  <2>1. CASE i \in DOMAIN Q[s]
    BY <2>1, <1>0 DEF Programme, Settled
  <2>2. ASSUME NEW m \in DOMAIN N[s], Q2[s][i] = N[s][m]
        PROVE  M[b][2] <= Q2[s][i].run
    BY <2>2, <1>r DEF FitsData
  <2> QED
    BY <2>1, <2>2, AddedIndex
<1> QED
  BY <1>1, <1>2, <1>4, <1>5

\* Both together: what the device does ...
LEMMA ProgrammeRest ==
  ASSUME NEW Q \in Queue, NEW Q2 \in Queue, NEW M, NEW M2, NEW F, NEW F2, NEW open,
         NEW s0 \in Stream, Step(Q, Q2, M, M2, F, open, s0),
         F2 = F \cup {<<e, Q[s0][1].run>> : e \in Q[s0][1].work.fires}
  PROVE  Programme(Q2, M2, F2, open)
<1>1. Ordered(Q2, F2, open)
  BY OrderedRest DEF Step, Programme
<1> QED
  BY <1>1, DataRest DEF Programme

\* ... and what the host adds.
LEMMA ProgrammeAdded ==
  ASSUME NEW Q \in Queue, NEW Q2 \in Queue, NEW N \in Queue, Added(Q, Q2, N),
         NEW F \in SUBSET (Event \X Nat), NEW M, NEW r \in Nat, NEW open, NEW open2,
         Programme(Q, M, F, open), FitsOrder(Q, N, F, r, open, open2), FitsData(Q, N, M, r)
  PROVE  Programme(Q2, M, F, open2)
<1>1. Ordered(Q2, F, open2)
  BY OrderedAdded DEF Programme
<1> QED
  BY <1>1, DataAdded DEF Programme

-----------------------------------------------------------------------------
(* Work lists and the queues they become.                                  *)

WorkList == [Stream -> Seq(Pieces)]

\* l is the work c, each piece with the number of its run.
MadePartOf(c, r, l) == l = [i \in 1 .. Len(c) |-> [work |-> c[i], run |-> r]]
\* A list of work that is made part of a run keeps its length and its order.
LEMMA MarkedSeq ==
  ASSUME NEW c \in Seq(Pieces), NEW r \in Nat, NEW l, MadePartOf(c, r, l)
  PROVE  /\ l \in Seq(Entry) /\ DOMAIN l = DOMAIN c /\ Len(l) = Len(c)
         /\ \A i \in DOMAIN c : l[i].work = c[i] /\ l[i].run = r
<1>1. Len(c) \in Nat /\ DOMAIN c = 1 .. Len(c) /\ \A i \in 1 .. Len(c) : c[i] \in Pieces
  OBVIOUS
<1>2. \A i \in 1 .. Len(c) : [work |-> c[i], run |-> r] \in Entry
  BY <1>1 DEF Entry
<1>0. l = [i \in 1 .. Len(c) |-> [work |-> c[i], run |-> r]]
  BY DEF MadePartOf
<1>3. l \in [1 .. Len(c) -> Entry]
  BY <1>0, <1>2
<1>4. l \in Seq(Entry)
  BY <1>1, <1>3, SeqDef
<1>5. DOMAIN l = 1 .. Len(c)
  BY <1>0
<1>6. Len(l) = Len(c)
  BY <1>1, <1>4, <1>5, LenProperties
<1>7. \A i \in 1 .. Len(c) : l[i] = [work |-> c[i], run |-> r]
  BY <1>0
<1> QED
  BY <1>1, <1>4, <1>5, <1>6, <1>7

\* A graph's work, made part of a run, stream by stream and piece by piece.
LEMMA MarkedIndex ==
  ASSUME NEW g \in WorkList, NEW r \in Nat
  PROVE  /\ Marked(g, r) \in Queue
         /\ \A s \in Stream :
              /\ DOMAIN Marked(g, r)[s] = DOMAIN g[s] /\ Len(Marked(g, r)[s]) = Len(g[s])
              /\ \A i \in DOMAIN g[s] : /\ Marked(g, r)[s][i].work = g[s][i]
                                        /\ Marked(g, r)[s][i].run = r
<1>1. ASSUME NEW s \in Stream
      PROVE  /\ g[s] \in Seq(Pieces)
             /\ MadePartOf(g[s], r, Marked(g, r)[s])
  BY DEF WorkList, Marked, MadePartOf
<1>2. ASSUME NEW s \in Stream
      PROVE  /\ Marked(g, r)[s] \in Seq(Entry)
             /\ DOMAIN Marked(g, r)[s] = DOMAIN g[s] /\ Len(Marked(g, r)[s]) = Len(g[s])
             /\ \A i \in DOMAIN g[s] : /\ Marked(g, r)[s][i].work = g[s][i]
                                       /\ Marked(g, r)[s][i].run = r
  BY <1>1, MarkedSeq
<1>m. Marked(g, r) = [s \in Stream |-> Marked(g, r)[s]]
  BY DEF Marked
<1>3. Marked(g, r) \in Queue
  BY <1>2, <1>m DEF Queue
<1> QED
  BY <1>2, <1>3

\* A graph is complete in itself: its work fits behind anything, whatever the
\* number of the run it becomes.
LEMMA ReplayFits ==
  ASSUME NEW g \in WorkList, Programme(Marked(g, 1), Nothing, {}, {}),
         NEW Q \in Queue, NEW F \in SUBSET (Event \X Nat), NEW M, NEW n \in Nat,
         \A s \in Stream : \A i \in DOMAIN Q[s] : Q[s][i].run <= n,
         \A e \in F : e[2] <= n,
         \A b \in Block : b >= Own.ar => M[b][2] \in Nat /\ M[b][2] <= n
  PROVE  /\ FitsOrder(Q, Marked(g, n + 1), F, n + 1, {}, {})
         /\ FitsData(Q, Marked(g, n + 1), M, n + 1)
<1> DEFINE P == Marked(g, 1)
           N == Marked(g, n + 1)
           r == n + 1
<1>1. /\ P \in Queue /\ N \in Queue
      /\ \A s \in Stream : /\ DOMAIN N[s] = DOMAIN P[s] /\ Len(N[s]) = Len(P[s])
                           /\ \A i \in DOMAIN P[s] : /\ N[s][i].work = P[s][i].work
                                                     /\ P[s][i].run = 1 /\ N[s][i].run = n + 1
  BY MarkedIndex
<1>2. /\ \A s \in Stream : \A i \in DOMAIN Q[s] : Q[s][i].run \in Nat /\ Q[s][i].run < r
      /\ \A s \in Stream : \A i \in DOMAIN N[s] : i \in Nat \ {0}
  BY <1>1, QueueIndex
<1>3. \A e \in F : e[2] \in Nat /\ e[2] < r
  OBVIOUS
<1>n. "main" \in Stream /\ "alt" \in Stream
  BY DEF Stream
<1>p. Programme(P, Nothing, {}, {})
  OBVIOUS
<1> HIDE DEF P, N
<1>4. FitsOrder(Q, N, F, r, {}, {})
  <2>1. FiresInPlace(N)
    BY <1>1, <1>n, <1>p DEF Programme, Ordered, FiresInPlace
  <2>2. \A i \in DOMAIN N["alt"] : \E k \in 1 .. i : "fork" \in N["alt"][k].work.waits
    <3> SUFFICES ASSUME NEW i \in DOMAIN N["alt"]
                 PROVE  \E k \in 1 .. i : "fork" \in N["alt"][k].work.waits
      OBVIOUS
    <3>1. PICK k \in 1 .. i : "fork" \in P["alt"][k].work.waits
      BY <1>1, <1>n, <1>p DEF Programme, Ordered, Forked
    <3>2. k \in DOMAIN P["alt"]
      BY <1>1, <1>n, QueueIndex
    <3> QED
      BY <3>1, <3>2, <1>1, <1>n
  <2>3. <<"fork", r>> \notin F /\ <<"join", r>> \notin F
    BY <1>3
  <2>4. \A i, k \in DOMAIN N["main"] : FiresFork(N, i) /\ FiresFork(N, k) => k = i
    BY <1>1, <1>n, <1>p DEF Programme, Ordered, ForkedOnce, FiresFork
  <2>5. \A i, k \in DOMAIN N["alt"] : FiresJoin(N, i) => k <= i
    <3> SUFFICES ASSUME NEW i \in DOMAIN N["alt"], NEW k \in DOMAIN N["alt"], FiresJoin(N, i), i < k
                 PROVE  FALSE
      BY <1>2, <1>n
    <3>1. P["alt"][i].run < P["alt"][k].run
      BY <1>1, <1>n, <1>p DEF Programme, Ordered, JoinedOnce, FiresJoin
    <3> QED
      BY <3>1, <1>1, <1>n
  <2>6. \A i \in DOMAIN N["alt"] : \E k \in DOMAIN N["main"] : WaitsJoin(N, k)
    BY <1>1, <1>n, <1>p DEF Programme, Ordered, Joined, WaitsJoin
  <2>7. /\ \A k \in DOMAIN Q["main"] : Q["main"][k].run # r
        /\ \A k \in DOMAIN Q["alt"] : Q["alt"][k].run # r
    BY <1>2, <1>n
  <2>8. \A s \in Stream : \A i \in DOMAIN N[s] : N[s][i].run = r
    BY <1>1
  <2> HIDE DEF r
  <2>9. /\ \A s \in Stream : \A i \in DOMAIN Q[s] : Q[s][i].run <= r
        /\ \A e \in F : e[2] <= r
    BY <1>2, <1>3 DEF r
  <2> QED
    BY <2>1, <2>2, <2>3, <2>4, <2>5, <2>6, <2>7, <2>8, <2>9 DEF FitsOrder
<1>5. FitsData(Q, N, M, r)
  <2>1. WritesInPlace(N)
    BY <1>1, <1>p DEF Programme, WritesInPlace
  <2>2. OneWriter(N)
    <3> SUFFICES ASSUME NEW s \in Stream, NEW q \in Stream, NEW i \in DOMAIN N[s],
                        NEW j \in DOMAIN N[q], NEW o \in N[s][i].work.writes,
                        NEW p \in N[q][j].work.writes, o[1] = p[1]
                 PROVE  s = q /\ i = j /\ o = p
      BY DEF OneWriter
    <3>1. /\ i \in DOMAIN P[s] /\ j \in DOMAIN P[q] /\ o \in P[s][i].work.writes
          /\ p \in P[q][j].work.writes /\ P[s][i].run = P[q][j].run
      BY <1>1
    <3> QED
      BY <3>1, <1>p DEF Programme, OneWriter
  <2>3. ASSUME NEW s \in Stream, NEW i \in DOMAIN N[s], NEW o \in N[s][i].work.writes
        PROVE  /\ o[1] >= Own.ar => M[o[1]][2] # r
               /\ \A q \in Stream : \A j \in DOMAIN Q[q] : Q[q][j].run = r => ~WritesTo(Q, q, j, o[1])
    <3>1. o[1] \in Block
      BY <1>1, QueueIndex DEF Pieces
    <3> QED
      BY <3>1, <1>2
  <2>4. ASSUME NEW s \in Stream, NEW i \in DOMAIN N[s], NEW o \in N[s][i].work.reads,
               o[2] \in Passing
        PROVE  o[1] >= Own.ar /\ Found(Q, N, M, r, s, i, o)
    <3>1. i \in DOMAIN P[s] /\ o \in P[s][i].work.reads /\ P[s][i].run = 1
      BY <1>1
    <3>2. o[1] >= Own.ar /\ Served(P, Nothing, s, i, o)
      BY <3>1, <2>4, <1>p DEF Programme, ReadsServed
    <3>3. o[1] \in Block
      BY <3>1, <1>1, QueueIndex DEF Pieces
    <3>4. ~Stored(P, Nothing, o[1], o[2], 1)
      BY <3>3 DEF Stored, Nothing, Junk
    <3>5. PICK q \in Stream : \E j \in DOMAIN P[q] : o \in P[q][j].work.writes /\ Before(P, q, j, s, i)
      BY <3>1, <3>2, <3>4 DEF Served
    <3>6. PICK j \in DOMAIN P[q] : o \in P[q][j].work.writes /\ Before(P, q, j, s, i)
      BY <3>5
    <3>7. j \in DOMAIN N[q] /\ o \in N[q][j].work.writes
      BY <3>6, <1>1
    <3>8. Before(N, q, j, s, i)
      BY <3>1, <3>6, <3>7, <1>1, <1>n DEF Before, FiresFork, WaitsJoin
    <3> QED
      BY <3>2, <3>7, <3>8 DEF Found
  <2>5. \A b \in Block : b >= Own.ar => M[b][2] <= r
    OBVIOUS
  <2> QED
    BY <2>1, <2>2, <2>3, <2>4, <2>5 DEF FitsData
<1> QED
  BY <1>4, <1>5 DEF N

\* Marking work that was put together from two lists.
LEMMA MarkedAdds ==
  ASSUME NEW g \in WorkList, NEW w \in WorkList, NEW r \in Nat
  PROVE  /\ [s \in Stream |-> g[s] \o w[s]] \in WorkList
         /\ Added(Marked(g, r), Marked([s \in Stream |-> g[s] \o w[s]], r), Marked(w, r))
<1> DEFINE h == [s \in Stream |-> g[s] \o w[s]]
           Q == Marked(g, r)
           Q2 == Marked(h, r)
           N == Marked(w, r)
<1>1. \A s \in Stream : g[s] \in Seq(Pieces) /\ w[s] \in Seq(Pieces) /\ h[s] = g[s] \o w[s]
  BY DEF WorkList
<1>2. \A s \in Stream : h[s] \in Seq(Pieces)
  BY <1>1, ConcatIndex
<1>3. h \in WorkList
  BY <1>1, <1>2 DEF WorkList
<1>4. ASSUME NEW s \in Stream PROVE Behind(g[s], w[s], h[s])
  BY <1>1, ConcatIndex
<1> HIDE DEF h
<1>5. \A s \in Stream : /\ DOMAIN Q[s] = DOMAIN g[s] /\ Len(Q[s]) = Len(g[s])
                        /\ \A i \in DOMAIN g[s] : Q[s][i].work = g[s][i] /\ Q[s][i].run = r
  BY MarkedIndex
<1>6. \A s \in Stream : /\ DOMAIN Q2[s] = DOMAIN h[s]
                        /\ \A i \in DOMAIN h[s] : Q2[s][i].work = h[s][i] /\ Q2[s][i].run = r
  BY <1>3, MarkedIndex
<1>7. \A s \in Stream : /\ DOMAIN N[s] = DOMAIN w[s]
                        /\ \A i \in DOMAIN w[s] : N[s][i].work = w[s][i] /\ N[s][i].run = r
  BY MarkedIndex
<1>8. Q \in Queue /\ Q2 \in Queue /\ N \in Queue
  BY <1>3, MarkedIndex
<1> HIDE DEF Q, Q2, N
<1>9. \A e, f \in Entry : e.work = f.work /\ e.run = f.run => e = f
  BY DEF Entry
<1>10. ASSUME NEW s \in Stream, NEW i \in DOMAIN Q[s]
       PROVE  i \in DOMAIN Q2[s] /\ Q2[s][i] = Q[s][i]
  <2>1. i \in DOMAIN h[s] /\ h[s][i] = g[s][i]
    BY <1>4, <1>5 DEF Behind
  <2>2. Q2[s][i] \in Entry /\ Q[s][i] \in Entry
    BY <2>1, <1>6, <1>8, QueueIndex
  <2> QED
    BY <2>1, <2>2, <1>5, <1>6, <1>9
<1>11. ASSUME NEW s \in Stream, NEW i \in DOMAIN N[s]
       PROVE  Len(Q[s]) + i \in DOMAIN Q2[s] /\ Q2[s][Len(Q[s]) + i] = N[s][i]
  <2>1. Len(Q[s]) + i \in DOMAIN h[s] /\ h[s][Len(Q[s]) + i] = w[s][i]
    BY <1>4, <1>5, <1>7 DEF Behind
  <2>2. Q2[s][Len(Q[s]) + i] \in Entry /\ N[s][i] \in Entry
    BY <2>1, <1>6, <1>8, QueueIndex
  <2> QED
    BY <2>1, <2>2, <1>6, <1>7, <1>9
<1>12. ASSUME NEW s \in Stream, NEW i \in DOMAIN Q2[s]
       PROVE  i \in DOMAIN Q[s] \/ \E k \in DOMAIN N[s] : i = Len(Q[s]) + k
  BY <1>4, <1>5, <1>6, <1>7 DEF Behind
<1>13. Added(Q, Q2, N)
  BY <1>10, <1>11, <1>12 DEF Added
<1> QED
  BY <1>3, <1>13 DEF h, Q, Q2, N

-----------------------------------------------------------------------------
(* What a step of the host leaves behind.                                  *)

\* Queued, as it is after a step of a call.
Later == IF mode = "capture" THEN Marked(graph'[Len(graph)], 1) ELSE lane'

\* What the types of the device say of the queues the proofs are about.
LEMMA DeviceTypes ==
  ASSUME DeviceTypeOK
  PROVE  /\ lane \in Queue /\ graph \in Seq(WorkList)
         /\ fired \in SUBSET (Event \X Nat) /\ run \in Nat /\ epoch \in Nat /\ top \in 5 .. 5 + Blocks
         /\ free \in [Pool \X Stream -> SUBSET Fresh]
         /\ mem \in [Block -> (Names \cup {"junk"}) \X Nat]
BY DEF DeviceTypeOK, Queue, Entry, WorkList

\* The last graph gets more work.
Grows(G, w, G2) == G2 = [G EXCEPT ![Len(G)] = [s \in Stream |-> @[s] \o w[s]]]
\* Work left to the graph under capture lies behind what the graph had.
LEMMA GraphGrows ==
  ASSUME NEW G \in Seq(WorkList), Len(G) > 0, NEW w \in WorkList, NEW G2, Grows(G, w, G2)
  PROVE  /\ G2 \in Seq(WorkList) /\ Len(G2) = Len(G)
         /\ \A g \in 1 .. Len(G) - 1 : G2[g] = G[g]
         /\ G2[Len(G)] \in WorkList
         /\ \A s \in Stream : G2[Len(G)][s] = G[Len(G)][s] \o w[s]
         /\ \A r \in Nat : Added(Marked(G[Len(G)], r), Marked(G2[Len(G)], r), Marked(w, r))
<1> DEFINE l == Len(G)
           h == [s \in Stream |-> G[l][s] \o w[s]]
<1>1. l \in Nat \ {0} /\ DOMAIN G = 1 .. l /\ \A g \in 1 .. l : G[g] \in WorkList
  OBVIOUS
<1>2. G[l] \in WorkList
  BY <1>1
<1>3. h \in WorkList
  BY <1>2, MarkedAdds
<1>3a. \A r \in Nat : Added(Marked(G[l], r), Marked(h, r), Marked(w, r))
  BY <1>2, MarkedAdds
<1>4. G2 = [G EXCEPT ![l] = h]
  BY DEF Grows
<1>4a. \A s \in Stream : h[s] = G[l][s] \o w[s]
  OBVIOUS
<1> HIDE DEF h
<1>5. G2 \in Seq(WorkList) /\ Len(G2) = l /\ G2[l] = h /\ \A g \in 1 .. l - 1 : G2[g] = G[g]
  BY <1>1, <1>3, <1>4, ExceptSeq
<1> QED
  BY <1>3, <1>3a, <1>4a, <1>5

\* Whatever a step of the host enqueues lies behind what its call, or its
\* graph, had before; other graphs stay as they are.
LEMMA IssuesAdds ==
  ASSUME TypeOK, CallInv, pc # "idle", NEW w \in WorkList, Issues(w)
  PROVE  /\ lane' \in Queue /\ graph' \in Seq(WorkList)
         /\ Later \in Queue /\ Queued \in Queue
         /\ Added(Queued, Later, Marked(w, ThisRun))
         /\ mode = "capture" =>
              /\ lane' = lane /\ Len(graph') = Len(graph) /\ Len(graph) > 0
              /\ \A g \in 1 .. Len(graph) - 1 : graph'[g] = graph[g]
              /\ \A s \in Stream : graph'[Len(graph)][s] = graph[Len(graph)][s] \o w[s]
         /\ mode # "capture" => graph' = graph
<1>1. lane \in Queue /\ graph \in Seq(WorkList) /\ run \in Nat
  BY DeviceTypes DEF TypeOK
<1>2. CASE mode = "capture"
  <2>1. Capturing /\ Len(graph) > 0
    BY <1>2 DEF Capturing, CallInv
  <2>2. Grows(graph, w, graph') /\ lane' = lane
    BY <1>2 DEF Issues, Grows
  <2>3. /\ graph' \in Seq(WorkList) /\ Len(graph') = Len(graph)
        /\ \A g \in 1 .. Len(graph) - 1 : graph'[g] = graph[g]
        /\ graph'[Len(graph)] \in WorkList
        /\ \A s \in Stream : graph'[Len(graph)][s] = graph[Len(graph)][s] \o w[s]
        /\ \A r \in Nat : Added(Marked(graph[Len(graph)], r), Marked(graph'[Len(graph)], r), Marked(w, r))
    BY <1>1, <2>1, <2>2, GraphGrows
  <2>4. /\ Queued = Marked(graph[Len(graph)], 1) /\ ThisRun = 1
        /\ Later = Marked(graph'[Len(graph)], 1)
    BY <2>1, <1>2 DEF Queued, Captured, ThisRun, Later
  <2>5. Queued \in Queue
    <3>1. graph[Len(graph)] \in WorkList
      BY <1>1, <2>1
    <3> QED
      BY <3>1, <2>4, MarkedIndex
  <2>6. Later \in Queue
    BY <2>3, <2>4, MarkedIndex
  <2> QED
    BY <1>1, <1>2, <2>1, <2>2, <2>3, <2>4, <2>5, <2>6
<1>3. CASE mode # "capture"
  <2>1. ~Capturing
    BY <1>3 DEF Capturing
  <2>2. graph' = graph /\ lane' = [s \in Stream |-> lane[s] \o Marked(w, run)[s]]
    BY <1>3 DEF Issues
  <2>3. Queued = lane /\ ThisRun = run /\ Later = lane'
    BY <2>1, <1>3 DEF Queued, ThisRun, Later
  <2>4. Marked(w, run) \in Queue
    BY <1>1, MarkedIndex
  <2>5. lane' \in Queue /\ Added(lane, lane', Marked(w, run))
    BY <2>2, <2>4, <1>1, ConcatAdds
  <2> QED
    BY <1>1, <1>3, <2>2, <2>3, <2>5
<1> QED
  BY <1>2, <1>3

-----------------------------------------------------------------------------
(* The work of each step of a call.                                        *)

GateWork(b) ==
  [s \in Stream |->
     (IF s = "main" THEN <<Work(Reads({"x"}), {<<b, "gate">>})>> ELSE <<>>) \o Fork(s)]
CloneWork(b) == [Empty EXCEPT !["alt"] = <<Work(Reads({"x"}), {<<b, "sink">>})>>]

SharedOn == IF TwoStreams THEN "alt" ELSE "main"
SharedReads ==
  Reads((IF "sink" \in DOMAIN held THEN {"sink"} ELSE {"x"}) \cup (IF cfg.sink THEN {"gate"} ELSE {}))
  \cup SinkReads \cup (IF SharedKind = "fused" THEN {<<Own.ids, "ids">>} ELSE {})
Builds == IF SharedKind = "fused" /\ ~idsBuilt THEN <<Work({}, {<<Own.ids, "ids">>})>> ELSE <<>>
Stacks == IF SharedKind = "linear" /\ ~linear
            THEN <<Work({<<Own.w2, "w2">>}, {<<Own.w2lin, "w2lin">>})>> ELSE <<>>
SharedWork(b) ==
  [Empty EXCEPT ![SharedOn] = Builds \o Stacks \o <<Work(SharedReads, {<<b, "shared">>})>>]

RoutedWork(b) ==
  [s \in Stream |->
     (IF s = "main" THEN <<Work(Reads({"x", "gate"}), {<<b, "routed">>})>> ELSE <<>>) \o Join(s)]

Whole  == IF Has THEN {"routed", "shared"} ELSE {"routed"}
Buffer == Has /\ cfg.arBuffer /\ ~(cfg.fusedAR /\ (~cfg.reduce \/ ~cfg.scattered))
Add    == Work(Reads(Whole), {<<Own.ar, "buf">>})
Sum(b) == IF Buffer THEN <<Add, Work({<<Own.ar, "buf">>}, {<<b, "sum">>})>>
          ELSE <<Work(Reads(Whole), {<<b, "sum">>})>>

\* What the ends of forward have in common.
Folds == Has /\ ~cfg.reduce /\ cfg.fusedAR
Both  == IF Has THEN Together ELSE parts.routed
Ending ==
  /\ pc = "combine"
  /\ pc' = "return"
  /\ stash' = IF Folds THEN <<parts.shared>> ELSE <<>>
  /\ parts' = [out |-> IF cfg.reduce THEN Reduced(Both)
                       ELSE IF Folds THEN parts.routed ELSE Both]
  /\ \/ /\ ~cfg.reduce /\ (Folds \/ ~Has)
        /\ Issues(OnMain(<<>>)) /\ UNCHANGED <<free, top, held>>
     \/ /\ ~cfg.reduce /\ Has /\ ~Folds /\ Buffer
        /\ Issues(OnMain(<<Add>>))
        /\ held' = With(held, "buf", <<Own.ar, "none">>) /\ UNCHANGED <<free, top>>
     \/ /\ cfg.reduce \/ (Has /\ ~Folds /\ ~Buffer)
        /\ \E b \in Fresh : Takes("sum", "main", b) /\ Issues(OnMain(Sum(b)))
  /\ Undisturbed
  /\ UNCHANGED <<run, mode, linear, idsBuilt, warm, routing, gate, given, captured>>

\* Every end of forward is one of three: nothing to add, the sum put into the
\* buffer, or a sum of this call's own.
LEMMA Ends ==
  ASSUME Combine
  PROVE  Ending
<1>1. ASSUME Has PROVE Both = Together /\ Reads(Whole) = InTwo /\ Add = IntoBuffer
  BY <1>1 DEF Both, Whole, Add, IntoBuffer, InTwo
<1>2. ASSUME ~Has
      PROVE  Both = parts.routed /\ Reads(Whole) = Reads({"routed"}) /\ ~Buffer /\ ~Folds
  BY <1>2 DEF Both, Whole, Buffer, Folds
<1>3. \A b \in Fresh : ~Buffer => Sum(b) = <<Work(Reads(Whole), {<<b, "sum">>})>>
  BY DEF Sum
<1>4. CASE GiveRouted
  BY <1>2, <1>4 DEF GiveRouted, Leaves, AsIs, Ending
<1>5. CASE GiveStashed
  BY <1>5 DEF GiveStashed, Leaves, AsIs, Ending, Folds
<1>6. CASE GiveBuffer
  <2>1. Has /\ ~Folds /\ Buffer
    BY <1>6 DEF GiveBuffer, Folds, Buffer
  <2> QED
    BY <1>1, <1>6, <2>1 DEF GiveBuffer, Leaves, Ending
<1>7. CASE GiveSum
  <2>1. Has /\ ~Folds /\ ~Buffer
    BY <1>7 DEF GiveSum, Folds, Buffer
  <2> QED
    BY <1>1, <1>3, <1>7, <2>1 DEF GiveSum, Leaves, IntoSum, Ending
<1>8. CASE ReduceRouted
  <2>1. cfg.reduce /\ ~Folds
    BY <1>8 DEF ReduceRouted, Folds
  <2> QED
    BY <1>2, <1>3, <1>8, <2>1 DEF ReduceRouted, Leaves, IntoSum, Ending
<1>9. CASE ReduceFolding
  <2>1. cfg.reduce /\ ~Folds /\ ~Buffer
    BY <1>9 DEF ReduceFolding, FoldsIn, Folds, Buffer
  <2> QED
    BY <1>1, <1>3, <1>9, <2>1 DEF ReduceFolding, Leaves, IntoSum, Ending
<1>10. CASE ReduceBuffer
  <2>1. cfg.reduce /\ ~Folds /\ Buffer
    BY <1>10 DEF ReduceBuffer, FoldsIn, Folds, Buffer
  <2>2. \A b \in Fresh : Sum(b) = <<IntoBuffer, Work({<<Own.ar, "buf">>}, {<<b, "sum">>})>>
    BY <1>1, <1>10, <2>1 DEF Sum, ReduceBuffer
  <2> QED
    BY <1>1, <1>10, <2>1, <2>2 DEF ReduceBuffer, Leaves, Ending
<1>11. CASE ReduceSum
  <2>1. cfg.reduce /\ ~Folds /\ ~Buffer
    BY <1>11 DEF ReduceSum, FoldsIn, Folds, Buffer
  <2> QED
    BY <1>1, <1>3, <1>11, <2>1 DEF ReduceSum, Leaves, IntoSum, Ending
<1> QED
  BY <1>4, <1>5, <1>6, <1>7, <1>8, <1>9, <1>10, <1>11 DEF Combine

Result ==
  IF "sum" \in DOMAIN held THEN {"sum"}
  ELSE IF "buf" \in DOMAIN held THEN {"buf"}
  ELSE {"routed"} \cup (IF stash # <<>> THEN {"shared"} ELSE {})

\* The pieces of work of the layer are pieces of work.
LEMMA PieceTypes ==
  /\ \A reads, writes \in SUBSET (Block \X Names) : Work(reads, writes) \in Pieces
  /\ \A e \in Event : Fires(e) \in Pieces /\ Waits(e) \in Pieces
<1>1. \A reads, writes \in SUBSET (Block \X Names) : Work(reads, writes) \in Pieces
  BY DEF Work, Pieces
<1>2. Work({}, {}) \in Pieces
  BY <1>1
<1>3. \A e \in Event : {e} \in SUBSET Event
  OBVIOUS
<1> QED
  BY <1>1, <1>2, <1>3 DEF Fires, Waits, Pieces, Work

\* Where things are: the blocks that were never handed out.
LEMMA OwnBlocks ==
  /\ {Own.w2, Own.w2lin, Own.fp4, Own.ids, Own.ar} \subseteq Block
  /\ Fresh \subseteq Block /\ Block \subseteq Nat
  /\ \A b \in Fresh : b > Own.ar
  /\ SinkReads \subseteq Block \X Names
<1>1. Blocks \in Nat
  BY LayerAssumption
<1>2. Own.w2 = 1 /\ Own.w2lin = 2 /\ Own.fp4 = 3 /\ Own.ids = 4 /\ Own.ar = 5
  BY DEF Own
<1>2a. {"w2", "w2lin", "fp4"} \subseteq Names
  BY DEF Names, Weights
<1>3. /\ {Own.w2, Own.w2lin, Own.fp4, Own.ids, Own.ar} \subseteq Block
      /\ Fresh \subseteq Block /\ Block \subseteq Nat
      /\ \A b \in Fresh : b > Own.ar
  BY <1>1, <1>2 DEF Block, Fresh
<1>4. SinkReads \subseteq {<<Own.w2, "w2">>, <<Own.w2lin, "w2lin">>, <<Own.fp4, "fp4">>}
  BY DEF SinkReads
<1> QED
  BY <1>2a, <1>3, <1>4

\* Tensors in hand are in blocks of the memory.
LEMMA ReadsType ==
  ASSUME TypeOK, NEW names \in SUBSET DOMAIN held
  PROVE  Reads(names) \subseteq Block \X Names
<1>1. \A nm \in names : held[nm][1] \in Block /\ nm \in Names
  BY DEF TypeOK
<1> QED
  BY <1>1 DEF Reads

\* Lists of one or two pieces, and a single list of work.
LEMMA Lists ==
  ASSUME NEW a \in Pieces, NEW c \in Pieces
  PROVE  /\ <<>> \in Seq(Pieces) /\ <<a>> \in Seq(Pieces) /\ <<a, c>> \in Seq(Pieces)
         /\ <<a>> \o <<c>> = <<a, c>> /\ <<a>> \o <<>> = <<a>> /\ <<>> \o <<a>> = <<a>>
         /\ <<>> \o <<>> = <<>>
<1>1. <<>> \in Seq(Pieces) /\ <<a>> \in Seq(Pieces) /\ <<c>> \in Seq(Pieces) /\ <<a, c>> \in Seq(Pieces)
  OBVIOUS
<1>2. <<a>> \o <<>> = <<a>> /\ <<>> \o <<a>> = <<a>> /\ <<>> \o <<>> = <<>>
  BY <1>1, ConcatEmptySeq
<1>3. <<a>> \o <<c>> = <<a, c>>
  <2>1. Len(<<a>>) = 1 /\ Len(<<c>>) = 1 /\ Len(<<a, c>>) = 2 /\ <<a>>[1] = a /\ <<c>>[1] = c
    OBVIOUS
  <2>2. <<a>> \o <<c>> \in Seq(Pieces) /\ Len(<<a>> \o <<c>>) = 2
    BY <1>1, <2>1, ConcatProperties
  <2>3. (<<a>> \o <<c>>)[1] = a /\ (<<a>> \o <<c>>)[2] = c
    OBVIOUS
  <2>4. \A i \in 1 .. 2 : (<<a>> \o <<c>>)[i] = <<a, c>>[i]
    BY <2>3
  <2> QED
    BY <1>1, <2>1, <2>2, <2>4, SeqEqual
<1> QED
  BY <1>1, <1>2, <1>3

\* Work for one stream leaves the other one alone.
LEMMA OneList ==
  ASSUME NEW s0 \in Stream, NEW l \in Seq(Pieces)
  PROVE  /\ [Empty EXCEPT ![s0] = l] \in WorkList
         /\ \A s \in Stream : [Empty EXCEPT ![s0] = l][s] = IF s = s0 THEN l ELSE <<>>
<1>1. Empty \in WorkList /\ \A s \in Stream : Empty[s] = <<>>
  BY DEF Empty, WorkList
<1> QED
  BY <1>1 DEF WorkList

\* What a call has in hand can be read.
LEMMA HeldNames ==
  ASSUME TypeOK, CallInv
  PROVE  /\ HeldNow \subseteq DOMAIN held
         /\ pc # "idle" => "x" \in DOMAIN held
         /\ pc \notin {"idle", "gate"} => "gate" \in DOMAIN held
         /\ pc \in {"combine", "return"} =>
              "routed" \in DOMAIN held /\ (Has => "shared" \in DOMAIN held)
BY DEF CallInv, HeldNow

\* What the gate enqueues, by name; the five lemmas that follow say it of the
\* other steps.
LEMMA GateIssues ==
  ASSUME TypeOK, CallInv, Gate
  PROVE  \E b \in Fresh : /\ Takes("gate", "main", b)
                          /\ GateWork(b) \in WorkList /\ Issues(GateWork(b))
<1>1. PICK b \in Fresh : Takes("gate", "main", b) /\ Issues(GateWork(b))
  BY DEF Gate, GateWork
<1>2. Work(Reads({"x"}), {<<b, "gate">>}) \in Pieces
  <2>1. Reads({"x"}) \subseteq Block \X Names
    BY HeldNames, ReadsType DEF Gate
  <2> QED
    BY <2>1, OwnBlocks, PieceTypes DEF Names
<1>3. \A s \in Stream : Fork(s) \in {<<>>, <<Fires("fork")>>, <<Waits("fork")>>}
  BY DEF Fork
<1>4. Fires("fork") \in Pieces /\ Waits("fork") \in Pieces
  BY PieceTypes DEF Event
<1>5. \A s \in Stream : GateWork(b)[s] \in Seq(Pieces)
  <2> DEFINE a == Work(Reads({"x"}), {<<b, "gate">>})
  <2> HIDE DEF a
  <2>1. a \in Pieces
    BY <1>2 DEF a
  <2> QED
    BY <2>1, <1>3, <1>4, Lists DEF GateWork, a
<1>6. GateWork(b) = [s \in Stream |-> GateWork(b)[s]]
  BY DEF GateWork
<1> QED
  BY <1>1, <1>5, <1>6 DEF WorkList

\* The copy of the input for the second stream.
LEMMA CloneIssues ==
  ASSUME TypeOK, CallInv, Clone
  PROVE  \E b \in Fresh : /\ Takes("sink", "alt", b)
                          /\ CloneWork(b) \in WorkList /\ Issues(CloneWork(b))
<1>1. PICK b \in Fresh : Takes("sink", "alt", b) /\ Issues(CloneWork(b))
  BY DEF Clone, CloneWork
<1>2. Work(Reads({"x"}), {<<b, "sink">>}) \in Pieces
  <2>1. Reads({"x"}) \subseteq Block \X Names
    BY HeldNames, ReadsType DEF Clone
  <2> QED
    BY <2>1, OwnBlocks, PieceTypes DEF Names
<1>3. CloneWork(b) \in WorkList
  BY <1>2, Lists, OneList DEF CloneWork, Stream
<1> QED
  BY <1>1, <1>3

\* The routed experts.
LEMMA RoutedIssues ==
  ASSUME TypeOK, CallInv, RoutedExperts
  PROVE  \E b \in Fresh : /\ Takes("routed", "main", b)
                          /\ RoutedWork(b) \in WorkList /\ Issues(RoutedWork(b))
<1>1. PICK b \in Fresh : Takes("routed", "main", b) /\ Issues(RoutedWork(b))
  BY DEF RoutedExperts, RoutedWork
<1>2. Work(Reads({"x", "gate"}), {<<b, "routed">>}) \in Pieces
  <2>1. Reads({"x", "gate"}) \subseteq Block \X Names
    BY HeldNames, ReadsType DEF RoutedExperts
  <2> QED
    BY <2>1, OwnBlocks, PieceTypes DEF Names
<1>3. \A s \in Stream : Join(s) \in {<<>>, <<Fires("join")>>, <<Waits("join")>>}
  BY DEF Join
<1>4. Fires("join") \in Pieces /\ Waits("join") \in Pieces
  BY PieceTypes DEF Event
<1>5. \A s \in Stream : RoutedWork(b)[s] \in Seq(Pieces)
  <2> DEFINE a == Work(Reads({"x", "gate"}), {<<b, "routed">>})
  <2> HIDE DEF a
  <2>1. a \in Pieces
    BY <1>2 DEF a
  <2> QED
    BY <2>1, <1>3, <1>4, Lists DEF RoutedWork, a
<1>6. RoutedWork(b) = [s \in Stream |-> RoutedWork(b)[s]]
  BY DEF RoutedWork
<1> QED
  BY <1>1, <1>5, <1>6 DEF WorkList

\* The shared experts.
LEMMA SharedIssues ==
  ASSUME TypeOK, CallInv, SharedExperts
  PROVE  \E b \in Fresh : /\ Takes("shared", SharedOn, b)
                          /\ SharedWork(b) \in WorkList /\ Issues(SharedWork(b))
<1>1. PICK b \in Fresh : Takes("shared", SharedOn, b) /\ Issues(SharedWork(b))
  BY DEF SharedExperts, SharedWork, SharedOn, Builds, Stacks, SharedReads
<1>2. SharedReads \subseteq Block \X Names
  <2> DEFINE names == (IF "sink" \in DOMAIN held THEN {"sink"} ELSE {"x"})
                        \cup (IF cfg.sink THEN {"gate"} ELSE {})
  <2>1. names \subseteq DOMAIN held
    BY HeldNames DEF SharedExperts
  <2>2. Reads(names) \subseteq Block \X Names
    BY <2>1, ReadsType
  <2> HIDE DEF names
  <2>3. {<<Own.ids, "ids">>} \subseteq Block \X Names
    BY OwnBlocks DEF Names
  <2> QED
    BY <2>2, <2>3, OwnBlocks DEF SharedReads, names
<1>3. Work(SharedReads, {<<b, "shared">>}) \in Pieces
  BY <1>2, OwnBlocks, PieceTypes DEF Names
<1>4. Work({}, {<<Own.ids, "ids">>}) \in Pieces
  BY OwnBlocks, PieceTypes DEF Names
<1>5. Work({<<Own.w2, "w2">>}, {<<Own.w2lin, "w2lin">>}) \in Pieces
  BY OwnBlocks, PieceTypes DEF Names, Weights
<1>6. Builds \in Seq(Pieces) /\ Stacks \in Seq(Pieces)
  BY <1>4, <1>5, Lists DEF Builds, Stacks
<1>7. <<Work(SharedReads, {<<b, "shared">>})>> \in Seq(Pieces)
  BY <1>3, Lists
<1>8. Builds \o Stacks \o <<Work(SharedReads, {<<b, "shared">>})>> \in Seq(Pieces)
  BY <1>6, <1>7, ConcatProperties
<1>9. SharedOn \in Stream
  BY DEF SharedOn, Stream
<1>10. SharedWork(b) \in WorkList
  BY <1>8, <1>9, OneList DEF SharedWork
<1> QED
  BY <1>1, <1>10

\* The end of forward.
LEMMA CombineIssues ==
  ASSUME TypeOK, CallInv, Combine
  PROVE  \/ /\ OnMain(<<>>) \in WorkList /\ Issues(OnMain(<<>>)) /\ UNCHANGED <<free, top, held>>
            /\ ~cfg.reduce /\ (Folds \/ ~Has)
         \/ /\ OnMain(<<Add>>) \in WorkList /\ Issues(OnMain(<<Add>>))
            /\ held' = With(held, "buf", <<Own.ar, "none">>) /\ UNCHANGED <<free, top>>
            /\ ~cfg.reduce /\ Has /\ ~Folds /\ Buffer
         \/ /\ \E b \in Fresh : /\ Takes("sum", "main", b)
                                /\ OnMain(Sum(b)) \in WorkList /\ Issues(OnMain(Sum(b)))
            /\ cfg.reduce \/ (Has /\ ~Folds /\ ~Buffer)
<1>1. Whole \subseteq DOMAIN held
  BY HeldNames, Ends DEF Ending, Whole
<1>2. Reads(Whole) \subseteq Block \X Names
  BY <1>1, ReadsType
<1>3. Add \in Pieces
  BY <1>2, OwnBlocks, PieceTypes DEF Add, Names
<1>4. \A b \in Fresh : /\ Work({<<Own.ar, "buf">>}, {<<b, "sum">>}) \in Pieces
                       /\ Work(Reads(Whole), {<<b, "sum">>}) \in Pieces
  BY <1>2, OwnBlocks, PieceTypes DEF Names
<1>5. \A b \in Fresh : Sum(b) \in Seq(Pieces)
  BY <1>3, <1>4, Lists DEF Sum
<1>6. \A b \in Fresh : OnMain(Sum(b)) \in WorkList
  BY <1>5, OneList DEF OnMain, Stream
<1>7. OnMain(<<>>) \in WorkList /\ OnMain(<<Add>>) \in WorkList
  BY <1>3, Lists, OneList DEF OnMain, Stream
<1>8. \/ /\ Issues(OnMain(<<>>)) /\ UNCHANGED <<free, top, held>>
         /\ ~cfg.reduce /\ (Folds \/ ~Has)
      \/ /\ Issues(OnMain(<<Add>>))
         /\ held' = With(held, "buf", <<Own.ar, "none">>) /\ UNCHANGED <<free, top>>
         /\ ~cfg.reduce /\ Has /\ ~Folds /\ Buffer
      \/ /\ \E b \in Fresh : Takes("sum", "main", b) /\ Issues(OnMain(Sum(b)))
         /\ cfg.reduce \/ (Has /\ ~Folds /\ ~Buffer)
  BY Ends DEF Ending
<1> QED
  BY <1>6, <1>7, <1>8

ReturnWork == OnMain(<<Work(Reads(Result), {})>>)
Mine == {held[nm] : nm \in DOMAIN held \ {"buf"}}
\* The caller, who takes the result.
LEMMA ReturnIssues ==
  ASSUME TypeOK, CallInv, Return
  PROVE  /\ ReturnWork \in WorkList /\ Issues(ReturnWork) /\ Result \subseteq DOMAIN held
         /\ Returns(MemoryPool, Mine)
<1>1. Issues(ReturnWork) /\ Returns(MemoryPool, Mine)
  BY DEF Return, ReturnWork, OnMain, Result, Mine
<1>2. Result \subseteq DOMAIN held
  BY HeldNames DEF Return, Result, CallInv
<1>3. Reads(Result) \subseteq Block \X Names
  BY <1>2, ReadsType
<1>4. Work(Reads(Result), {}) \in Pieces
  BY <1>3, PieceTypes
<1>5. ReturnWork \in WorkList
  BY <1>4, Lists, OneList DEF ReturnWork, OnMain, Stream
<1> QED
  BY <1>1, <1>2, <1>5

-----------------------------------------------------------------------------
(* Types, and the place in forward.                                        *)

\* A call with one more tensor in hand.
Gets(h, name, b, s) == h = With(held, name, <<b, s>>)
Got(h, name, b, s) ==
  /\ DOMAIN h \subseteq Names /\ h \in [DOMAIN h -> Block \X (Stream \cup {"none"})]
  /\ DOMAIN h = DOMAIN held \cup {name} /\ h[name] = <<b, s>>
  /\ \A nm \in DOMAIN held : nm # name => h[nm] = held[nm]
\* With one more tensor in hand the others stay where they were.
LEMMA HeldType ==
  ASSUME TypeOK, NEW name \in Names, NEW b \in Block, NEW s \in Stream \cup {"none"},
         NEW h, Gets(h, name, b, s)
  PROVE  Got(h, name, b, s)
<1>1. /\ DOMAIN h = DOMAIN held \cup {name} /\ h[name] = <<b, s>>
      /\ \A nm \in DOMAIN held : nm # name => h[nm] = held[nm]
      /\ h = [nm \in DOMAIN held \cup {name} |-> h[nm]]
  BY DEF With, Gets
<1>2. /\ DOMAIN held \subseteq Names
      /\ \A nm \in DOMAIN held : held[nm] \in Block \X (Stream \cup {"none"})
  BY DEF TypeOK
<1>3. \A nm \in DOMAIN h : h[nm] \in Block \X (Stream \cup {"none"})
  BY <1>1, <1>2
<1> QED
  BY <1>1, <1>2, <1>3 DEF Got

\* The allocator hands out blocks of its own and keeps its lists.
LEMMA AllocatesType ==
  ASSUME DeviceTypeOK, NEW p \in Pool, NEW s \in Stream, NEW b \in Fresh, Allocates(p, s, b)
  PROVE  /\ free' \in [Pool \X Stream -> SUBSET Fresh] /\ top' \in 5 .. 5 + Blocks
         /\ free'[<<p, s>>] = free[<<p, s>>] \ {b}
         /\ \A q \in Pool \X Stream : q # <<p, s>> => free'[q] = free[q]
         /\ b \in free[<<p, s>>] \/ (free[<<p, s>>] = {} /\ b = top + 1)
         /\ top' = IF b > top THEN b ELSE top
<1>1. free \in [Pool \X Stream -> SUBSET Fresh] /\ top \in 5 .. 5 + Blocks
  BY DeviceTypes
<1>2. b \in 5 .. 5 + Blocks
  BY LayerAssumption DEF Fresh
<1> QED
  BY <1>1, <1>2 DEF Allocates

\* A call allocates from one of the pools.
LEMMA PoolType == MemoryPool \in Pool
BY DEF MemoryPool, Pool

\* Only blocks that were handed out come back.
LEMMA ReturnsType ==
  ASSUME TypeOK, CallInv, Returns(MemoryPool, Mine)
  PROVE  free' \in [Pool \X Stream -> SUBSET Fresh] /\ top' \in 5 .. 5 + Blocks
<1>1. free \in [Pool \X Stream -> SUBSET Fresh] /\ top \in 5 .. 5 + Blocks
  BY DeviceTypes DEF TypeOK
<1>2. \A b \in Mine : b[1] \in Fresh
  BY DEF Mine, CallInv
<1> QED
  BY <1>1, <1>2 DEF Returns

\* What a step enqueues keeps the types of the device.
LEMMA IssueTypes ==
  ASSUME TypeOK, CallInv, pc # "idle", NEW w \in WorkList, Issues(w),
         free' \in [Pool \X Stream -> SUBSET Fresh], top' \in 5 .. 5 + Blocks,
         UNCHANGED <<fired, mem, epoch, run>>
  PROVE  DeviceTypeOK'
<1>1. lane' \in Queue /\ graph' \in Seq(WorkList)
  BY IssuesAdds
<1> QED
  BY <1>1 DEF TypeOK, DeviceTypeOK, Queue, Entry, WorkList

\* So does a block taken for a new tensor.
LEMMA TakesTypes ==
  ASSUME TypeOK, NEW name \in Names, NEW b \in Fresh, NEW s \in Stream, Takes(name, s, b)
  PROVE  /\ free' \in [Pool \X Stream -> SUBSET Fresh] /\ top' \in 5 .. 5 + Blocks
         /\ DOMAIN held' \subseteq Names /\ held' \in [DOMAIN held' -> Block \X (Stream \cup {"none"})]
         /\ DOMAIN held' = DOMAIN held \cup {name} /\ held'[name] = <<b, s>>
         /\ \A nm \in DOMAIN held : nm # name => held'[nm] = held[nm]
<1>1. DeviceTypeOK /\ Allocates(MemoryPool, s, b) /\ held' = With(held, name, <<b, s>>)
  BY DEF Takes, TypeOK
<1>2. b \in Block
  BY OwnBlocks
<1>3. free' \in [Pool \X Stream -> SUBSET Fresh] /\ top' \in 5 .. 5 + Blocks
  BY <1>1, AllocatesType, PoolType
<1>4. /\ DOMAIN held' \subseteq Names /\ held' \in [DOMAIN held' -> Block \X (Stream \cup {"none"})]
      /\ DOMAIN held' = DOMAIN held \cup {name} /\ held'[name] = <<b, s>>
      /\ \A nm \in DOMAIN held : nm # name => held'[nm] = held[nm]
  <2>1. s \in Stream \cup {"none"} /\ Gets(held', name, b, s)
    BY <1>1 DEF Gets
  <2>2. Got(held', name, b, s)
    BY <1>2, <2>1, HeldType
  <2> QED
    BY <2>2 DEF Got
<1> QED
  BY <1>3, <1>4

BeginWork(b) == [Empty EXCEPT !["main"] = <<Work({}, {<<b, "x">>})>>]
\* The first work of a call is what makes its input.
LEMMA BeginIssues ==
  ASSUME TypeOK, CallInv, NEW m \in {"eager", "warmup", "capture"}, NEW i, Begin(m, i)
  PROVE  \E b \in Fresh :
           /\ BeginWork(b) \in WorkList /\ BeginWork(b)["main"] = <<Work({}, {<<b, "x">>})>>
           /\ BeginWork(b)["alt"] = <<>>
           /\ Allocates(IF m = "capture" THEN "graph" ELSE "eager", "main", b)
           /\ held' = With(<<>>, "x", <<b, "main">>)
           /\ DOMAIN held' = {"x"} /\ held'["x"] = <<b, "main">>
           /\ m = "capture" => graph' = Append(graph, BeginWork(b)) /\ lane' = lane
           /\ m # "capture" => /\ lane' = [s \in Stream |-> lane[s] \o Marked(BeginWork(b), run + 1)[s]]
                               /\ graph' = graph
<1>1. PICK b \in Fresh :
        /\ Allocates(IF m = "capture" THEN "graph" ELSE "eager", "main", b)
        /\ held' = With(<<>>, "x", <<b, "main">>)
        /\ IF m = "capture" THEN graph' = Append(graph, BeginWork(b)) /\ UNCHANGED lane
           ELSE /\ lane' = [s \in Stream |-> lane[s] \o Marked(BeginWork(b), run')[s]]
                /\ UNCHANGED graph
  BY DEF Begin, BeginWork
<1>2. Work({}, {<<b, "x">>}) \in Pieces
  BY OwnBlocks, PieceTypes DEF Names
<1>3. /\ BeginWork(b) \in WorkList /\ BeginWork(b)["main"] = <<Work({}, {<<b, "x">>})>>
      /\ BeginWork(b)["alt"] = <<>>
  BY <1>2, Lists, OneList DEF BeginWork, Stream
<1>4. DOMAIN held' = {"x"} /\ held'["x"] = <<b, "main">>
  BY <1>1 DEF With
<1>5. run' = run + 1
  BY DEF Begin
<1> QED
  BY <1>1, <1>3, <1>4, <1>5

\* The rest of TypeOK.
CallTypeOK ==
  /\ cfg \in Configs
  /\ sink \in {"none", "loaded", "ready", "gone"}
  /\ {linear, idsBuilt, warm} \subseteq BOOLEAN
  /\ pc \in {"idle", "gate", "clone", "shared", "routed", "combine", "return"}
  /\ mode \in {"eager", "warmup", "capture"}
  /\ {routing, captured} \subseteq Routings[cfg] \cup {None}
  /\ DOMAIN parts \subseteq {"routed", "shared", "out"}
HeldTypeOK ==
  DOMAIN held \subseteq Names /\ held \in [DOMAIN held -> Block \X (Stream \cup {"none"})]
\* The three parts of the type invariant.
LEMMA TypeParts == TypeOK <=> DeviceTypeOK /\ CallTypeOK /\ HeldTypeOK
BY DEF TypeOK, CallTypeOK, HeldTypeOK

\* Every step keeps the types of the host's variables,
LEMMA CallTypes ==
  ASSUME TypeOK, Next
  PROVE  CallTypeOK'
<1> USE DEF CallTypeOK, TypeOK
<1>1. ASSUME NEW m \in {"eager", "warmup", "capture"}, NEW i \in Routings[cfg], Begin(m, i)
      PROVE  CallTypeOK'
  BY <1>1 DEF Begin, Undisturbed
<1>2. CASE Gate
  BY <1>2 DEF Gate, Undisturbed
<1>3. CASE Clone
  BY <1>3 DEF Clone, Undisturbed
<1>4. CASE SharedExperts
  BY <1>4 DEF SharedExperts, Undisturbed, With
<1>5. CASE RoutedExperts
  BY <1>5 DEF RoutedExperts, Undisturbed, With
<1>6. CASE Combine
  BY <1>6, Ends DEF Ending, Undisturbed
<1>7. CASE Return
  BY <1>7 DEF Return, Undisturbed
<1>8. CASE Replay
  BY <1>8 DEF Replay, layerVars
<1>9. ASSUME NEW l \in BOOLEAN, LoadSink(l) PROVE CallTypeOK'
  BY <1>9 DEF LoadSink
<1>10. CASE PostLoad
  BY <1>10 DEF PostLoad
<1>11. CASE Resume
  BY <1>11 DEF Resume
<1>12. CASE UNCHANGED layerVars
  BY <1>12 DEF layerVars
<1>13. CASE Finished
  BY <1>13 DEF Finished, vars, layerVars
<1> QED
  BY <1>1, <1>2, <1>3, <1>4, <1>5, <1>6, <1>7, <1>8, <1>9, <1>10, <1>11, <1>12, <1>13 DEF Next

\* those of the tensors in hand,
LEMMA HeldTypes ==
  ASSUME TypeOK, CallInv, Next
  PROVE  HeldTypeOK'
<1>0. HeldTypeOK
  BY TypeParts
<1>1. ASSUME NEW m \in {"eager", "warmup", "capture"}, NEW i \in Routings[cfg], Begin(m, i)
      PROVE  HeldTypeOK'
  <2>1. PICK b \in Fresh : held' = With(<<>>, "x", <<b, "main">>) /\ DOMAIN held' = {"x"}
                           /\ held'["x"] = <<b, "main">>
    BY <1>1, BeginIssues
  <2>2. b \in Block /\ "x" \in Names
    BY OwnBlocks DEF Names
  <2>3. held' = [nm \in DOMAIN held' |-> held'[nm]]
    BY <2>1 DEF With
  <2> QED
    BY <2>1, <2>2, <2>3 DEF HeldTypeOK, Stream
<1>n. {"gate", "sink", "shared", "routed", "sum", "buf"} \subseteq Names /\ {"main", "alt", SharedOn} \subseteq Stream
  BY DEF Names, Stream, SharedOn
<1>2. CASE Gate
  BY <1>2, <1>n, GateIssues, TakesTypes DEF HeldTypeOK
<1>3. CASE Clone
  BY <1>3, <1>n, CloneIssues, TakesTypes DEF HeldTypeOK
<1>4. CASE SharedExperts
  BY <1>4, <1>n, SharedIssues, TakesTypes DEF HeldTypeOK
<1>5. CASE RoutedExperts
  BY <1>5, <1>n, RoutedIssues, TakesTypes DEF HeldTypeOK
<1>6. CASE Combine
  <2>1. CASE UNCHANGED held
    BY <2>1, <1>0 DEF HeldTypeOK
  <2>2. CASE held' = With(held, "buf", <<Own.ar, "none">>)
    <3>1. Gets(held', "buf", Own.ar, "none") /\ Own.ar \in Block /\ "none" \in Stream \cup {"none"}
      BY <2>2, OwnBlocks DEF Gets
    <3>2. Got(held', "buf", Own.ar, "none")
      BY <3>1, <1>n, HeldType
    <3> QED
      BY <3>2 DEF Got, HeldTypeOK
  <2>3. ASSUME NEW b \in Fresh, Takes("sum", "main", b) PROVE HeldTypeOK'
    BY <2>3, <1>n, TakesTypes DEF HeldTypeOK
  <2> QED
    BY <1>6, <2>1, <2>2, <2>3, CombineIssues
<1>7. CASE Return
  BY <1>7 DEF Return, HeldTypeOK
<1>8. CASE UNCHANGED held
  BY <1>8, <1>0 DEF HeldTypeOK
<1>9. ASSUME NEW l \in BOOLEAN, LoadSink(l) PROVE UNCHANGED held
  BY <1>9 DEF LoadSink
<1>10. Replay \/ PostLoad \/ Resume \/ Finished \/ UNCHANGED layerVars => UNCHANGED held
  BY DEF Replay, PostLoad, Resume, Finished, layerVars, vars
<1> QED
  BY <1>1, <1>2, <1>3, <1>4, <1>5, <1>6, <1>7, <1>8, <1>9, <1>10 DEF Next

\* and, when it is one of the device, those of the device,
LEMMA DeviceStepTypes ==
  ASSUME DeviceTypeOK, NEW s0 \in Stream, Execute(s0)
  PROVE  DeviceTypeOK'
<1> DEFINE w == Head(lane[s0]).work
           r == Head(lane[s0]).run
<1>1. /\ lane \in Queue /\ fired \in SUBSET (Event \X Nat) /\ epoch \in Nat
      /\ mem \in [Block -> (Names \cup {"junk"}) \X Nat]
  BY DeviceTypes
<1>2. lane[s0] # <<>>
  BY DEF Execute, Runnable
<1>3. Head(lane[s0]) = lane[s0][1] /\ lane[s0][1] \in Entry
      /\ [lane EXCEPT ![s0] = Tail(lane[s0])] \in Queue
  <2>1. 1 \in DOMAIN lane[s0]
    BY <1>1, <1>2, TailIsRest DEF Rest
  <2> QED
    BY <1>1, <1>2, <2>1, TailIsRest, QueueIndex
<1>4. w \in Pieces /\ r \in Nat
  BY <1>3 DEF Entry
<1>5. /\ mem' = [b \in DOMAIN mem |->
                   IF \E o \in w.writes : o[1] = b
                     THEN Meant((CHOOSE o \in w.writes : o[1] = b)[2], r)
                     ELSE mem[b]]
      /\ fired' = fired \cup {<<e, r>> : e \in w.fires}
      /\ lane' = [lane EXCEPT ![s0] = Tail(lane[s0])]
      /\ UNCHANGED <<free, top, epoch, run, graph>>
  BY DEF Execute
<1> HIDE DEF w, r
<1>6. w.writes \subseteq Block \X Names /\ w.fires \subseteq Event
  BY <1>4 DEF Pieces
<1>7. ASSUME NEW b \in Block PROVE mem'[b] \in (Names \cup {"junk"}) \X Nat
  <2>1. CASE \E o \in w.writes : o[1] = b
    <3>1. (CHOOSE o \in w.writes : o[1] = b) \in w.writes
      BY <2>1
    <3>2. (CHOOSE o \in w.writes : o[1] = b)[2] \in Names
      BY <3>1, <1>6
    <3>3. \A nm \in Names : Meant(nm, r) \in Names \X Nat
      BY <1>1, <1>4 DEF Meant
    <3>4. mem'[b] = Meant((CHOOSE o \in w.writes : o[1] = b)[2], r)
      BY <2>1, <1>1, <1>5
    <3> QED
      BY <3>2, <3>3, <3>4
  <2>2. CASE ~\E o \in w.writes : o[1] = b
    BY <2>2, <1>1, <1>5
  <2> QED
    BY <2>1, <2>2
<1>8. mem' \in [Block -> (Names \cup {"junk"}) \X Nat]
  <2>1. DOMAIN mem = Block
    BY <1>1
  <2>2. mem' = [b \in Block |-> mem'[b]]
    BY <1>5, <2>1
  <2> QED
    BY <1>7, <2>2
<1>9. fired' \subseteq Event \X Nat
  BY <1>1, <1>4, <1>5, <1>6
<1>10. lane' \in Queue
  BY <1>3, <1>5
<1>11. lane' \in [Stream -> Seq([work : Pieces, run : Nat])]
  BY <1>10 DEF Queue, Entry
<1> QED
  BY <1>5, <1>8, <1>9, <1>11 DEF DeviceTypeOK

\* as do the steps of the host.
LEMMA DeviceTypesStep ==
  ASSUME TypeOK, CallInv, Next
  PROVE  DeviceTypeOK'
<1>0. DeviceTypeOK
  BY DEF TypeOK
<1>t. /\ lane \in Queue /\ graph \in Seq(WorkList)
      /\ fired \in SUBSET (Event \X Nat) /\ run \in Nat /\ epoch \in Nat /\ top \in 5 .. 5 + Blocks
      /\ free \in [Pool \X Stream -> SUBSET Fresh]
      /\ mem \in [Block -> (Names \cup {"junk"}) \X Nat]
  BY <1>0, DeviceTypes
<1>n. {"gate", "sink", "shared", "routed", "sum", "buf"} \subseteq Names /\ {"main", "alt", SharedOn} \subseteq Stream
  BY DEF Names, Stream, SharedOn
<1>1. ASSUME NEW m \in {"eager", "warmup", "capture"}, NEW i \in Routings[cfg], Begin(m, i)
      PROVE  DeviceTypeOK'
  <2>1. PICK b \in Fresh :
           /\ BeginWork(b) \in WorkList
           /\ Allocates(IF m = "capture" THEN "graph" ELSE "eager", "main", b)
           /\ m = "capture" => graph' = Append(graph, BeginWork(b)) /\ lane' = lane
           /\ m # "capture" => /\ lane' = [s \in Stream |-> lane[s] \o Marked(BeginWork(b), run + 1)[s]]
                               /\ graph' = graph
    BY <1>1, BeginIssues
  <2>2. Marked(BeginWork(b), run + 1) \in Queue
    BY <2>1, <1>t, MarkedIndex
  <2>3. lane' \in Queue
    <3>1. [s \in Stream |-> lane[s] \o Marked(BeginWork(b), run + 1)[s]] \in Queue
      BY <2>2, <1>t, ConcatAdds
    <3> QED
      BY <2>1, <3>1, <1>t
  <2>3a. graph' \in Seq(WorkList)
    <3>1. Append(graph, BeginWork(b)) \in Seq(WorkList)
      BY <2>1, <1>t
    <3>2. graph' = Append(graph, BeginWork(b)) \/ graph' = graph
      BY <2>1
    <3> QED
      BY <3>1, <3>2, <1>t
  <2>4. free' \in [Pool \X Stream -> SUBSET Fresh] /\ top' \in 5 .. 5 + Blocks
    <3>1. (IF m = "capture" THEN "graph" ELSE "eager") \in Pool
      BY DEF Pool
    <3> QED
      BY <2>1, <3>1, <1>0, <1>n, AllocatesType
  <2>5. run' = run + 1 /\ UNCHANGED <<fired, mem, epoch>>
    BY <1>1 DEF Begin, Undisturbed
  <2>6. run' \in Nat /\ epoch' \in Nat
    BY <2>5, <1>t
  <2> QED
    BY <2>3, <2>3a, <2>4, <2>5, <2>6, <1>0 DEF DeviceTypeOK, Queue, Entry, WorkList
<1>u. ASSUME Gate \/ Clone \/ SharedExperts \/ RoutedExperts \/ Combine \/ Return
      PROVE  pc # "idle" /\ UNCHANGED <<fired, mem, epoch, run>>
  BY <1>u, Ends DEF Gate, Clone, SharedExperts, RoutedExperts, Ending, Return, Undisturbed
<1>2. CASE Gate
  BY <1>2, <1>n, <1>u, GateIssues, TakesTypes, IssueTypes
<1>3. CASE Clone
  BY <1>3, <1>n, <1>u, CloneIssues, TakesTypes, IssueTypes
<1>4. CASE SharedExperts
  BY <1>4, <1>n, <1>u, SharedIssues, TakesTypes, IssueTypes
<1>5. CASE RoutedExperts
  BY <1>5, <1>n, <1>u, RoutedIssues, TakesTypes, IssueTypes
<1>6. CASE Combine
  <2>1. ASSUME NEW w \in WorkList, Issues(w), UNCHANGED <<free, top>> PROVE DeviceTypeOK'
    BY <1>6, <2>1, <1>t, <1>u, IssueTypes
  <2>2. ASSUME NEW b \in Fresh, Takes("sum", "main", b), NEW w \in WorkList, Issues(w)
        PROVE  DeviceTypeOK'
    BY <1>6, <2>2, <1>n, <1>u, TakesTypes, IssueTypes
  <2> QED
    BY <1>6, <2>1, <2>2, CombineIssues
<1>7. CASE Return
  BY <1>7, <1>u, ReturnIssues, ReturnsType, IssueTypes
<1>8. CASE Replay
  <2>1. PICK g \in DOMAIN graph : lane' = [s \in Stream |-> lane[s] \o Marked(graph[g], run')[s]]
    BY <1>8 DEF Replay
  <2>2. run' = run + 1 /\ UNCHANGED <<fired, mem, free, top, epoch, graph>>
    BY <1>8 DEF Replay
  <2>3. graph[g] \in WorkList
    BY <1>t
  <2>4. Marked(graph[g], run') \in Queue
    BY <2>2, <2>3, <1>t, MarkedIndex
  <2>5. lane' \in Queue
    BY <2>1, <2>4, <1>t, ConcatAdds
  <2>6. run' \in Nat /\ epoch' \in Nat
    BY <2>2, <1>t
  <2> QED
    BY <2>2, <2>5, <2>6, <1>0 DEF DeviceTypeOK, Queue, Entry
<1>j. Junk \in (Names \cup {"junk"}) \X Nat /\ \A nm \in {"w2", "w2lin", "fp4"} : nm \in Names
  BY DEF Junk, Names, Weights
<1>9. ASSUME NEW l \in BOOLEAN, LoadSink(l) PROVE DeviceTypeOK'
  <2>1. /\ mem' = IF Deaf THEN mem
                   ELSE [mem EXCEPT ![Own.w2] = <<"w2", epoch'>>,
                           ![Own.w2lin] = IF l /\ Refreshes THEN <<"w2lin", epoch'>> ELSE @]
        /\ epoch' = epoch + 1 /\ UNCHANGED <<lane, fired, free, top, run, graph>>
    BY <1>9 DEF LoadSink
  <2>1a. epoch' \in Nat
    BY <2>1, <1>t
  <2>1b. <<"w2", epoch'>> \in Names \X Nat /\ <<"w2lin", epoch'>> \in Names \X Nat
    BY <2>1a, <1>j
  <2>2. mem' \in [Block -> (Names \cup {"junk"}) \X Nat]
    BY <2>1, <2>1b, <1>t
  <2> QED
    BY <2>1, <2>1a, <2>2, <1>0 DEF DeviceTypeOK
<1>10. CASE PostLoad
  <2>1. /\ mem' = [mem EXCEPT
             ![Own.w2lin] = IF SharedKind = "linear" THEN Stacked ELSE @,
             ![Own.fp4]   = IF SharedKind = "fp4" /\ sink = "loaded" THEN <<"fp4", mem[Own.w2][2]>> ELSE @,
             ![Own.w2]    = IF SharedKind = "fp4" THEN Junk ELSE @]
        /\ UNCHANGED <<lane, fired, free, top, epoch, run, graph>>
    BY <1>10 DEF PostLoad
  <2>2. mem[Own.w2][2] \in Nat /\ Stacked \in Names \X Nat
    BY <1>t, <1>j, OwnBlocks DEF Stacked
  <2>3. mem' \in [Block -> (Names \cup {"junk"}) \X Nat]
    BY <2>1, <2>2, <1>t, <1>j
  <2> QED
    BY <2>1, <2>3, <1>0 DEF DeviceTypeOK
<1>11. CASE Resume
  <2>1. /\ mem' = [b \in DOMAIN mem |-> IF b \in {Own.w2, Own.w2lin, Own.fp4} THEN Junk ELSE mem[b]]
        /\ UNCHANGED <<lane, fired, free, top, epoch, run, graph>>
    BY <1>11 DEF Resume
  <2>2. mem' \in [Block -> (Names \cup {"junk"}) \X Nat]
    BY <2>1, <1>t, <1>j
  <2> QED
    BY <2>1, <2>2, <1>0 DEF DeviceTypeOK
<1>12. ASSUME NEW s \in Stream, Execute(s) PROVE DeviceTypeOK'
  BY <1>0, <1>12, DeviceStepTypes
<1>13. CASE Finished
  BY <1>13, <1>0 DEF Finished, vars, deviceVars, DeviceTypeOK
<1> QED
  BY <1>1, <1>2, <1>3, <1>4, <1>5, <1>6, <1>7, <1>8, <1>9, <1>10, <1>11, <1>12, <1>13 DEF Next

\* Together: every step keeps all types.
LEMMA TypeStep ==
  ASSUME TypeOK, CallInv, Next
  PROVE  TypeOK'
BY CallTypes, HeldTypes, DeviceTypesStep DEF TypeOK, CallTypeOK, HeldTypeOK

\* The configuration never changes, and decides what does not change either.
LEMMA SameConfig ==
  ASSUME cfg' = cfg
  PROVE  /\ SharedKind' = SharedKind /\ (Has' <=> Has) /\ (CloneSink' <=> CloneSink)
         /\ (Shortcut' <=> Shortcut) /\ SinkReads' = SinkReads
         /\ (mode' = mode => (TwoStreams' <=> TwoStreams))
BY DEF SharedKind, Has, CloneSink, Shortcut, SinkReads, TwoStreams

\* What the gate returns depends on the configuration and the batch only.
LEMMA SameGate ==
  ASSUME cfg' = cfg, routing' = routing
  PROVE  FusedGate' = FusedGate /\ PlainGate' = PlainGate
<1>1. SharedColumns' = SharedColumns
  BY DEF SharedColumns, GateShared, Tokens
<1>2. RoutedColumns' = RoutedColumns
  BY DEF RoutedColumns, Tokens, Picks, TopK
<1>3. Packed(routing)' = Packed(routing)
  BY DEF Packed, Tokens, Picks, TopK
<1>4. EmitPacked' <=> EmitPacked
  BY DEF EmitPacked
<1> QED
  BY <1>1, <1>2, <1>3, <1>4 DEF FusedGate, PlainGate

\* No step changes the configuration.
LEMMA KeepsConfig ==
  ASSUME Next
  PROVE  cfg' = cfg
BY Ends DEF Next, Begin, Gate, Clone, SharedExperts, RoutedExperts, Ending, Return, Replay, LoadSink,
       PostLoad, Resume, Finished, Undisturbed, layerVars, vars

\* The parts of CallInv.
CallPlace ==
  /\ pc # "idle" => sink = "ready" /\ routing \in Routings[cfg]
  /\ pc = "idle" => held = <<>> /\ routing = None
  /\ pc = "clone" => TwoStreams /\ CloneSink
  /\ pc = "shared" => Has
  /\ stash # <<>> => Has
CallHeld ==
  /\ DOMAIN held \ Outcome = HeldNow
  /\ pc # "return" => DOMAIN held \cap Outcome = {}
  /\ \A nm \in DOMAIN held \ {"buf"} : held[nm][1] \in Fresh /\ held[nm][2] \in Stream
CallGate ==
  pc \notin {"idle", "gate"} =>
    /\ gate = IF Shortcut THEN FusedGate ELSE PlainGate
    /\ captured = IF cfg.capturer /\ ~Shortcut THEN routing ELSE None
CallGraph == Capturing => Len(graph) > 0

\* Where forward is says what is asked of the weights and the batch, after
\* every step;
LEMMA CallPlaceStep ==
  ASSUME TypeOK, CallInv, Next
  PROVE  CallPlace'
<1>c. /\ cfg' = cfg /\ (Has' <=> Has) /\ (CloneSink' <=> CloneSink)
      /\ (mode' = mode => (TwoStreams' <=> TwoStreams))
  BY KeepsConfig, SameConfig
<1>p. CallPlace
  BY DEF CallPlace, CallInv
<1> USE DEF CallPlace
<1>1. ASSUME NEW m \in {"eager", "warmup", "capture"}, NEW i \in Routings[cfg], Begin(m, i)
      PROVE  CallPlace'
  BY <1>1, <1>c, <1>p DEF Begin, Undisturbed
<1>2. CASE Gate
  BY <1>2, <1>c, <1>p DEF Gate, Undisturbed, TwoStreams
<1>3. CASE Clone
  BY <1>3, <1>c, <1>p DEF Clone, Undisturbed, TwoStreams
<1>4. CASE SharedExperts
  BY <1>4, <1>c, <1>p DEF SharedExperts, Undisturbed
<1>5. CASE RoutedExperts
  BY <1>5, <1>c, <1>p DEF RoutedExperts, Undisturbed
<1>6. CASE Combine
  BY <1>6, <1>c, <1>p, Ends DEF Ending, Undisturbed, Folds
<1>7. CASE Return
  BY <1>7, <1>c, <1>p DEF Return, Undisturbed
<1>8. CASE UNCHANGED layerVars
  BY <1>8, <1>c, <1>p DEF layerVars
<1>9. ASSUME NEW l \in BOOLEAN, LoadSink(l) PROVE CallPlace'
  BY <1>9, <1>c, <1>p DEF LoadSink, Still
<1>10. CASE PostLoad
  BY <1>10, <1>c, <1>p DEF PostLoad, Still
<1>11. CASE Resume
  BY <1>11, <1>c, <1>p DEF Resume, Still
<1>12. Replay \/ Finished => UNCHANGED layerVars
  BY DEF Replay, Finished, vars, layerVars
<1> QED
  BY <1>1, <1>2, <1>3, <1>4, <1>5, <1>6, <1>7, <1>8, <1>9, <1>10, <1>11, <1>12 DEF Next

\* it says what the gate has returned,
LEMMA CallGateStep ==
  ASSUME TypeOK, CallInv, Next
  PROVE  CallGate' /\ CallGraph'
<1>c. cfg' = cfg /\ (Shortcut' <=> Shortcut)
  BY KeepsConfig, SameConfig
<1>g. routing' = routing => FusedGate' = FusedGate /\ PlainGate' = PlainGate
  BY <1>c, SameGate
<1>p. CallGate /\ CallGraph
  BY DEF CallGate, CallGraph, CallInv
<1>s. graph \in Seq(WorkList)
  BY DeviceTypes DEF TypeOK
<1>w. ASSUME NEW w \in WorkList, Issues(w), pc # "idle", mode' = mode
      PROVE  CallGraph'
  <2>1. mode = "capture" => Len(graph') = Len(graph) /\ Len(graph) > 0
    BY <1>w, IssuesAdds
  <2> QED
    BY <2>1, <1>w DEF CallGraph, Capturing
<1>u. ASSUME UNCHANGED <<pc, mode, graph, gate, captured, routing>>
      PROVE  CallGate' /\ CallGraph'
  BY <1>u, <1>c, <1>g, <1>p DEF CallGate, CallGraph, Capturing
<1>1. ASSUME NEW m \in {"eager", "warmup", "capture"}, NEW i \in Routings[cfg], Begin(m, i)
      PROVE  CallGate' /\ CallGraph'
  <2>1. pc' = "gate" /\ mode' = m
    BY <1>1 DEF Begin
  <2>2. \E b \in Fresh : BeginWork(b) \in WorkList /\ (m = "capture" => graph' = Append(graph, BeginWork(b)))
    BY <1>1, BeginIssues
  <2>3. m = "capture" => Len(graph') > 0
    BY <2>2, <1>s, AppendProperties
  <2> QED
    BY <2>1, <2>3 DEF CallGate, CallGraph, Capturing
<1>2. CASE Gate
  <2>1. /\ gate' = IF Shortcut THEN FusedGate ELSE PlainGate
        /\ captured' = IF cfg.capturer /\ ~Shortcut THEN routing ELSE None
        /\ routing' = routing /\ pc # "idle" /\ mode' = mode
    BY <1>2 DEF Gate
  <2>2. CallGate'
    BY <2>1, <1>c, <1>g DEF CallGate
  <2> QED
    BY <2>1, <2>2, <1>2, <1>w, GateIssues
<1>q. ASSUME UNCHANGED <<gate, captured, routing, mode>>, pc \notin {"idle", "gate"} PROVE CallGate'
  BY <1>q, <1>c, <1>g, <1>p DEF CallGate
<1>3. CASE Clone
  <2>1. UNCHANGED <<gate, captured, routing, mode>> /\ pc \notin {"idle", "gate"}
    BY <1>3 DEF Clone
  <2> QED
    BY <2>1, <1>q, <1>3, <1>w, CloneIssues
<1>4. CASE SharedExperts
  <2>1. UNCHANGED <<gate, captured, routing, mode>> /\ pc \notin {"idle", "gate"}
    BY <1>4 DEF SharedExperts
  <2> QED
    BY <2>1, <1>q, <1>4, <1>w, SharedIssues
<1>5. CASE RoutedExperts
  <2>1. UNCHANGED <<gate, captured, routing, mode>> /\ pc \notin {"idle", "gate"}
    BY <1>5 DEF RoutedExperts
  <2> QED
    BY <2>1, <1>q, <1>5, <1>w, RoutedIssues
<1>6. CASE Combine
  <2>1. UNCHANGED <<gate, captured, routing, mode>> /\ pc \notin {"idle", "gate"}
    BY <1>6, Ends DEF Ending
  <2>2. CallGraph'
    BY <2>1, <1>6, <1>w, CombineIssues
  <2> QED
    BY <2>1, <2>2, <1>q
<1>7. CASE Return
  <2>1. pc' = "idle"
    BY <1>7 DEF Return
  <2> QED
    BY <2>1 DEF CallGate, CallGraph, Capturing
<1>8. Replay \/ Finished \/ (\E s \in Stream : Execute(s) /\ UNCHANGED layerVars) =>
        UNCHANGED <<pc, mode, graph, gate, captured, routing>>
  BY DEF Replay, Finished, vars, layerVars, deviceVars, Execute
<1>9. PostLoad \/ Resume \/ (\E l \in BOOLEAN : LoadSink(l)) =>
        UNCHANGED <<pc, mode, graph, gate, captured, routing>>
  BY DEF PostLoad, Resume, LoadSink
<1> QED
  BY <1>u, <1>1, <1>2, <1>3, <1>4, <1>5, <1>6, <1>7, <1>8, <1>9 DEF Next

\* and which tensors are in hand.
LEMMA CallHeldStep ==
  ASSUME TypeOK, CallInv, Next
  PROVE  CallHeld'
<1>c. /\ cfg' = cfg /\ (Has' <=> Has) /\ (CloneSink' <=> CloneSink)
      /\ (mode' = mode => (TwoStreams' <=> TwoStreams)) /\ (TwoStreams => Has)
  BY KeepsConfig, SameConfig DEF TwoStreams
<1>p. CallHeld /\ CallPlace
  BY DEF CallHeld, CallPlace, CallInv
<1>n. /\ {"x", "gate", "sink", "shared", "routed", "sum", "buf"} \subseteq Names
      /\ "main" \in Stream /\ "alt" \in Stream /\ SharedOn \in Stream
  BY DEF Names, Stream, SharedOn
\* One more tensor that was allocated.
<1>t. ASSUME NEW name \in Names, name # "buf", NEW s \in Stream, NEW b \in Fresh, Takes(name, s, b)
      PROVE  /\ DOMAIN held' = DOMAIN held \cup {name}
             /\ \A nm \in DOMAIN held' \ {"buf"} : held'[nm][1] \in Fresh /\ held'[nm][2] \in Stream
  <2>1. /\ DOMAIN held' = DOMAIN held \cup {name} /\ held'[name] = <<b, s>>
        /\ \A nm \in DOMAIN held : nm # name => held'[nm] = held[nm]
    BY <1>t, TakesTypes
  <2> QED
    BY <2>1, <1>p DEF CallHeld
<1>u. ASSUME UNCHANGED <<pc, mode, held>>
      PROVE  CallHeld'
  BY <1>u, <1>c, <1>p DEF CallHeld, HeldNow
<1>1. ASSUME NEW m \in {"eager", "warmup", "capture"}, NEW i \in Routings[cfg], Begin(m, i)
      PROVE  CallHeld'
  <2>1. PICK b \in Fresh : DOMAIN held' = {"x"} /\ held'["x"] = <<b, "main">>
    BY <1>1, BeginIssues
  <2>2. pc' = "gate"
    BY <1>1 DEF Begin
  <2> QED
    BY <2>1, <2>2, <1>n DEF CallHeld, HeldNow, Outcome
<1>2. CASE Gate
  <2>1. PICK b \in Fresh : Takes("gate", "main", b)
    BY <1>2, GateIssues
  <2>2. /\ DOMAIN held' = DOMAIN held \cup {"gate"}
        /\ \A nm \in DOMAIN held' \ {"buf"} : held'[nm][1] \in Fresh /\ held'[nm][2] \in Stream
    BY <2>1, <1>n, <1>t
  <2>3. pc = "gate" /\ mode' = mode
        /\ pc' = IF ~TwoStreams THEN "routed" ELSE IF CloneSink THEN "clone" ELSE "shared"
    BY <1>2 DEF Gate
  <2> QED
    BY <2>2, <2>3, <1>c, <1>p DEF CallHeld, HeldNow, Outcome
<1>3. CASE Clone
  <2>1. PICK b \in Fresh : Takes("sink", "alt", b)
    BY <1>3, CloneIssues
  <2>2. /\ DOMAIN held' = DOMAIN held \cup {"sink"}
        /\ \A nm \in DOMAIN held' \ {"buf"} : held'[nm][1] \in Fresh /\ held'[nm][2] \in Stream
    BY <2>1, <1>n, <1>t
  <2>3. pc = "clone" /\ mode' = mode /\ pc' = "shared"
    BY <1>3 DEF Clone
  <2> QED
    BY <2>2, <2>3, <1>c, <1>p DEF CallHeld, CallPlace, HeldNow, Outcome
<1>4. CASE SharedExperts
  <2>1. PICK b \in Fresh : Takes("shared", SharedOn, b)
    BY <1>4, SharedIssues
  <2>2. /\ DOMAIN held' = DOMAIN held \cup {"shared"}
        /\ \A nm \in DOMAIN held' \ {"buf"} : held'[nm][1] \in Fresh /\ held'[nm][2] \in Stream
    BY <2>1, <1>n, <1>t
  <2>3. pc = "shared" /\ mode' = mode /\ pc' = IF TwoStreams THEN "routed" ELSE "combine"
    BY <1>4 DEF SharedExperts
  <2> QED
    BY <2>2, <2>3, <1>c, <1>p DEF CallHeld, CallPlace, HeldNow, Outcome
<1>5. CASE RoutedExperts
  <2>1. PICK b \in Fresh : Takes("routed", "main", b)
    BY <1>5, RoutedIssues
  <2>2. /\ DOMAIN held' = DOMAIN held \cup {"routed"}
        /\ \A nm \in DOMAIN held' \ {"buf"} : held'[nm][1] \in Fresh /\ held'[nm][2] \in Stream
    BY <2>1, <1>n, <1>t
  <2>3. pc = "routed" /\ mode' = mode /\ pc' = IF Has /\ ~TwoStreams THEN "shared" ELSE "combine"
    BY <1>5 DEF RoutedExperts
  <2> QED
    BY <2>2, <2>3, <1>c, <1>p DEF CallHeld, CallPlace, HeldNow, Outcome
<1>6. CASE Combine
  <2>0. pc = "combine" /\ mode' = mode /\ pc' = "return"
    BY <1>6, Ends DEF Ending
  <2>q. ASSUME DOMAIN held' = DOMAIN held \/ \E nm \in Outcome : DOMAIN held' = DOMAIN held \cup {nm},
               \A nm \in DOMAIN held' \ {"buf"} : held'[nm][1] \in Fresh /\ held'[nm][2] \in Stream
        PROVE  CallHeld'
    <3>1. DOMAIN held' \ Outcome = DOMAIN held \ Outcome
      BY <2>q
    <3> QED
      BY <3>1, <2>0, <2>q, <1>c, <1>p DEF CallHeld, HeldNow
  <2>1. CASE UNCHANGED held
    BY <2>1, <2>q, <1>p DEF CallHeld
  <2>2. CASE held' = With(held, "buf", <<Own.ar, "none">>)
    <3>1. DOMAIN held' = DOMAIN held \cup {"buf"} /\ \A nm \in DOMAIN held \ {"buf"} : held'[nm] = held[nm]
      BY <2>2 DEF With
    <3> QED
      BY <3>1, <2>q, <1>p DEF CallHeld, Outcome
  <2>3. ASSUME NEW b \in Fresh, Takes("sum", "main", b) PROVE CallHeld'
    <3>1. /\ DOMAIN held' = DOMAIN held \cup {"sum"}
          /\ \A nm \in DOMAIN held' \ {"buf"} : held'[nm][1] \in Fresh /\ held'[nm][2] \in Stream
      BY <2>3, <1>n, <1>t
    <3> QED
      BY <3>1, <2>q DEF Outcome
  <2> QED
    BY <1>6, <2>1, <2>2, <2>3, CombineIssues
<1>7. CASE Return
  <2>1. pc' = "idle" /\ held' = <<>>
    BY <1>7 DEF Return
  <2>2. DOMAIN held' = {}
    BY <2>1
  <2> QED
    BY <2>1, <2>2, <1>c DEF CallHeld, HeldNow, Outcome
<1>8. Replay \/ Finished \/ PostLoad \/ Resume \/ UNCHANGED layerVars => UNCHANGED <<pc, mode, held>>
  BY DEF Replay, PostLoad, Resume, Finished, vars, layerVars
<1>9. ASSUME NEW l \in BOOLEAN, LoadSink(l) PROVE UNCHANGED <<pc, mode, held>>
  BY <1>9 DEF LoadSink
<1> QED
  BY <1>u, <1>1, <1>2, <1>3, <1>4, <1>5, <1>6, <1>7, <1>8, <1>9 DEF Next

\* Together: every step keeps what is known of the call under way.
LEMMA CallStep ==
  ASSUME TypeOK, CallInv, Next
  PROVE  CallInv'
BY CallPlaceStep, CallHeldStep, CallGateStep DEF CallPlace, CallHeld, CallGate, CallGraph, CallInv

\* Types and call are right before the first step,
LEMMA CallInit ==
  ASSUME Init
  PROVE  TypeOK /\ CallInv
<1>1. DeviceTypeOK
  <2>0. DeviceInit /\ Blocks \in Nat
    BY LayerAssumption DEF Init
  <2>1. mem \in [Block -> (Names \cup {"junk"}) \X Nat]
    BY <2>0 DEF DeviceInit, Junk, Block
  <2>2. lane \in Queue /\ graph \in Seq(WorkList)
    BY <2>0 DEF DeviceInit, Queue
  <2>3. fired = {} /\ top \in 5 .. 5 + Blocks /\ epoch = 0 /\ run = 0
    BY <2>0 DEF DeviceInit
  <2>4. free \in [Pool \X Stream -> SUBSET Fresh]
    BY <2>0 DEF DeviceInit
  <2>5. fired \subseteq Event \X Nat /\ epoch \in Nat /\ run \in Nat
    BY <2>3
  <2> QED
    BY <2>1, <2>2, <2>3, <2>4, <2>5 DEF DeviceTypeOK, Queue, Entry, WorkList
<1>2. CallTypeOK
  <2>1. /\ cfg \in Configs /\ sink \in {"ready", "none"} /\ linear = FALSE /\ idsBuilt = FALSE
        /\ warm = FALSE /\ pc = "idle" /\ mode = "eager" /\ routing = None /\ captured = None
        /\ parts = <<>>
    BY DEF Init
  <2>2. DOMAIN parts = {}
    BY <2>1
  <2> QED
    BY <2>1, <2>2 DEF CallTypeOK
<1>3. HeldTypeOK
  BY DEF Init, HeldTypeOK
<1>4. CallInv
  BY DEF Init, CallInv, HeldNow, Outcome, Capturing, TwoStreams, Has
<1> QED
  BY <1>1, <1>2, <1>3, <1>4, TypeParts

\* Nothing happens: all of the state stays.
LEMMA CallStutter ==
  ASSUME TypeOK, CallInv, UNCHANGED vars
  PROVE  TypeOK' /\ CallInv'
<1>1. CallTypeOK' /\ HeldTypeOK'
  BY DEF vars, layerVars, TypeOK, CallTypeOK, HeldTypeOK
<1>2. DeviceTypeOK'
  BY DEF vars, deviceVars, TypeOK, DeviceTypeOK
<1>3. CallInv'
  <2>2. cfg' = cfg /\ UNCHANGED <<pc, mode, held, gate, captured, routing, graph, sink, stash>>
    BY DEF vars, layerVars, deviceVars
  <2>3. /\ (Has' <=> Has) /\ (CloneSink' <=> CloneSink) /\ (Shortcut' <=> Shortcut)
        /\ (TwoStreams' <=> TwoStreams) /\ FusedGate' = FusedGate /\ PlainGate' = PlainGate
    BY <2>2, SameConfig, SameGate
  <2>4. CallPlace' /\ CallGate' /\ CallGraph'
    BY <2>2, <2>3 DEF CallInv, CallPlace, CallGate, CallGraph, Capturing
  <2>5. CallHeld'
    BY <2>2, <2>3 DEF CallInv, CallHeld, HeldNow
  <2> QED
    BY <2>4, <2>5 DEF CallInv, CallPlace, CallHeld, CallGate, CallGraph
<1> QED
  BY <1>1, <1>2, <1>3 DEF TypeOK, CallTypeOK, HeldTypeOK

\* Whatever happens, the state keeps its types and a call its place in forward.
THEOREM CallCorrect == Spec => [](TypeOK /\ CallInv)
<1>1. TypeOK /\ CallInv /\ [Next]_vars => (TypeOK /\ CallInv)'
  BY TypeStep, CallStep, CallStutter
<1>2. Init => TypeOK /\ CallInv
  BY CallInit
<1> QED
  BY <1>1, <1>2, PTL DEF Spec

\* Queues, graphs, blocks and what a call holds are what they should be.
THEOREM TypeCorrect == Spec => []TypeOK
<1>1. TypeOK /\ CallInv => TypeOK
  OBVIOUS
<1> QED
  BY <1>1, CallCorrect, PTL

\* Weights are numbers, and none is zero.
LEMMA WeightNumbers == \A w \in WeightBits : w \in Nat \ {0}
BY DEF WeightBits

\* Where none of the three mismatches is, no call fails.
LEMMA NothingRaisedNow ==
  ASSUME TypeOK, CallInv
  PROVE  NothingRaised
<1> SUFFICES ASSUME Servable, Fails PROVE FALSE
  BY DEF NothingRaised
<1>1. pc \notin {"idle", "gate"}
  BY DEF Fails
<1>2. gate = (IF Shortcut THEN FusedGate ELSE PlainGate) /\ routing \in Routings[cfg] /\ cfg \in Configs
  BY <1>1 DEF CallInv, TypeOK
<1>3. /\ IsRouting(routing) /\ IsWeighed(routing)
      /\ None \notin [DOMAIN routing -> [DOMAIN routing[0] -> Nat]]
      /\ None \notin [DOMAIN routing -> [0 .. Shared - 1 -> Nat]]
      /\ {Ranks, Experts, Shared} \subseteq Nat \ {0}
  BY <1>2, LayerAssumption
<1>4. Picks = DOMAIN routing[0]
  BY <1>3 DEF Picks, TopK, IsRouting, IsIndexed
<1>9. \A t \in Tokens : \A k \in Picks : routing[t][k] \in Nat /\ Weight[t][routing[t][k]] \in Nat
  <2> SUFFICES ASSUME NEW t \in Tokens, NEW k \in Picks
               PROVE  routing[t][k] \in Nat /\ Weight[t][routing[t][k]] \in Nat
    OBVIOUS
  <2>1. routing[t][k] \in 0 .. Experts - 1
    BY <1>3, <1>4 DEF Tokens, IsRouting
  <2>2. routing[t][k] \in 0 .. Experts + Shared - 1
    BY <2>1, <1>3
  <2>3. Weight[t][routing[t][k]] \in WeightBits
    BY <2>2, <1>3 DEF Tokens, IsWeighed
  <2> QED
    BY <2>1, <2>3, WeightNumbers
<1>5. RoutedColumns # None
  <2>2. RoutedColumns \in [DOMAIN routing -> [DOMAIN routing[0] -> Nat]]
    BY <1>9, <1>4 DEF RoutedColumns, Tokens
  <2> QED
    BY <2>2, <1>3
<1>6. cfg.shared /\ cfg.sink => SharedColumns # None
  <2> SUFFICES ASSUME cfg.shared /\ cfg.sink PROVE SharedColumns # None
    OBVIOUS
  <2>1. GateShared = Shared /\ GateShared # 0
    BY <1>3 DEF GateShared
  <2>2. \A t \in Tokens : \A s \in 0 .. GateShared - 1 :
          Weight[t][(Experts + GateShared) - GateShared + s] \in Nat
    <3> SUFFICES ASSUME NEW t \in Tokens, NEW s \in 0 .. GateShared - 1
                 PROVE  Weight[t][(Experts + GateShared) - GateShared + s] \in Nat
      OBVIOUS
    <3>1. (Experts + GateShared) - GateShared + s \in 0 .. Experts + Shared - 1
      BY <1>3, <2>1
    <3>2. Weight[t][(Experts + GateShared) - GateShared + s] \in WeightBits
      BY <3>1, <1>3 DEF Tokens, IsWeighed
    <3> QED
      BY <3>2, WeightNumbers
  <2>3. SharedColumns =
          [t \in Tokens |->
             [s \in 0 .. GateShared - 1 |-> Weight[t][(Experts + GateShared) - GateShared + s]]]
    BY <2>1 DEF SharedColumns
  <2>4. SharedColumns \in [DOMAIN routing -> [0 .. GateShared - 1 -> Nat]]
    BY <2>2, <2>3 DEF Tokens
  <2> QED
    BY <2>1, <2>4, <1>3
<1>7. CASE pc = "shared" /\ cfg.sink /\ gate.gammas = None
  <2>1. cfg.shared
    BY <1>7 DEF CallInv, Has, SharedKind
  <2>2. cfg.norm
    BY <1>7, <2>1 DEF Servable
  <2> QED
    BY <1>2, <1>6, <1>7, <2>1, <2>2 DEF FusedGate, PlainGate
<1>8. CASE pc = "routed" /\ gate.weights = None /\ (Native \/ gate.packed = None)
  <2>1. gate.weights # None \/ (Shortcut /\ EmitPacked)
    BY <1>2, <1>5 DEF FusedGate, PlainGate
  <2>2. Shortcut /\ EmitPacked
    BY <2>1, <1>8
  <2>3. ~Native
    BY <2>2 DEF Native, EmitPacked
  <2>4. gate.packed = Packed(routing)
    BY <1>2, <2>2 DEF FusedGate
  <2>5. \A t \in Tokens : \A k \in Picks : Word(routing[t][k], Weight[t][routing[t][k]]) \in Nat
    BY <1>9 DEF Word
  <2>6. Packed(routing) \in [DOMAIN routing -> [DOMAIN routing[0] -> Nat]]
    BY <2>5, <1>4 DEF Packed, Tokens
  <2> QED
    BY <1>3, <1>8, <2>3, <2>4, <2>6
<1>10. ~(SharedKind \in {"bmm", "fp4"} /\ ~cfg.interleaved)
  BY DEF Servable
<1>11. CASE pc = "routed" /\ ~Native /\ gate.packed # None /\ ~cfg.unpacks
  <2>1. Shortcut /\ EmitPacked
    BY <1>2, <1>11 DEF FusedGate, PlainGate
  <2> QED
    BY <1>11, <2>1 DEF Servable
<1> QED
  BY <1>7, <1>8, <1>10, <1>11 DEF Fails

\* A call fails only where the gate of a sink does not normalise, where a sink
\* that needs w13 interleaved has it otherwise, or where a runner that cannot
\* unpack is given packed top-k.  In every other configuration the constructors
\* accept, whatever is routed, gammas, ids and weights are there when used.
THEOREM NeverRaises == Spec => []NothingRaised
BY CallCorrect, NothingRaisedNow, PTL

-----------------------------------------------------------------------------
(* Weights.                                                                *)

\* Where the pieces of work come from that are there after a step.
LEMMA IssuesPieces ==
  ASSUME TypeOK, CallInv, pc # "idle", NEW w \in WorkList, Issues(w)
  PROVE  /\ \A s \in Stream : \A i \in DOMAIN lane'[s] :
              \/ \E k \in DOMAIN lane[s] : lane'[s][i] = lane[s][k]
              \/ \E k \in DOMAIN w[s] : lane'[s][i].work = w[s][k] /\ lane'[s][i].run = run
         /\ \A g \in DOMAIN graph' : g \in DOMAIN graph /\ \A s \in Stream : \A i \in DOMAIN graph'[g][s] :
              \/ \E k \in DOMAIN graph[g][s] : graph'[g][s][i] = graph[g][s][k]
              \/ \E k \in DOMAIN w[s] : graph'[g][s][i] = w[s][k]
<1>1. /\ lane \in Queue /\ graph \in Seq(WorkList) /\ run \in Nat
      /\ lane' \in Queue /\ graph' \in Seq(WorkList)
  BY IssuesAdds, DeviceTypes DEF TypeOK
<1>m. /\ Marked(w, run) \in Queue
      /\ \A s \in Stream : /\ DOMAIN Marked(w, run)[s] = DOMAIN w[s]
                           /\ \A i \in DOMAIN w[s] : /\ Marked(w, run)[s][i].work = w[s][i]
                                                     /\ Marked(w, run)[s][i].run = run
  BY <1>1, MarkedIndex
<1>2. CASE mode = "capture"
  <2>1. /\ lane' = lane /\ Len(graph') = Len(graph) /\ Len(graph) > 0
        /\ \A g \in 1 .. Len(graph) - 1 : graph'[g] = graph[g]
        /\ \A s \in Stream : graph'[Len(graph)][s] = graph[Len(graph)][s] \o w[s]
    BY <1>2, IssuesAdds
  <2>2. ASSUME NEW g \in DOMAIN graph', NEW s \in Stream, NEW i \in DOMAIN graph'[g][s]
        PROVE  /\ g \in DOMAIN graph
               /\ \/ \E k \in DOMAIN graph[g][s] : graph'[g][s][i] = graph[g][s][k]
                  \/ \E k \in DOMAIN w[s] : graph'[g][s][i] = w[s][k]
    <3>1. g \in 1 .. Len(graph) /\ g \in DOMAIN graph
      BY <1>1, <2>1
    <3>2. CASE g # Len(graph)
      BY <3>1, <3>2, <2>1, <2>2
    <3>3. CASE g = Len(graph)
      <4>1. graph[g] \in WorkList
        BY <3>1, <1>1
      <4>2. graph[g][s] \in Seq(Pieces) /\ w[s] \in Seq(Pieces)
        BY <4>1 DEF WorkList
      <4>3. Behind(graph[g][s], w[s], graph'[g][s])
        BY <4>2, <3>3, <2>1, ConcatIndex
      <4> QED
        BY <4>3, <3>1, <2>2 DEF Behind
    <3> QED
      BY <3>2, <3>3
  <2>3. DOMAIN graph' = DOMAIN graph
    BY <1>1, <2>1
  <2> QED
    BY <2>1, <2>2, <2>3
<1>3. CASE mode # "capture"
  <2>1. graph' = graph /\ Added(lane, lane', Marked(w, run))
    <3>1. ~Capturing
      BY <1>3 DEF Capturing
    <3> QED
      BY <1>3, <3>1, IssuesAdds DEF Queued, Later, ThisRun
  <2>2. ASSUME NEW s \in Stream, NEW i \in DOMAIN lane'[s]
        PROVE  \/ \E k \in DOMAIN lane[s] : lane'[s][i] = lane[s][k]
               \/ \E k \in DOMAIN w[s] : lane'[s][i].work = w[s][k] /\ lane'[s][i].run = run
    <3>1. CASE i \in DOMAIN lane[s]
      BY <3>1, <2>1 DEF Added
    <3>2. CASE i \notin DOMAIN lane[s]
      <4>1. PICK k \in DOMAIN Marked(w, run)[s] : lane'[s][i] = Marked(w, run)[s][k]
        BY <3>2, <2>1, <1>1, <1>m, AddedIndex
      <4> QED
        BY <4>1, <1>m
    <3> QED
      BY <3>1, <3>2
  <2> QED
    BY <2>1, <2>2
<1> QED
  BY <1>2, <1>3

ListOK(from, l) == \A i \in DOMAIN l : PieceOK(from, l[i])
\* Lists of work are as good as their pieces.
LEMMA ListsOK ==
  /\ ListOK(SinkReads, <<>>)
  /\ \A a : PieceOK(SinkReads, a) => ListOK(SinkReads, <<a>>)
  /\ \A a, c \in Seq(Pieces) : ListOK(SinkReads, a) /\ ListOK(SinkReads, c) => ListOK(SinkReads, a \o c)
<1>1. ListOK(SinkReads, <<>>) /\ \A a : PieceOK(SinkReads, a) => ListOK(SinkReads, <<a>>)
  BY DEF ListOK
<1>2. ASSUME NEW a \in Seq(Pieces), NEW c \in Seq(Pieces), ListOK(SinkReads, a), ListOK(SinkReads, c)
      PROVE  ListOK(SinkReads, a \o c)
  <2>1. Behind(a, c, a \o c)
    BY ConcatIndex
  <2> SUFFICES ASSUME NEW i \in DOMAIN (a \o c) PROVE PieceOK(SinkReads, (a \o c)[i])
    BY DEF ListOK
  <2>2. i \in DOMAIN a \/ \E k \in DOMAIN c : i = Len(a) + k
    BY <2>1 DEF Behind
  <2> QED
    BY <2>1, <2>2, <1>2 DEF Behind, ListOK
<1> QED
  BY <1>1, <1>2

\* Pieces of work of a call.
LEMMA CallPiecesOK ==
  ASSUME TypeOK, CallInv, NEW names \in SUBSET DOMAIN held
  PROVE  /\ \A b \in Fresh : \A nm \in Passing : PieceOK(SinkReads, Work(Reads(names), {<<b, nm>>}))
         /\ PieceOK(SinkReads, Work(Reads(names), {}))
         /\ \A e : PieceOK(SinkReads, Fires(e)) /\ PieceOK(SinkReads, Waits(e))
         /\ \A b \in Fresh : PieceOK(SinkReads, Work({}, {<<b, "x">>}))
<1>1. DOMAIN held \cap Weights = {}
  BY DEF CallInv, HeldNow, Outcome, Weights
<1>2. \A o \in Reads(names) : o[2] \notin Weights
  BY <1>1 DEF Reads
<1>3. \A b \in Fresh : b >= Own.ar
  BY OwnBlocks DEF Block, Own
<1> QED
  BY <1>2, <1>3 DEF PieceOK, Work, Fires, Waits, Passing, Names, Weights

\* A step that enqueues proper work.
LEMMA IssuesOK ==
  ASSUME TypeOK, CallInv, WeightInv, pc # "idle", cfg' = cfg, NEW w \in WorkList, Issues(w),
         \A s \in Stream : ListOK(SinkReads, w[s]),
         UNCHANGED <<sink, mem, epoch>>, linear => linear'
  PROVE  WeightInv'
<1>1. SinkReads' = SinkReads /\ SharedKind' = SharedKind
  BY SameConfig
<1>2. /\ \A s \in Stream : \A i \in DOMAIN lane'[s] :
           \/ \E k \in DOMAIN lane[s] : lane'[s][i] = lane[s][k]
           \/ \E k \in DOMAIN w[s] : lane'[s][i].work = w[s][k]
      /\ \A g \in DOMAIN graph' : g \in DOMAIN graph /\ \A s \in Stream : \A i \in DOMAIN graph'[g][s] :
           \/ \E k \in DOMAIN graph[g][s] : graph'[g][s][i] = graph[g][s][k]
           \/ \E k \in DOMAIN w[s] : graph'[g][s][i] = w[s][k]
  BY IssuesPieces
<1>3. \A s \in Stream : \A k \in DOMAIN w[s] : PieceOK(SinkReads, w[s][k])
  BY DEF ListOK
<1>4. LaneOK'
  BY <1>1, <1>2, <1>3 DEF WeightInv, LaneOK
<1>5. GraphOK'
  BY <1>1, <1>2, <1>3 DEF WeightInv, GraphOK
<1>6. sink' = "ready"
  BY DEF CallInv
<1>7. SinkKept'
  BY <1>1 DEF WeightInv, SinkKept
<1> QED
  BY <1>4, <1>5, <1>6, <1>7 DEF WeightInv

\* No step of forward touches the weights of the sink, or reads others.
LEMMA WeightCalls ==
  ASSUME TypeOK, CallInv, WeightInv,
         Gate \/ Clone \/ SharedExperts \/ RoutedExperts \/ Combine \/ Return
  PROVE  WeightInv'
<1>1. pc # "idle" /\ cfg' = cfg /\ UNCHANGED <<sink, mem, epoch>> /\ (linear => linear')
  <2>1. pc # "idle" /\ Undisturbed
    BY Ends DEF Gate, Clone, SharedExperts, RoutedExperts, Ending, Return
  <2>2. linear \in BOOLEAN
    BY DEF TypeOK
  <2>3. linear => linear'
    BY <2>2, Ends DEF Gate, Clone, SharedExperts, RoutedExperts, Ending, Return
  <2> QED
    BY <2>1, <2>3 DEF Undisturbed
<1>2. SUFFICES \E w \in WorkList : Issues(w) /\ \A s \in Stream : ListOK(SinkReads, w[s])
  BY <1>1, IssuesOK
<1>e. /\ ListOK(SinkReads, <<>>) /\ <<>> \in Seq(Pieces)
      /\ ListOK(SinkReads, <<Fires("fork")>>) /\ ListOK(SinkReads, <<Waits("fork")>>)
      /\ ListOK(SinkReads, <<Fires("join")>>) /\ ListOK(SinkReads, <<Waits("join")>>)
  <2>1. {} \in SUBSET DOMAIN held
    OBVIOUS
  <2>2. \A e : PieceOK(SinkReads, Fires(e)) /\ PieceOK(SinkReads, Waits(e))
    BY <2>1, CallPiecesOK
  <2> QED
    BY <2>2, ListsOK
<1>t. /\ <<Fires("fork")>> \in Seq(Pieces) /\ <<Waits("fork")>> \in Seq(Pieces)
      /\ <<Fires("join")>> \in Seq(Pieces) /\ <<Waits("join")>> \in Seq(Pieces)
  BY PieceTypes DEF Event
<1>f. \A s \in Stream : /\ ListOK(SinkReads, Fork(s)) /\ Fork(s) \in Seq(Pieces)
                        /\ ListOK(SinkReads, Join(s)) /\ Join(s) \in Seq(Pieces)
  BY <1>e, <1>t DEF Fork, Join
<1>n. {"x", "gate", "sink", "shared", "routed", "sum", "buf"} \subseteq Passing
  BY DEF Passing, Names, Weights
<1>3. CASE Gate
  <2>1. PICK b \in Fresh : GateWork(b) \in WorkList /\ Issues(GateWork(b))
    BY <1>3, GateIssues
  <2>2. {"x"} \subseteq DOMAIN held
    BY <1>3, HeldNames DEF Gate
  <2> DEFINE l == <<Work(Reads({"x"}), {<<b, "gate">>})>>
  <2>3. ListOK(SinkReads, l)
    BY <2>2, <1>n, CallPiecesOK, ListsOK
  <2>4. l \in Seq(Pieces)
    BY <2>2, <1>n, ReadsType, OwnBlocks, PieceTypes DEF Passing
  <2>5. \A s \in Stream : GateWork(b)[s] = (IF s = "main" THEN l ELSE <<>>) \o Fork(s)
    BY DEF GateWork
  <2> HIDE DEF l
  <2>6. \A s \in Stream : ListOK(SinkReads, GateWork(b)[s])
    BY <2>3, <2>4, <2>5, <1>e, <1>f, ListsOK
  <2> QED
    BY <2>1, <2>6
<1>4. CASE Clone
  <2>1. PICK b \in Fresh : CloneWork(b) \in WorkList /\ Issues(CloneWork(b))
    BY <1>4, CloneIssues
  <2>2. {"x"} \subseteq DOMAIN held
    BY <1>4, HeldNames DEF Clone
  <2>3. ListOK(SinkReads, <<Work(Reads({"x"}), {<<b, "sink">>})>>)
    BY <2>2, <1>n, CallPiecesOK, ListsOK
  <2>4. \A s \in Stream : CloneWork(b)[s] \in {<<>>, <<Work(Reads({"x"}), {<<b, "sink">>})>>}
    BY DEF CloneWork, Empty
  <2> QED
    BY <2>1, <2>3, <2>4, <1>e
<1>5. CASE SharedExperts
  <2>1. PICK b \in Fresh : SharedWork(b) \in WorkList /\ Issues(SharedWork(b))
    BY <1>5, SharedIssues
  <2>2. Stacks = <<>>
    BY <1>5 DEF SharedExperts, CallInv, WeightInv, SinkKept, Stacks
  <2>3. ListOK(SinkReads, Builds) /\ Builds \in Seq(Pieces)
    <3>1. PieceOK(SinkReads, Work({}, {<<Own.ids, "ids">>}))
      BY DEF PieceOK, Work
    <3>2. Work({}, {<<Own.ids, "ids">>}) \in Pieces
      BY OwnBlocks, PieceTypes DEF Names
    <3> QED
      BY <3>1, <3>2, <1>e, ListsOK DEF Builds
  <2> DEFINE names == (IF "sink" \in DOMAIN held THEN {"sink"} ELSE {"x"})
                        \cup (IF cfg.sink THEN {"gate"} ELSE {})
             a == Work(SharedReads, {<<b, "shared">>})
  <2>4. PieceOK(SinkReads, a)
    <3>1. names \in SUBSET DOMAIN held
      BY <1>5, HeldNames DEF SharedExperts
    <3>2. PieceOK(SinkReads, Work(Reads(names), {<<b, "shared">>}))
      BY <3>1, <1>n, CallPiecesOK
    <3>3. \A o \in SharedReads : o \in Reads(names) \/ o \in SinkReads \/ o[2] = "ids"
      BY DEF SharedReads
    <3> QED
      BY <3>2, <3>3 DEF PieceOK, Work, Weights
  <2>5. a \in Pieces
    <3>1. names \in SUBSET DOMAIN held
      BY <1>5, HeldNames DEF SharedExperts
    <3>2. Reads(names) \subseteq Block \X Names
      BY <3>1, ReadsType
    <3>3. SharedReads \subseteq Block \X Names
      BY <3>2, OwnBlocks DEF SharedReads, Names
    <3> QED
      BY <3>3, <1>n, OwnBlocks, PieceTypes DEF Passing
  <2>6. \A s \in Stream : SharedWork(b)[s] \in {<<>>, Builds \o Stacks \o <<a>>}
    BY DEF SharedWork, Empty
  <2> HIDE DEF a
  <2>7. ListOK(SinkReads, <<a>>) /\ <<a>> \in Seq(Pieces)
    BY <2>4, <2>5, ListsOK
  <2>8. ListOK(SinkReads, Builds \o Stacks) /\ Builds \o Stacks \in Seq(Pieces)
    BY <2>2, <2>3, <1>e, ListsOK, ConcatProperties
  <2>9. ListOK(SinkReads, Builds \o Stacks \o <<a>>)
    BY <2>7, <2>8, ListsOK
  <2> QED
    BY <2>1, <2>6, <2>9, <1>e
<1>6. CASE RoutedExperts
  <2>1. PICK b \in Fresh : RoutedWork(b) \in WorkList /\ Issues(RoutedWork(b))
    BY <1>6, RoutedIssues
  <2>2. {"x", "gate"} \subseteq DOMAIN held
    BY <1>6, HeldNames DEF RoutedExperts
  <2> DEFINE l == <<Work(Reads({"x", "gate"}), {<<b, "routed">>})>>
  <2>3. ListOK(SinkReads, l)
    BY <2>2, <1>n, CallPiecesOK, ListsOK
  <2>4. l \in Seq(Pieces)
    BY <2>2, <1>n, ReadsType, OwnBlocks, PieceTypes DEF Passing
  <2>5. \A s \in Stream : RoutedWork(b)[s] = (IF s = "main" THEN l ELSE <<>>) \o Join(s)
    BY DEF RoutedWork
  <2> HIDE DEF l
  <2>6. \A s \in Stream : ListOK(SinkReads, RoutedWork(b)[s])
    BY <2>3, <2>4, <2>5, <1>e, <1>f, ListsOK
  <2> QED
    BY <2>1, <2>6
<1>o. ASSUME NEW l, ListOK(SinkReads, l)
      PROVE  \A s \in Stream : ListOK(SinkReads, OnMain(l)[s])
  <2>1. \A s \in Stream : OnMain(l)[s] \in {<<>>, l}
    BY DEF OnMain, Empty
  <2> QED
    BY <2>1, <1>o, <1>e
<1>7. CASE Combine
  <2>1. Whole \in SUBSET DOMAIN held
    BY <1>7, HeldNames, Ends DEF Ending, Whole
  <2>2. /\ \A nm \in Passing : \A b \in Fresh : PieceOK(SinkReads, Work(Reads(Whole), {<<b, nm>>}))
        /\ PieceOK(SinkReads, Work(Reads(Whole), {}))
    BY <2>1, CallPiecesOK
  <2>3. PieceOK(SinkReads, Add)
    <3>1. Own.ar >= Own.ar
      BY DEF Own
    <3> QED
      BY <2>2, <3>1, <1>n DEF Add, PieceOK, Work
  <2>4. \A b \in Fresh : PieceOK(SinkReads, Work({<<Own.ar, "buf">>}, {<<b, "sum">>}))
    BY <2>2, <1>n DEF PieceOK, Work, Weights
  <2>5. ListOK(SinkReads, <<Add>>)
    BY <2>3, ListsOK
  <2>6. \A b \in Fresh : ListOK(SinkReads, Sum(b))
    <3> TAKE b \in Fresh
    <3> DEFINE a == Work({<<Own.ar, "buf">>}, {<<b, "sum">>})
               c == Work(Reads(Whole), {<<b, "sum">>})
    <3>1. ListOK(SinkReads, <<a>>) /\ ListOK(SinkReads, <<c>>)
      BY <2>2, <2>4, <1>n, ListsOK
    <3>2. ListOK(SinkReads, <<Add, a>>)
      BY <2>3, <2>4 DEF ListOK
    <3> QED
      BY <3>1, <3>2 DEF Sum
  <2> QED
    BY <1>7, <1>e, <1>o, <2>5, <2>6, CombineIssues
<1>8. CASE Return
  <2>1. ReturnWork \in WorkList /\ Issues(ReturnWork) /\ Result \in SUBSET DOMAIN held
    BY <1>8, ReturnIssues
  <2>2. PieceOK(SinkReads, Work(Reads(Result), {}))
    BY <2>1, CallPiecesOK
  <2>3. ListOK(SinkReads, <<Work(Reads(Result), {})>>)
    BY <2>2, ListsOK
  <2> QED
    BY <2>1, <2>3, <1>o DEF ReturnWork
<1> QED
  BY <1>3, <1>4, <1>5, <1>6, <1>7, <1>8

\* The device leaves parameters alone.
LEMMA WeightDevice ==
  ASSUME TypeOK, WeightInv, NEW s0 \in Stream, Execute(s0), UNCHANGED layerVars
  PROVE  WeightInv'
<1>1. lane \in Queue /\ mem \in [Block -> (Names \cup {"junk"}) \X Nat] /\ lane[s0] # <<>>
  BY DeviceTypes DEF TypeOK, Execute, Runnable
<1>2. /\ lane' = [lane EXCEPT ![s0] = Tail(lane[s0])] /\ UNCHANGED <<graph, epoch>>
      /\ mem' = [b \in DOMAIN mem |->
                   IF \E o \in Head(lane[s0]).work.writes : o[1] = b
                     THEN Meant((CHOOSE o \in Head(lane[s0]).work.writes : o[1] = b)[2],
                                Head(lane[s0]).run)
                     ELSE mem[b]]
  BY DEF Execute
<1>3. Rest(lane, lane', s0) /\ Head(lane[s0]) = lane[s0][1]
  BY <1>1, <1>2, TailIsRest
<1>4. cfg' = cfg /\ sink' = sink /\ linear' = linear
  BY DEF layerVars
<1>5. SinkReads' = SinkReads /\ SharedKind' = SharedKind
  BY <1>4, SameConfig
<1>6. LaneOK'
  BY <1>3, <1>5 DEF Rest, WeightInv, LaneOK
<1>7. GraphOK'
  BY <1>2, <1>5 DEF WeightInv, GraphOK
<1>8. lane # Empty
  BY <1>1 DEF Empty
<1>9. \A b \in {Own.w2, Own.w2lin, Own.fp4} : mem'[b] = mem[b]
  <2>1. 1 \in DOMAIN lane[s0]
    BY <1>3 DEF Rest
  <2>2. PieceOK(SinkReads, Head(lane[s0]).work)
    BY <2>1, <1>3 DEF WeightInv, LaneOK
  <2>3. \A o \in Head(lane[s0]).work.writes : o[1] \notin {Own.w2, Own.w2lin, Own.fp4}
    BY <2>2 DEF PieceOK, Own
  <2> QED
    BY <2>3, <1>1, <1>2, OwnBlocks
<1>10. SinkKept'
  BY <1>2, <1>4, <1>5, <1>9 DEF WeightInv, SinkKept
<1> QED
  BY <1>4, <1>6, <1>7, <1>8, <1>10 DEF WeightInv

\* A new call: it writes its input, in its own block.
LEMMA WeightBegin ==
  ASSUME TypeOK, CallInv, WeightInv, NEW m \in {"eager", "warmup", "capture"}, NEW i, Begin(m, i)
  PROVE  WeightInv'
<1>1. PICK b \in Fresh :
        /\ BeginWork(b) \in WorkList /\ BeginWork(b)["main"] = <<Work({}, {<<b, "x">>})>>
        /\ BeginWork(b)["alt"] = <<>>
        /\ m = "capture" => graph' = Append(graph, BeginWork(b)) /\ lane' = lane
        /\ m # "capture" => /\ lane' = [s \in Stream |-> lane[s] \o Marked(BeginWork(b), run + 1)[s]]
                            /\ graph' = graph
  BY BeginIssues
<1>2. UNCHANGED <<mem, epoch, cfg, sink, linear>> /\ sink = "ready"
  BY DEF Begin, Undisturbed
<1>3. SinkReads' = SinkReads /\ SharedKind' = SharedKind
  BY <1>2, SameConfig
<1>4. lane \in Queue /\ graph \in Seq(WorkList) /\ run \in Nat
  BY DeviceTypes DEF TypeOK
<1>5. \A s \in Stream : \A k \in DOMAIN BeginWork(b)[s] : PieceOK(SinkReads, BeginWork(b)[s][k])
  <2>1. {} \in SUBSET DOMAIN held
    OBVIOUS
  <2>2. PieceOK(SinkReads, Work({}, {<<b, "x">>}))
    BY <2>1, CallPiecesOK
  <2> QED
    BY <2>2, <1>1 DEF Stream
<1> DEFINE N == Marked(BeginWork(b), run + 1)
<1>6. /\ N \in Queue
      /\ \A s \in Stream : /\ DOMAIN N[s] = DOMAIN BeginWork(b)[s]
                           /\ \A k \in DOMAIN BeginWork(b)[s] : N[s][k].work = BeginWork(b)[s][k]
  BY <1>1, <1>4, MarkedIndex
<1> HIDE DEF N
<1>7. LaneOK'
  <2>1. CASE m = "capture"
    BY <2>1, <1>1, <1>3 DEF WeightInv, LaneOK
  <2>2. CASE m # "capture"
    <3>1. lane' = [s \in Stream |-> lane[s] \o N[s]]
      BY <2>2, <1>1 DEF N
    <3>2. lane' \in Queue /\ Added(lane, lane', N)
      BY <3>1, <1>4, <1>6, ConcatAdds
    <3>3. ASSUME NEW s \in Stream, NEW k \in DOMAIN lane'[s]
          PROVE  PieceOK(SinkReads, lane'[s][k].work)
      BY <3>2, <1>4, <1>5, <1>6, AddedIndex DEF WeightInv, LaneOK
    <3> QED
      BY <3>3, <1>3 DEF LaneOK
  <2> QED
    BY <2>1, <2>2
<1>8. GraphOK'
  <2>1. CASE m # "capture"
    BY <2>1, <1>1, <1>3 DEF WeightInv, GraphOK
  <2>2. CASE m = "capture"
    <3>1. /\ graph' = Append(graph, BeginWork(b)) /\ Len(graph') = Len(graph) + 1
          /\ \A g \in 1 .. Len(graph) : graph'[g] = graph[g]
          /\ graph'[Len(graph) + 1] = BeginWork(b) /\ graph' \in Seq(WorkList)
      BY <2>2, <1>1, <1>4, AppendProperties
    <3>2. DOMAIN graph' = 1 .. Len(graph) + 1 /\ DOMAIN graph = 1 .. Len(graph) /\ Len(graph) \in Nat
      BY <3>1, <1>4
    <3>3. ASSUME NEW g \in DOMAIN graph', NEW s \in Stream, NEW k \in DOMAIN graph'[g][s]
          PROVE  PieceOK(SinkReads, graph'[g][s][k])
      <4>1. CASE g \in 1 .. Len(graph)
        BY <4>1, <3>1, <3>2, <3>3 DEF WeightInv, GraphOK
      <4>2. CASE g = Len(graph) + 1
        BY <4>2, <3>1, <3>3, <1>5
      <4> QED
        BY <4>1, <4>2, <3>2
    <3> QED
      BY <3>3, <1>3 DEF GraphOK
  <2> QED
    BY <2>1, <2>2
<1>9. SinkKept'
  BY <1>2, <1>3 DEF WeightInv, SinkKept
<1> QED
  BY <1>2, <1>7, <1>8, <1>9 DEF WeightInv

\* A replay reads the weights that its capture read, where they are kept.
LEMMA WeightReplay ==
  ASSUME TypeOK, CallInv, WeightInv, Replay
  PROVE  WeightInv'
<1>1. PICK g \in DOMAIN graph : lane' = [s \in Stream |-> lane[s] \o Marked(graph[g], run')[s]]
  BY DEF Replay
<1>2. UNCHANGED <<mem, epoch, cfg, sink, linear, graph>> /\ sink = "ready" /\ run' = run + 1
  BY DEF Replay, layerVars
<1>3. SinkReads' = SinkReads /\ SharedKind' = SharedKind
  BY <1>2, SameConfig
<1>4. lane \in Queue /\ graph[g] \in WorkList /\ run' \in Nat
  BY <1>2, DeviceTypes DEF TypeOK
<1> DEFINE N == Marked(graph[g], run')
<1>6. /\ N \in Queue
      /\ \A s \in Stream : /\ DOMAIN N[s] = DOMAIN graph[g][s]
                           /\ \A k \in DOMAIN graph[g][s] : N[s][k].work = graph[g][s][k]
  BY <1>4, MarkedIndex
<1>5. lane' = [s \in Stream |-> lane[s] \o N[s]]
  BY <1>1
<1> HIDE DEF N
<1>7. lane' \in Queue /\ Added(lane, lane', N)
  BY <1>4, <1>5, <1>6, ConcatAdds
<1>8. ASSUME NEW s \in Stream, NEW k \in DOMAIN lane'[s]
      PROVE  PieceOK(SinkReads, lane'[s][k].work)
  <2>1. CASE k \in DOMAIN lane[s] /\ lane'[s][k] = lane[s][k]
    BY <2>1 DEF WeightInv, LaneOK
  <2>2. ASSUME NEW n \in DOMAIN N[s], lane'[s][k] = N[s][n]
        PROVE  PieceOK(SinkReads, lane'[s][k].work)
    BY <2>2, <1>6 DEF WeightInv, GraphOK
  <2> QED
    BY <2>1, <2>2, <1>4, <1>6, <1>7, <1>8, AddedIndex
<1>9. LaneOK' /\ GraphOK' /\ SinkKept'
  BY <1>2, <1>3, <1>8 DEF WeightInv, LaneOK, GraphOK, SinkKept
<1> QED
  BY <1>2, <1>9 DEF WeightInv

\* Loading, post-processing and resuming keep the copies in step.
LEMMA WeightLoads ==
  ASSUME TypeOK, CallInv, WeightInv,
         (\E l \in BOOLEAN : LoadSink(l)) \/ PostLoad \/ Resume
  PROVE  WeightInv'
<1>1. UNCHANGED <<lane, graph, cfg>> /\ lane = Empty
  BY DEF LoadSink, PostLoad, Resume, Still
<1>2. SinkReads' = SinkReads /\ SharedKind' = SharedKind
  BY <1>1, SameConfig
<1>3. LaneOK' /\ GraphOK'
  BY <1>1, <1>2 DEF WeightInv, LaneOK, GraphOK
<1>4. lane' = Empty
  BY <1>1
<1>5. /\ DOMAIN mem = Block /\ {Own.w2, Own.w2lin, Own.fp4} \subseteq Block /\ epoch \in Nat
      /\ Own.w2 # Own.w2lin /\ Own.w2 # Own.fp4 /\ Own.w2lin # Own.fp4
  <2>1. Own.w2 # Own.w2lin /\ Own.w2 # Own.fp4 /\ Own.w2lin # Own.fp4
    BY DEF Own
  <2> QED
    BY <2>1, OwnBlocks, DeviceTypes DEF TypeOK
<1> DEFINE a == Own.w2
           b == Own.w2lin
           c == Own.fp4
<1> HIDE DEF a, b, c
<1>d. {a, b, c} \subseteq DOMAIN mem /\ a # b /\ a # c /\ b # c
  BY <1>5 DEF a, b, c
<1>k. SinkKept' <=>
        /\ sink' \in {"loaded", "ready"} /\ SharedKind \notin {"none", "fp4"} => mem'[a] = <<"w2", epoch'>>
        /\ sink' = "loaded" /\ SharedKind = "fp4" => mem'[a] = <<"w2", epoch'>>
        /\ sink' = "ready" /\ SharedKind = "linear" => linear' /\ mem'[b] = <<"w2lin", epoch'>>
        /\ sink' = "ready" /\ SharedKind = "fp4" /\ epoch' = 1 => mem'[c] = <<"fp4", epoch'>>
        /\ SharedKind # "none" /\ sink' # "none" => epoch' >= 1
  BY <1>2 DEF SinkKept, a, b, c
<1>s. SinkKept
  BY DEF WeightInv
<1>6. ASSUME NEW l \in BOOLEAN, LoadSink(l) PROVE SinkKept'
  <2>1. /\ mem' = IF Deaf THEN mem
                   ELSE [mem EXCEPT ![a] = <<"w2", epoch'>>,
                           ![b] = IF l /\ Refreshes THEN <<"w2lin", epoch'>> ELSE @]
        /\ sink = "none" \/ l
        /\ sink' = IF sink = "none" THEN "loaded" ELSE "ready"
        /\ l /\ Refreshes => linear'
        /\ epoch' = epoch + 1 /\ Has
    BY <1>6 DEF LoadSink, a, b
  <2>2. epoch' >= 1
    BY <2>1, <1>5
  <2>3. CASE Deaf
    <3>1. SharedKind = "fp4" /\ sink # "none" /\ sink' = "ready"
      BY <2>1, <2>3 DEF Deaf
    <3>2. epoch >= 1
      BY <3>1, <1>s DEF SinkKept
    <3>3. epoch' # 1
      BY <3>2, <2>1, <1>5
    <3> QED
      BY <3>1, <3>3, <2>2, <1>k
  <2>4. CASE ~Deaf
    <3>1. mem'[a] = <<"w2", epoch'>>
      BY <2>1, <2>4, <1>d
    <3>2. l /\ SharedKind = "linear" => mem'[b] = <<"w2lin", epoch'>> /\ linear'
      BY <2>1, <2>4, <1>d DEF Refreshes
    <3>3. sink' = "ready" => l /\ SharedKind # "fp4"
      BY <2>1, <2>4 DEF Deaf
    <3> QED
      BY <2>2, <3>1, <3>2, <3>3, <1>k
  <2> QED
    BY <2>3, <2>4
<1>7. ASSUME PostLoad PROVE SinkKept'
  <2>1. /\ mem' = [mem EXCEPT
             ![b] = IF SharedKind = "linear" THEN <<"w2lin", mem[a][2]>> ELSE @,
             ![c] = IF SharedKind = "fp4" /\ sink = "loaded" THEN <<"fp4", mem[a][2]>> ELSE @,
             ![a] = IF SharedKind = "fp4" THEN Junk ELSE @]
        /\ sink \in {"loaded", "ready"} /\ sink' = "ready" /\ epoch' = epoch
        /\ SharedKind = "linear" => linear'
        /\ Has
    BY <1>7 DEF PostLoad, Stacked, a, b, c
  <2>2. /\ SharedKind # "fp4" => mem'[a] = mem[a]
        /\ SharedKind = "linear" => mem'[b] = <<"w2lin", mem[a][2]>>
        /\ SharedKind = "fp4" /\ sink = "loaded" => mem'[c] = <<"fp4", mem[a][2]>>
        /\ SharedKind = "fp4" /\ sink # "loaded" => mem'[c] = mem[c]
    BY <2>1, <1>d
  <2>4. /\ SharedKind \notin {"none", "fp4"} => mem[a] = <<"w2", epoch>>
        /\ sink = "loaded" /\ SharedKind = "fp4" => mem[a] = <<"w2", epoch>>
        /\ sink = "ready" /\ SharedKind = "fp4" /\ epoch = 1 => mem[c] = <<"fp4", epoch>>
        /\ SharedKind # "none" => epoch >= 1
    BY <2>1, <1>s DEF SinkKept, a, b, c
  <2>5. mem[a] = <<"w2", epoch>> => mem[a][2] = epoch
    OBVIOUS
  <2>6. SharedKind \notin {"none", "fp4"} => mem'[a] = <<"w2", epoch'>>
    BY <2>1, <2>2, <2>4
  <2>7. SharedKind = "linear" => linear' /\ mem'[b] = <<"w2lin", epoch'>>
    BY <2>1, <2>2, <2>4, <2>5
  <2>8. SharedKind = "fp4" /\ epoch' = 1 => mem'[c] = <<"fp4", epoch'>>
    <3>1. CASE sink = "loaded"
      BY <3>1, <2>1, <2>2, <2>4, <2>5
    <3>2. CASE sink = "ready"
      BY <3>2, <2>1, <2>2, <2>4
    <3> QED
      BY <3>1, <3>2, <2>1
  <2> QED
    BY <2>1, <2>4, <2>6, <2>7, <2>8, <1>k
<1>8. ASSUME Resume PROVE SinkKept'
  <2>1. sink = "ready" /\ sink' = "gone" /\ epoch' = epoch
    BY <1>8 DEF Resume
  <2> QED
    BY <2>1, <1>k, <1>s DEF SinkKept
<1>9. SinkKept'
  BY <1>6, <1>7, <1>8
<1> QED
  BY <1>3, <1>4, <1>9 DEF WeightInv

\* Every step keeps what is known of the weights.
LEMMA WeightStep ==
  ASSUME TypeOK, CallInv, WeightInv, [Next]_vars
  PROVE  WeightInv'
<1>1. ASSUME UNCHANGED vars PROVE WeightInv'
  <2>1. UNCHANGED <<lane, graph, mem, epoch, cfg, sink, linear>>
    BY <1>1 DEF vars, deviceVars, layerVars
  <2>2. SinkReads' = SinkReads /\ SharedKind' = SharedKind
    BY <2>1, SameConfig
  <2> QED
    BY <2>1, <2>2 DEF WeightInv, LaneOK, GraphOK, SinkKept, Empty
<1>2. Finished => UNCHANGED vars
  BY DEF Finished
<1> QED
  BY <1>1, <1>2, WeightBegin, WeightCalls, WeightReplay, WeightLoads, WeightDevice DEF Next

\* It holds before the first load.
LEMMA WeightInit ==
  ASSUME Init
  PROVE  WeightInv
<1>1. lane = Empty /\ graph = <<>> /\ sink \in {"none", "ready"} /\ (sink = "ready" => SharedKind = "none")
  BY DEF Init, DeviceInit, Empty
<1>2. /\ \A s \in Stream : DOMAIN lane[s] = {}
      /\ DOMAIN graph = {}
  BY <1>1 DEF Empty
<1> QED
  BY <1>1, <1>2 DEF WeightInv, LaneOK, GraphOK, SinkKept

\* What can run now finds the weights of the last load.
LEMMA WeightsNow ==
  ASSUME TypeOK, WeightInv
  PROVE  WeightsAreCurrent
<1> SUFFICES ASSUME SharedKind = "fp4" => epoch = 1,
                    NEW s \in Stream, Runnable(s), NEW i \in Head(lane[s]).work.reads, i[2] \in Weights
             PROVE  mem[i[1]] = Meant(i[2], Head(lane[s]).run)
  BY DEF WeightsAreCurrent, Finds
<1>1. lane \in Queue /\ lane[s] # <<>>
  BY DeviceTypes DEF TypeOK, Runnable
<1>2. 1 \in DOMAIN lane[s] /\ Head(lane[s]) = lane[s][1]
  BY <1>1, TailIsRest DEF Rest
<1>3. i \in SinkReads
  BY <1>2 DEF WeightInv, LaneOK, PieceOK
<1>4. sink = "ready" /\ SinkKept
  BY <1>1 DEF WeightInv, Empty
<1>5. mem[i[1]] = <<i[2], epoch>>
  <2>1. CASE SharedKind = "linear"
    BY <2>1, <1>3, <1>4 DEF SinkReads, SinkKept
  <2>2. CASE SharedKind = "fp4"
    BY <2>2, <1>3, <1>4 DEF SinkReads, SinkKept
  <2>3. CASE SharedKind \notin {"none", "linear", "fp4"}
    BY <2>3, <1>3, <1>4 DEF SinkReads, SinkKept
  <2>4. CASE SharedKind = "none"
    BY <2>4, <1>3 DEF SinkReads
  <2> QED
    BY <2>1, <2>2, <2>3, <2>4
<1> QED
  BY <1>5 DEF Meant

\* No call and no replay multiplies with weights of an earlier load, or with
\* what a resume left in their place or in that of a copy, whatever loads and
\* resumes there were; for an FP4 sink this is said of its first load only, as
\* later ones do not reach the linears made of it.
THEOREM WeightsStayCurrent == Spec => []WeightsAreCurrent
<1>1. (TypeOK /\ CallInv) /\ WeightInv /\ [Next]_vars => WeightInv'
  BY WeightStep
<1>2. Init => WeightInv
  BY WeightInit
<1>3. Spec => []WeightInv
  BY <1>1, <1>2, CallCorrect, PTL DEF Spec
<1>4. TypeOK /\ CallInv /\ WeightInv => WeightsAreCurrent
  BY WeightsNow
<1> QED
  BY <1>3, <1>4, CallCorrect, PTL

-----------------------------------------------------------------------------
(* What is in the hands of a call.                                         *)

\* What is asked of tensors: of those there are, by new work, ...
Asks(N, on, dues, dues2) ==
  /\ "fork" \in dues2 => on = "main" /\ ("fork" \in dues \/ \E k \in DOMAIN N["main"] : FiresFork(N, k))
  /\ "join" \in dues2 => "join" \in dues \/ \E k \in DOMAIN N["main"] : WaitsJoin(N, k)
\* ... and of the one that piece j of the new work makes.
AsksNew(N, on, j, r, dues) ==
  /\ "fork" \in dues =>
       on = "main" /\ \E k \in DOMAIN N["main"] : j < k /\ N["main"][k].run = r /\ FiresFork(N, k)
  /\ "join" \notin dues

\* New work that leaves the block alone keeps a tensor ready, and may meet what
\* is asked of it from now on.
LEMMA ReadyAdded ==
  ASSUME NEW Q \in Queue, NEW Q2 \in Queue, NEW N \in Queue, Added(Q, Q2, N), NEW M,
         NEW b, NEW nm, NEW on \in Stream, NEW r \in Nat,
         NEW dues, NEW dues2, Ready(Q, M, b, nm, on, r, dues),
         \A s \in Stream : \A i \in DOMAIN N[s] : N[s][i].run = r /\ ~WritesTo(N, s, i, b),
         Asks(N, on, dues, dues2)
  PROVE  Ready(Q2, M, b, nm, on, r, dues2)
<1>1. CASE Stored(Q, M, b, nm, r)
  <2>1. ASSUME NEW s \in Stream, NEW i \in DOMAIN Q2[s], Q2[s][i].run = r, WritesTo(Q2, s, i, b)
        PROVE  FALSE
    <3>1. CASE i \in DOMAIN Q[s] /\ Q2[s][i] = Q[s][i]
      BY <2>1, <3>1, <1>1 DEF Stored, WritesTo
    <3>2. CASE \E k \in DOMAIN N[s] : Q2[s][i] = N[s][k]
      BY <2>1, <3>2 DEF WritesTo
    <3> QED
      BY <3>1, <3>2, AddedIndex
  <2> QED
    BY <2>1, <1>1 DEF Stored, Ready
<1>2. ASSUME NEW j \in DOMAIN Q[on], Q[on][j].run = r, <<b, nm>> \in Q[on][j].work.writes,
             "fork" \in dues => \E k \in DOMAIN Q["main"] : j < k /\ Q["main"][k].run = r /\ FiresFork(Q, k),
             "join" \in dues => \E k \in DOMAIN Q["main"] : Q["main"][k].run = r /\ WaitsJoin(Q, k)
      PROVE  Ready(Q2, M, b, nm, on, r, dues2)
  <2>1. j \in DOMAIN Q2[on] /\ Q2[on][j] = Q[on][j]
    BY DEF Added
  <2>2. /\ \A k \in DOMAIN Q["main"] : k \in DOMAIN Q2["main"] /\ Q2["main"][k] = Q["main"][k]
        /\ \A k \in DOMAIN N["main"] :
             Len(Q["main"]) + k \in DOMAIN Q2["main"] /\ Q2["main"][Len(Q["main"]) + k] = N["main"][k]
    BY DEF Added, Stream
  <2>3. "fork" \in dues2 => \E k \in DOMAIN Q2["main"] : j < k /\ Q2["main"][k].run = r /\ FiresFork(Q2, k)
    <3>1. CASE "fork" \in dues
      BY <3>1, <1>2, <2>2 DEF FiresFork
    <3>2. ASSUME "fork" \in dues2, NEW k \in DOMAIN N["main"], FiresFork(N, k)
          PROVE  \E l \in DOMAIN Q2["main"] : j < l /\ Q2["main"][l].run = r /\ FiresFork(Q2, l)
      <4>1. on = "main"
        BY <3>2 DEF Asks
      <4>2. k \in Nat \ {0} /\ j \in 1 .. Len(Q["main"]) /\ Len(Q["main"]) \in Nat
        BY <4>1, QueueIndex
      <4>3. j < Len(Q["main"]) + k
        BY <4>2
      <4> QED
        BY <4>3, <3>2, <2>2 DEF FiresFork, Stream
    <3> QED
      BY <3>1, <3>2 DEF Asks
  <2>4. "join" \in dues2 => \E k \in DOMAIN Q2["main"] : Q2["main"][k].run = r /\ WaitsJoin(Q2, k)
    <3>1. CASE "join" \in dues
      BY <3>1, <1>2, <2>2 DEF WaitsJoin
    <3>2. ASSUME NEW k \in DOMAIN N["main"], WaitsJoin(N, k)
          PROVE  \E l \in DOMAIN Q2["main"] : Q2["main"][l].run = r /\ WaitsJoin(Q2, l)
      BY <3>2, <2>2 DEF WaitsJoin, Stream
    <3> QED
      BY <3>1, <3>2 DEF Asks
  <2> QED
    BY <1>2, <2>1, <2>3, <2>4 DEF Ready
<1> QED
  BY <1>1, <1>2 DEF Ready

\* A tensor the new work makes is ready.
LEMMA ReadyNew ==
  ASSUME NEW Q \in Queue, NEW Q2 \in Queue, NEW N \in Queue, Added(Q, Q2, N), NEW M,
         NEW b, NEW nm, NEW on \in Stream, NEW r \in Nat,
         NEW dues, NEW j \in DOMAIN N[on],
         N[on][j].run = r, <<b, nm>> \in N[on][j].work.writes, AsksNew(N, on, j, r, dues)
  PROVE  Ready(Q2, M, b, nm, on, r, dues)
<1> DEFINE jj == Len(Q[on]) + j
<1>1. jj \in DOMAIN Q2[on] /\ Q2[on][jj] = N[on][j]
  BY DEF Added
<1>2. "fork" \in dues => \E k \in DOMAIN Q2["main"] : jj < k /\ Q2["main"][k].run = r /\ FiresFork(Q2, k)
  <2> SUFFICES ASSUME "fork" \in dues
               PROVE  \E k \in DOMAIN Q2["main"] : jj < k /\ Q2["main"][k].run = r /\ FiresFork(Q2, k)
    OBVIOUS
  <2>1. PICK k \in DOMAIN N["main"] : j < k /\ N["main"][k].run = r /\ FiresFork(N, k)
    BY DEF AsksNew
  <2> DEFINE kk == Len(Q["main"]) + k
  <2>2. kk \in DOMAIN Q2["main"] /\ Q2["main"][kk] = N["main"][k]
    BY DEF Added, Stream
  <2>3. "main" \in Stream /\ on = "main"
    BY DEF Stream, AsksNew
  <2>4. jj < kk
    BY <2>1, <2>3, QueueIndex
  <2> QED
    BY <2>1, <2>2, <2>4 DEF FiresFork
<1> QED
  BY <1>1, <1>2 DEF Ready, AsksNew

\* A tensor stays ready when a stream moves on.
LEMMA ReadyRest ==
  ASSUME NEW Q \in Queue, NEW Q2 \in Queue, NEW M, NEW M2, NEW F, NEW open, NEW s0 \in Stream,
         Step(Q, Q2, M, M2, F, open, s0),
         NEW b \in Block, b >= Own.ar, NEW nm \in Passing, NEW on \in Stream, NEW r \in Nat,
         r >= Q[s0][1].run,
         NEW dues, "fork" \in dues => on = "main", "join" \in dues => on = "alt",
         Ready(Q, M, b, nm, on, r, dues)
  PROVE  Ready(Q2, M2, b, nm, on, r, dues)
<1>1. CASE Stored(Q, M, b, nm, r)
  BY <1>1, StoredRest DEF Ready
<1>2. ASSUME NEW j \in DOMAIN Q[on], Q[on][j].run = r, <<b, nm>> \in Q[on][j].work.writes,
             "fork" \in dues => \E k \in DOMAIN Q["main"] : j < k /\ Q["main"][k].run = r /\ FiresFork(Q, k),
             "join" \in dues => \E k \in DOMAIN Q["main"] : Q["main"][k].run = r /\ WaitsJoin(Q, k)
      PROVE  Ready(Q2, M2, b, nm, on, r, dues)
  <2>1. CASE on = s0 /\ j = 1 /\ Stored(Q2, M2, b, nm, r)
    BY <2>1 DEF Ready
  <2>2. ASSUME NEW l \in DOMAIN Q2[on], Old(s0, on, l) = j
        PROVE  Ready(Q2, M2, b, nm, on, r, dues)
    <3>1. Q2[on][l] = Q[on][j]
      BY <2>2, OldIndex DEF Step
    <3>2. "main" \in Stream /\ Rest(Q, Q2, s0)
      BY DEF Stream, Step
    <3>3. ASSUME NEW k \in DOMAIN Q["main"], ~(s0 = "main" /\ k = 1)
          PROVE  \E n \in DOMAIN Q2["main"] : Old(s0, "main", n) = k /\ Q2["main"][n] = Q["main"][k]
      <4>1. PICK n \in DOMAIN Q2["main"] : Old(s0, "main", n) = k
        BY <3>2, <3>3 DEF Rest
      <4> QED
        BY <4>1, <3>2 DEF Rest
    <3>4. "fork" \in dues => \E k \in DOMAIN Q2["main"] : l < k /\ Q2["main"][k].run = r /\ FiresFork(Q2, k)
      <4> SUFFICES ASSUME "fork" \in dues
                   PROVE  \E k \in DOMAIN Q2["main"] : l < k /\ Q2["main"][k].run = r /\ FiresFork(Q2, k)
        OBVIOUS
      <4>1. PICK k \in DOMAIN Q["main"] : j < k /\ Q["main"][k].run = r /\ FiresFork(Q, k)
        BY <1>2
      <4>2. on = "main" /\ j \in Nat \ {0} /\ k \in Nat \ {0}
        BY <3>2, QueueIndex
      <4>3. k # 1
        BY <4>1, <4>2
      <4>4. PICK n \in DOMAIN Q2["main"] : Old(s0, "main", n) = k /\ Q2["main"][n] = Q["main"][k]
        BY <4>3, <3>3
      <4>5. l < n
        BY <4>1, <4>2, <4>4, <2>2, <3>2, OldIndex
      <4> QED
        BY <4>1, <4>4, <4>5 DEF FiresFork
    <3>5. "join" \in dues => \E k \in DOMAIN Q2["main"] : Q2["main"][k].run = r /\ WaitsJoin(Q2, k)
      <4> SUFFICES ASSUME "join" \in dues
                   PROVE  \E k \in DOMAIN Q2["main"] : Q2["main"][k].run = r /\ WaitsJoin(Q2, k)
        OBVIOUS
      <4>1. PICK k \in DOMAIN Q["main"] : Q["main"][k].run = r /\ WaitsJoin(Q, k)
        BY <1>2
      <4>2. <<"join", r>> \notin F
        BY <1>2 DEF Step, Programme, Ordered, JoinedOnce
      <4>3. ~(s0 = "main" /\ k = 1)
        BY <4>1, <4>2 DEF Step, CanRun, WaitsJoin
      <4>4. PICK n \in DOMAIN Q2["main"] : Q2["main"][n] = Q["main"][k]
        BY <4>3, <3>3
      <4> QED
        BY <4>1, <4>4 DEF WaitsJoin
    <3> QED
      BY <1>2, <3>1, <3>4, <3>5 DEF Ready
  <2> QED
    BY <1>2, <2>1, <2>2, PendingRest
<1> QED
  BY <1>1, <1>2 DEF Ready

\* What a call meets: its work so far keeps to the order of the two streams.
Meets(Q, M, F, r, open) ==
  /\ Q \in Queue /\ F \in SUBSET (Event \X Nat) /\ r \in Nat
  /\ Programme(Q, M, F, open)
  /\ \A s \in Stream : \A i \in DOMAIN Q[s] : Q[s][i].run <= r
  /\ \A e \in F : e[2] <= r
  /\ \A b \in Block : b >= Own.ar => M[b][2] <= r

\* What a call finds on the streams before its own work: runs that are older,
\* and itself.
LEMMA CallMeets ==
  ASSUME TypeOK, CallInv, StreamInv, RunsInv
  PROVE  Meets(Queued, Memory, Events, ThisRun, OpenRun(ThisRun))
<1>1. /\ lane \in Queue /\ graph \in Seq(WorkList) /\ run \in Nat
      /\ fired \in SUBSET (Event \X Nat)
  BY DeviceTypes DEF TypeOK
<1>2. CASE Capturing
  <2>1. Len(graph) \in DOMAIN graph /\ graph[Len(graph)] \in WorkList
    BY <1>1, <1>2 DEF CallInv
  <2>2. /\ Queued = Marked(graph[Len(graph)], 1) /\ Queued = Captured(Len(graph))
        /\ Memory = Nothing /\ Events = {} /\ ThisRun = 1
    BY <1>2 DEF Queued, Memory, Events, ThisRun, Captured
  <2>3. Programme(Queued, Memory, Events, OpenRun(ThisRun))
    BY <1>2, <2>1, <2>2 DEF StreamInv
  <2>4. Queued \in Queue /\ \A s \in Stream : \A i \in DOMAIN Queued[s] : Queued[s][i].run = 1
    BY <2>1, <2>2, MarkedIndex
  <2>5. \A b \in Block : Memory[b][2] = 0
    BY <2>2 DEF Nothing, Junk
  <2> QED
    BY <2>2, <2>3, <2>4, <2>5 DEF Meets
<1>3. CASE ~Capturing
  <2>1. Queued = lane /\ Memory = mem /\ Events = fired /\ ThisRun = run
    BY <1>3 DEF Queued, Memory, Events, ThisRun
  <2> QED
    BY <1>1, <1>3, <2>1 DEF Meets, StreamInv, RunsInv
<1> QED
  BY <1>2, <1>3

\* A step of a call keeps the order of the streams, in the lanes and in every
\* graph, if its work fits behind what is there.
LEMMA StreamIssues ==
  ASSUME TypeOK, CallInv, StreamInv, RunsInv, pc # "idle", NEW w \in WorkList, Issues(w),
         UNCHANGED <<mem, fired, run, mode>>,
         FitsOrder(Queued, Marked(w, ThisRun), Events, ThisRun, OpenRun(ThisRun), OpenRun(ThisRun)'),
         FitsData(Queued, Marked(w, ThisRun), Memory, ThisRun)
  PROVE  StreamInv'
<1>1. Meets(Queued, Memory, Events, ThisRun, OpenRun(ThisRun))
  BY CallMeets
<1>2. /\ lane' \in Queue /\ graph' \in Seq(WorkList)
      /\ Later \in Queue /\ Queued \in Queue
      /\ Added(Queued, Later, Marked(w, ThisRun))
      /\ mode = "capture" =>
           /\ lane' = lane /\ Len(graph') = Len(graph) /\ Len(graph) > 0
           /\ \A g \in 1 .. Len(graph) - 1 : graph'[g] = graph[g]
      /\ mode # "capture" => graph' = graph
  BY IssuesAdds
<1>3. Marked(w, ThisRun) \in Queue
  BY <1>1, MarkedIndex DEF Meets
<1>4. Programme(Later, Memory, Events, OpenRun(ThisRun)')
  BY <1>1, <1>2, <1>3, ProgrammeAdded DEF Meets
<1>5. OpenRun(ThisRun)' = IF Open' THEN {ThisRun'} ELSE {}
  BY DEF OpenRun
<1>6. Open' => pc' # "idle"
  BY DEF Open
<1>7. CASE mode = "capture"
  <2>1. Capturing /\ (Capturing' <=> pc' # "idle")
    BY <1>7 DEF Capturing
  <2>2. /\ Memory = Nothing /\ Events = {} /\ ThisRun = 1
        /\ Later = Marked(graph'[Len(graph)], 1)
    BY <2>1, <1>7 DEF Memory, Events, ThisRun, Later
  <2>3. OpenRun(ThisRun)' = IF Capturing' THEN OpenRun(1)' ELSE {}
    BY <1>5, <1>6, <2>1, <2>2 DEF ThisRun, OpenRun
  <2>4. Programme(lane, mem, fired, {})
    BY <2>1 DEF StreamInv
  <2>5. (IF Capturing' THEN {} ELSE OpenRun(run)') = {}
    BY <1>6, <2>1 DEF OpenRun
  <2>6. Programme(lane', mem', fired', IF Capturing' THEN {} ELSE OpenRun(run)')
    BY <1>2, <1>7, <2>4, <2>5
  <2>7. ASSUME NEW g \in DOMAIN graph'
        PROVE  Programme(Marked(graph'[g], 1), Nothing, {},
                         IF Capturing' /\ g = Len(graph') THEN OpenRun(1)' ELSE {})
    <3>1. CASE g = Len(graph')
      BY <3>1, <1>2, <1>4, <1>7, <2>2, <2>3
    <3>2. CASE g # Len(graph')
      <4>1. g \in DOMAIN graph /\ g # Len(graph) /\ graph'[g] = graph[g]
        BY <3>2, <1>2, <1>7, DeviceTypes DEF TypeOK
      <4>2. Programme(Marked(graph[g], 1), Nothing, {}, {})
        BY <4>1 DEF StreamInv, Captured
      <4> QED
        BY <4>1, <4>2, <3>2
    <3> QED
      BY <3>1, <3>2
  <2> QED
    BY <2>6, <2>7 DEF StreamInv, Captured
<1>8. CASE mode # "capture"
  <2>1. ~Capturing /\ ~Capturing'
    BY <1>8 DEF Capturing
  <2>2. /\ Memory = mem /\ Events = fired /\ ThisRun = run /\ Later = lane' /\ ThisRun' = run'
    BY <2>1, <1>8 DEF Memory, Events, ThisRun, Later
  <2>3. OpenRun(ThisRun)' = OpenRun(run)'
    BY <2>2 DEF OpenRun
  <2>4. ASSUME NEW g \in DOMAIN graph
        PROVE  Programme(Marked(graph[g], 1), Nothing, {}, {})
    BY <2>1 DEF StreamInv, Captured
  <2> QED
    BY <1>2, <1>4, <1>8, <2>1, <2>2, <2>3, <2>4 DEF StreamInv, Captured
<1> QED
  BY <1>7, <1>8

\* What is in hand is found by a step that reads it on the stream that made it,
\* or on the other one behind the fork or the join.
LEMMA HeldFound ==
  ASSUME HeldServed, NEW nm \in DOMAIN held, NEW N, NEW s \in Stream, NEW i,
         \A q \in Stream : \A j \in DOMAIN N[q] : ~WritesTo(N, q, j, held[nm][1]),
         MadeOn(nm) = s \/ (s = "alt" /\ ForkDue(nm)) \/ (s = "main" /\ JoinDue(nm))
  PROVE  Found(Queued, N, Memory, ThisRun, s, i, <<held[nm][1], nm>>)
<1> DEFINE o == <<held[nm][1], nm>>
           on == MadeOn(nm)
<1>0. ("fork" \in Dues(nm) <=> ForkDue(nm)) /\ ("join" \in Dues(nm) <=> JoinDue(nm))
  BY DEF Dues, Event
<1>1. Ready(Queued, Memory, held[nm][1], nm, on, ThisRun, Dues(nm))
  BY DEF HeldServed
<1>2. CASE Stored(Queued, Memory, o[1], o[2], ThisRun)
  BY <1>2 DEF Found
<1>3. ASSUME NEW j \in DOMAIN Queued[on], Queued[on][j].run = ThisRun, o \in Queued[on][j].work.writes,
             ForkDue(nm) => \E k \in DOMAIN Queued["main"] :
                              j < k /\ Queued["main"][k].run = ThisRun /\ FiresFork(Queued, k),
             JoinDue(nm) => \E k \in DOMAIN Queued["main"] :
                              Queued["main"][k].run = ThisRun /\ WaitsJoin(Queued, k)
      PROVE  Found(Queued, N, Memory, ThisRun, s, i, o)
  <2>1. on \in Stream
    BY DEF MadeOn, Stream
  <2>2. ForkDue(nm) => on = "main"
    BY DEF ForkDue
  <2>3. JoinDue(nm) => on = "alt"
    BY DEF JoinDue
  <2>4. \/ on = s
        \/ /\ on = "main" /\ s = "alt"
           /\ \E k \in DOMAIN Queued["main"] : j < k /\ Queued["main"][k].run = ThisRun /\ FiresFork(Queued, k)
        \/ /\ on = "alt" /\ s = "main"
           /\ \E k \in DOMAIN Queued["main"] : Queued["main"][k].run = ThisRun /\ WaitsJoin(Queued, k)
    BY <1>3, <2>2, <2>3
  <2> QED
    BY <1>3, <2>1, <2>4 DEF Found
<1> QED
  BY <1>0, <1>1, <1>2, <1>3 DEF Ready

\* A call may write to a block that is not in its hands.
LEMMA NotTouched ==
  ASSUME Touched, pc \notin {"idle", "return"}, NEW b \in Block, b >= Own.ar,
         \A nm \in DOMAIN held : held[nm][1] # b
  PROVE  /\ Memory[b][2] # ThisRun
         /\ \A s \in Stream : \A i \in DOMAIN Queued[s] : Queued[s][i].run = ThisRun => ~WritesTo(Queued, s, i, b)
BY DEF Touched

-----------------------------------------------------------------------------
(* The allocator.                                                          *)

\* The stream whose list a block goes back to.
HomeOf(name) == IF name \in {"x", "gate", "routed", "sum"} THEN "main"
                ELSE IF name = "sink" \/ TwoStreams THEN "alt" ELSE "main"

\* A block that is handed out is nobody's, and is not handed out again.
LEMMA TakesFree ==
  ASSUME TypeOK, FreeInv, NEW name \in Names, name # "buf", name \notin DOMAIN held,
         NEW b \in Fresh, NEW s \in Stream, s = HomeOf(name), Takes(name, s, b),
         TwoStreams' <=> TwoStreams
  PROVE  /\ FreeInv'
         /\ \A nm \in DOMAIN held : held[nm][1] # b
<1> DEFINE p == MemoryPool
<1>1. p \in Pool /\ Allocates(p, s, b)
  BY PoolType DEF Takes
<1> HIDE DEF p
<1>2. /\ free' \in [Pool \X Stream -> SUBSET Fresh] /\ top' \in 5 .. 5 + Blocks
      /\ free'[<<p, s>>] = free[<<p, s>>] \ {b}
      /\ \A q \in Pool \X Stream : q # <<p, s>> => free'[q] = free[q]
      /\ b \in free[<<p, s>>] \/ (free[<<p, s>>] = {} /\ b = top + 1)
      /\ top' = IF b > top THEN b ELSE top
  <2>1. DeviceTypeOK
    BY DEF TypeOK
  <2> QED
    BY <1>1, <2>1, AllocatesType
<1>3. /\ free \in [Pool \X Stream -> SUBSET Fresh] /\ top \in 5 .. 5 + Blocks /\ Fresh \subseteq Nat
      /\ Blocks \in Nat
  BY DeviceTypes, OwnBlocks, LayerAssumption DEF TypeOK
<1>4. <<p, s>> \in Pool \X Stream
  BY <1>1
<1>5. top' >= top /\ b <= top' /\ top' \in Nat /\ top \in Nat /\ b \in Nat
  BY <1>2, <1>3
<1>6. \A q \in Pool \X Stream : free'[q] \subseteq free[q] /\ b \notin free'[q]
  <2> SUFFICES ASSUME NEW q \in Pool \X Stream PROVE free'[q] \subseteq free[q] /\ b \notin free'[q]
    OBVIOUS
  <2>1. CASE q = <<p, s>>
    BY <2>1, <1>2
  <2>2. CASE q # <<p, s>>
    <3>1. free'[q] = free[q]
      BY <2>2, <1>2
    <3>2. CASE b \in free[<<p, s>>]
      BY <3>1, <3>2, <2>2, <1>4 DEF FreeInv
    <3>3. CASE b = top + 1
      <4>1. \A c \in free[q] : c <= top
        BY DEF FreeInv
      <4> QED
        BY <3>1, <3>3, <4>1, <1>5
    <3> QED
      BY <3>2, <3>3, <1>2
  <2> QED
    BY <2>1, <2>2
<1>7. \A nm \in DOMAIN held : held[nm][1] # b
  <2> SUFFICES ASSUME NEW nm \in DOMAIN held, held[nm][1] = b PROVE FALSE
    OBVIOUS
  <2>1. CASE nm = "buf"
    <3>1. b = Own.ar
      BY <2>1 DEF FreeInv
    <3>2. b > Own.ar /\ Own.ar \in Nat
      BY OwnBlocks
    <3> QED
      BY <3>1, <3>2
  <2>2. CASE nm # "buf"
    <3>1. b <= top /\ b \notin free[<<p, s>>]
      BY <2>2, <1>4 DEF FreeInv, Given
    <3> QED
      BY <3>1, <1>2, <1>5
  <2> QED
    BY <2>1, <2>2
<1>8. /\ DOMAIN held' = DOMAIN held \cup {name} /\ held'[name] = <<b, s>>
      /\ \A nm \in DOMAIN held : nm # name => held'[nm] = held[nm]
  BY TakesTypes
<1>9. /\ \A q, r \in Pool \X Stream : q # r => free'[q] \cap free'[r] = {}
      /\ \A q \in Pool \X Stream : \A c \in free'[q] : c <= top'
  <2>1. \A q, r \in Pool \X Stream : q # r => free[q] \cap free[r] = {}
    BY DEF FreeInv
  <2>2. \A q \in Pool \X Stream : \A c \in free[q] : c <= top /\ c \in Nat
    BY <1>3 DEF FreeInv
  <2> QED
    BY <2>1, <2>2, <1>5, <1>6
<1>10. ASSUME NEW nm \in DOMAIN held'
       PROVE  /\ nm = "buf" => held'[nm] = <<Own.ar, "none">>
              /\ nm # "buf" =>
                   /\ held'[nm][1] \in Fresh /\ held'[nm][1] <= top'
                   /\ held'[nm][2] = HomeOf(nm)
                   /\ \A q \in Pool \X Stream : held'[nm][1] \notin free'[q]
                   /\ \A other \in DOMAIN held' : held'[other][1] = held'[nm][1] => other = nm
  <2>1. CASE nm = name
    BY <2>1, <1>5, <1>6, <1>7, <1>8
  <2>2. CASE nm # name
    <3>1. nm \in DOMAIN held /\ held'[nm] = held[nm]
      BY <2>2, <1>8
    <3>2. /\ nm = "buf" => held[nm] = <<Own.ar, "none">>
          /\ nm # "buf" =>
               /\ held[nm][1] \in Fresh /\ held[nm][1] <= top
               /\ held[nm][2] = HomeOf(nm)
               /\ \A q \in Pool \X Stream : held[nm][1] \notin free[q]
               /\ \A other \in DOMAIN held : held[other][1] = held[nm][1] => other = nm
      BY <3>1 DEF FreeInv, Given, HomeOf
    <3>3. held[nm][1] # b
      BY <3>1, <1>7
    <3>4. nm # "buf" => held[nm][1] <= top'
      <4> DEFINE c == held[nm][1]
      <4>1. nm # "buf" => c \in Nat /\ c <= top
        BY <3>2, <1>3
      <4> HIDE DEF c
      <4>2. nm # "buf" => c <= top'
        BY <4>1, <1>5
      <4> QED
        BY <4>2 DEF c
    <3>5. nm # "buf" => \A q \in Pool \X Stream : held[nm][1] \notin free'[q]
      BY <3>2, <1>6
    <3>6. nm # "buf" => \A other \in DOMAIN held' : held'[other][1] = held[nm][1] => other = nm
      BY <3>1, <3>2, <3>3, <1>8
    <3> QED
      BY <3>1, <3>2, <3>4, <3>5, <3>6
  <2> QED
    BY <2>1, <2>2
<1> QED
  BY <1>7, <1>9, <1>10 DEF FreeInv, Given, HomeOf

-----------------------------------------------------------------------------
(* What a step enqueues fits behind what is there.                         *)

\* A tensor of the call can be read on stream s: it was made there, or on the
\* other one and the fork or the join is between.
Reader(nm, s) == MadeOn(nm) = s \/ (s = "alt" /\ ForkDue(nm)) \/ (s = "main" /\ JoinDue(nm))

\* Data: a step writes to blocks nobody has, every one once, and reads what is
\* in hand or what it made just before.
WritesWell(w) ==
  /\ \A s \in Stream : \A i \in DOMAIN w[s] : \A o \in w[s][i].writes :
       \/ o = <<Own.ids, "ids">> /\ pc = "shared" /\ ~Capturing
       \/ /\ o[1] \in Block /\ o[1] >= Own.ar /\ o[2] \in Passing
          /\ pc \notin {"idle", "return"}
          /\ \A nm \in DOMAIN held : held[nm][1] # o[1]
  /\ \A s, q \in Stream : \A i \in DOMAIN w[s], j \in DOMAIN w[q] :
       \A o \in w[s][i].writes, p \in w[q][j].writes : o[1] = p[1] => s = q /\ i = j /\ o = p
ReadsHeld(w) ==
  \A s \in Stream : \A i \in DOMAIN w[s] : \A o \in w[s][i].reads : o[2] \in Passing =>
    /\ o[1] >= Own.ar
    /\ \/ \E nm \in DOMAIN held : o = <<held[nm][1], nm>> /\ Reader(nm, s)
       \/ \E j \in DOMAIN w[s] : j < i /\ o \in w[s][j].writes

\* Order: fork and join are fired once, and the second stream has work only
\* between them.
InOrder(w, open2) ==
  /\ \A i \in DOMAIN w["main"] :
       /\ "join" \notin w["main"][i].fires
       /\ "fork" \in w["main"][i].fires =>
            pc = "gate" /\ \A k \in DOMAIN w["main"] : "fork" \in w["main"][k].fires => k = i
  /\ \A i \in DOMAIN w["alt"] :
       /\ "fork" \notin w["alt"][i].fires
       /\ pc \in {"gate", "clone", "shared", "routed"}
       /\ "join" \in w["alt"][i].fires => \A k \in DOMAIN w["alt"] : k <= i
       /\ Open \/ \E k \in 1 .. i : "fork" \in w["alt"][k].waits
  /\ Open \/ DOMAIN w["alt"] # {} =>
       ThisRun \in open2 \/ \E k \in DOMAIN w["main"] : "join" \in w["main"][k].waits

\* A step does not write to what is in hand.
LEMMA HeldKept ==
  ASSUME TypeOK, CallInv, NEW w \in WorkList, WritesWell(w),
         NEW nm \in DOMAIN held, NEW q \in Stream, NEW j \in DOMAIN w[q]
  PROVE  \A o \in w[q][j].writes : o[1] # held[nm][1]
<1> SUFFICES ASSUME NEW o \in w[q][j].writes, o[1] = held[nm][1]
             PROVE  FALSE
  OBVIOUS
<1>1. o = <<Own.ids, "ids">> /\ pc = "shared"
  BY DEF WritesWell
<1>2. nm = "buf" \/ held[nm][1] > Own.ar
  BY OwnBlocks DEF CallInv
<1>3. nm # "buf" => held[nm][1] # Own.ids
  BY <1>2 DEF Own
<1>4. "buf" \notin DOMAIN held
  BY <1>1 DEF CallInv, Outcome
<1> QED
  BY <1>1, <1>3, <1>4

\* Work that reads what is in hand and writes to blocks nobody else of its run
\* uses fits in behind the rest.
LEMMA DataFits ==
  ASSUME TypeOK, CallInv, WeightInv, StreamInv, HeldServed, Touched, RunsInv, IdsInv, pc # "idle",
         NEW w \in WorkList, WritesWell(w), ReadsHeld(w)
  PROVE  FitsData(Queued, Marked(w, ThisRun), Memory, ThisRun)
<1> DEFINE N == Marked(w, ThisRun)
<1>1. Meets(Queued, Memory, Events, ThisRun, OpenRun(ThisRun))
  BY CallMeets
<1>2. N \in Queue /\ \A s \in Stream : /\ DOMAIN N[s] = DOMAIN w[s]
                                       /\ \A i \in DOMAIN w[s] : N[s][i].work = w[s][i] /\ N[s][i].run = ThisRun
  BY <1>1, MarkedIndex DEF Meets
<1> HIDE DEF N
<1>3. WritesInPlace(N)
  BY <1>2 DEF WritesInPlace, WritesWell
<1>4. OneWriter(N)
  <2> SUFFICES ASSUME NEW s \in Stream, NEW q \in Stream, NEW i \in DOMAIN N[s], NEW j \in DOMAIN N[q],
                      NEW o \in N[s][i].work.writes, NEW p \in N[q][j].work.writes, o[1] = p[1]
               PROVE  s = q /\ i = j /\ o = p
    BY DEF OneWriter
  <2>1. i \in DOMAIN w[s] /\ j \in DOMAIN w[q] /\ o \in w[s][i].writes /\ p \in w[q][j].writes
    BY <1>2
  <2> QED
    BY <2>1 DEF WritesWell
<1>5. Own.ids < Own.ar
  BY DEF Own
<1>6. ASSUME NEW s \in Stream, NEW i \in DOMAIN N[s], NEW o \in N[s][i].work.writes
      PROVE  /\ o[1] >= Own.ar => Memory[o[1]][2] # ThisRun
             /\ \A q \in Stream : \A j \in DOMAIN Queued[q] :
                  Queued[q][j].run = ThisRun => ~WritesTo(Queued, q, j, o[1])
  <2>1. i \in DOMAIN w[s] /\ o \in w[s][i].writes
    BY <1>2
  <2>2. CASE o = <<Own.ids, "ids">> /\ pc = "shared" /\ ~Capturing
    <3>1. Queued = lane /\ ThisRun = run
      BY <2>2 DEF Queued, ThisRun
    <3>2. ASSUME NEW q \in Stream, NEW j \in DOMAIN lane[q], lane[q][j].run = run,
                 WritesTo(lane, q, j, Own.ids)
          PROVE  FALSE
      <4>1. PICK p \in lane[q][j].work.writes : p[1] = Own.ids
        BY <3>2 DEF WritesTo
      <4>2. p = <<Own.ids, "ids">>
        BY <4>1, <1>5 DEF WeightInv, LaneOK, PieceOK, Own
      <4>3. lane[q][j].run < run
        BY <4>1, <4>2, <2>2 DEF IdsInv, IdsWriter
      <4>4. run \in Nat
        BY DeviceTypes DEF TypeOK
      <4> QED
        BY <3>2, <4>3, <4>4
    <3>3. ~(o[1] >= Own.ar)
      BY <2>2 DEF Own
    <3> QED
      BY <2>2, <3>1, <3>2, <3>3
  <2>3. CASE /\ o[1] \in Block /\ o[1] >= Own.ar /\ o[2] \in Passing
             /\ pc \notin {"idle", "return"}
             /\ \A nm \in DOMAIN held : held[nm][1] # o[1]
    BY <2>3, NotTouched
  <2> QED
    BY <2>1, <2>2, <2>3 DEF WritesWell
<1>7. \A nm \in DOMAIN held : \A q \in Stream : \A j \in DOMAIN N[q] : ~WritesTo(N, q, j, held[nm][1])
  BY <1>2, HeldKept DEF WritesTo
<1>8. ASSUME NEW s \in Stream, NEW i \in DOMAIN N[s], NEW o \in N[s][i].work.reads, o[2] \in Passing
      PROVE  o[1] >= Own.ar /\ Found(Queued, N, Memory, ThisRun, s, i, o)
  <2>1. i \in DOMAIN w[s] /\ o \in w[s][i].reads
    BY <1>2
  <2>2. o[1] >= Own.ar
    BY <1>8, <2>1 DEF ReadsHeld
  <2>3. ASSUME NEW nm \in DOMAIN held, o = <<held[nm][1], nm>>, Reader(nm, s)
        PROVE  Found(Queued, N, Memory, ThisRun, s, i, o)
    <3>1. \A q \in Stream : \A j \in DOMAIN N[q] : ~WritesTo(N, q, j, held[nm][1])
      BY <1>7
    <3>2. MadeOn(nm) = s \/ (s = "alt" /\ ForkDue(nm)) \/ (s = "main" /\ JoinDue(nm))
      BY <2>3 DEF Reader
    <3>3. Found(Queued, N, Memory, ThisRun, s, i, <<held[nm][1], nm>>)
      BY <3>1, <3>2, HeldFound
    <3> QED
      BY <3>3, <2>3
  <2>4. ASSUME NEW j \in DOMAIN w[s], j < i, o \in w[s][j].writes
        PROVE  Found(Queued, N, Memory, ThisRun, s, i, o)
    <3>1. j \in DOMAIN N[s] /\ o \in N[s][j].work.writes
      BY <2>4, <1>2
    <3>2. Before(N, s, j, s, i)
      BY <2>4 DEF Before
    <3> QED
      BY <3>1, <3>2 DEF Found
  <2> QED
    BY <1>8, <2>1, <2>2, <2>3, <2>4 DEF ReadsHeld
<1> QED
  BY <1>1, <1>3, <1>4, <1>6, <1>8 DEF FitsData, Meets, N

\* So it does when its events are those that are still due.
LEMMA OrderFits ==
  ASSUME TypeOK, CallInv, StreamInv, EventsAhead, RunsInv, pc # "idle",
         NEW w \in WorkList, NEW open2, InOrder(w, open2)
  PROVE  FitsOrder(Queued, Marked(w, ThisRun), Events, ThisRun, OpenRun(ThisRun), open2)
<1> DEFINE N == Marked(w, ThisRun)
<1>1. Meets(Queued, Memory, Events, ThisRun, OpenRun(ThisRun))
  BY CallMeets
<1>2. N \in Queue /\ \A s \in Stream : /\ DOMAIN N[s] = DOMAIN w[s]
                                       /\ \A i \in DOMAIN w[s] : N[s][i].work = w[s][i] /\ N[s][i].run = ThisRun
  BY <1>1, MarkedIndex DEF Meets
<1>3. /\ DOMAIN N["main"] = DOMAIN w["main"] /\ \A i \in DOMAIN w["main"] : N["main"][i].work = w["main"][i]
      /\ DOMAIN N["alt"] = DOMAIN w["alt"] /\ \A i \in DOMAIN w["alt"] : N["alt"][i].work = w["alt"][i]
      /\ \A s \in Stream : \A i \in DOMAIN N[s] : N[s][i].run = ThisRun
  BY <1>2 DEF Stream
<1>0. \A i \in DOMAIN N["alt"] : \A k \in 1 .. i : k \in DOMAIN N["alt"]
  BY <1>2, QueueIndex DEF Stream
<1> HIDE DEF N
<1>4. FiresInPlace(N)
  BY <1>3 DEF FiresInPlace, InOrder
<1>5. ASSUME NEW i \in DOMAIN N["alt"]
      PROVE  \/ <<"fork", ThisRun>> \in Events
             \/ \E k \in DOMAIN Queued["alt"] : Queued["alt"][k].run = ThisRun /\ "fork" \in Queued["alt"][k].work.waits
             \/ \E k \in 1 .. i : "fork" \in N["alt"][k].work.waits
  <2>1. CASE Open
    BY <2>1 DEF EventsAhead
  <2>2. ASSUME NEW k \in 1 .. i, "fork" \in w["alt"][k].waits
        PROVE  "fork" \in N["alt"][k].work.waits
    BY <2>2, <1>0, <1>3
  <2> QED
    BY <1>3, <2>1, <2>2 DEF InOrder
<1>6. ASSUME NEW i \in DOMAIN N["main"], FiresFork(N, i)
      PROVE  /\ <<"fork", ThisRun>> \notin Events
             /\ \A k \in DOMAIN Queued["main"] : Queued["main"][k].run = ThisRun => ~FiresFork(Queued, k)
             /\ \A k \in DOMAIN N["main"] : FiresFork(N, k) => k = i
  <2>1. pc = "gate" /\ \A k \in DOMAIN w["main"] : "fork" \in w["main"][k].fires => k = i
    BY <1>3, <1>6 DEF InOrder, FiresFork
  <2> QED
    BY <1>3, <2>1 DEF EventsAhead, FiresFork
<1>7. ASSUME NEW i \in DOMAIN N["alt"]
      PROVE  /\ <<"join", ThisRun>> \notin Events
             /\ \A k \in DOMAIN Queued["alt"] : Queued["alt"][k].run = ThisRun => ~FiresJoin(Queued, k)
             /\ FiresJoin(N, i) => \A k \in DOMAIN N["alt"] : k <= i
  <2>1. pc \in {"gate", "clone", "shared", "routed"}
    BY <1>3 DEF InOrder
  <2> QED
    BY <1>3, <2>1 DEF EventsAhead, FiresJoin, InOrder
<1>8. Open \/ DOMAIN N["alt"] # {} => ThisRun \in open2 \/ \E k \in DOMAIN N["main"] : WaitsJoin(N, k)
  BY <1>3 DEF InOrder, WaitsJoin
<1>9. \A x \in OpenRun(ThisRun) : x = ThisRun /\ Open
  BY DEF OpenRun
<1>10. \A i \in DOMAIN N["alt"] : ThisRun \in open2 \/ \E k \in DOMAIN N["main"] : WaitsJoin(N, k)
  BY <1>8
<1>11. \A x \in OpenRun(ThisRun) : x \in open2 \/ (x = ThisRun /\ \E k \in DOMAIN N["main"] : WaitsJoin(N, k))
  BY <1>8, <1>9
<1> QED
  BY <1>1, <1>3, <1>4, <1>5, <1>6, <1>7, <1>10, <1>11 DEF FitsOrder, Meets, N

\* After a step of a call that is not the last one.
LEMMA Afterwards ==
  ASSUME CallInv, pc # "idle", pc' # "idle", UNCHANGED <<mem, fired, run, mode>>,
         mode = "capture" => Len(graph') = Len(graph)
  PROVE  Queued' = Later /\ Memory' = Memory /\ Events' = Events /\ ThisRun' = ThisRun
<1>1. Capturing' <=> Capturing
  BY DEF Capturing
<1>2. Capturing <=> mode = "capture"
  BY DEF Capturing
<1>3. Queued' = IF Capturing' THEN Marked(graph'[Len(graph')], 1) ELSE lane'
  BY DEF Queued, Captured
<1>4. Queued' = Later
  BY <1>1, <1>2, <1>3 DEF Later
<1> QED
  BY <1>1, <1>4 DEF Memory, Events, ThisRun

\* A step of a call that enqueues w and keeps what is in hand.
CallDoes(w) ==
  /\ pc # "idle" /\ pc' # "idle" /\ w \in WorkList /\ Issues(w)
  /\ UNCHANGED <<mem, fired, run, mode>>
  /\ \A nm \in DOMAIN held : nm \in DOMAIN held' /\ held'[nm] = held[nm]

\* The tensors in hand stay so, and new ones come with the work that makes
\* them.
LEMMA ServedIssues ==
  ASSUME TypeOK, CallInv, StreamInv, RunsInv, HeldServed, NEW w, CallDoes(w), WritesWell(w),
         \A nm \in DOMAIN held :
           /\ ForkDue(nm)' => ForkDue(nm) \/ \E k \in DOMAIN w["main"] : "fork" \in w["main"][k].fires
           /\ JoinDue(nm)' => JoinDue(nm) \/ \E k \in DOMAIN w["main"] : "join" \in w["main"][k].waits,
         \A nm \in DOMAIN held' \ DOMAIN held :
           /\ ~JoinDue(nm)'
           /\ \E j \in DOMAIN w[MadeOn(nm)'] :
                /\ <<held'[nm][1], nm>> \in w[MadeOn(nm)'][j].writes
                /\ ForkDue(nm)' => \E k \in DOMAIN w["main"] : j < k /\ "fork" \in w["main"][k].fires
  PROVE  HeldServed'
<1>0. w \in WorkList /\ pc # "idle"
  BY DEF CallDoes
<1> DEFINE N == Marked(w, ThisRun)
<1>1. Meets(Queued, Memory, Events, ThisRun, OpenRun(ThisRun))
  BY CallMeets
<1>2. N \in Queue /\ \A s \in Stream : /\ DOMAIN N[s] = DOMAIN w[s]
                                       /\ \A i \in DOMAIN w[s] : N[s][i].work = w[s][i] /\ N[s][i].run = ThisRun
  BY <1>0, <1>1, MarkedIndex DEF Meets
<1>3. /\ Queued \in Queue /\ Later \in Queue /\ Added(Queued, Later, N)
      /\ mode = "capture" => Len(graph') = Len(graph)
  BY IssuesAdds DEF CallDoes
<1>4. Queued' = Later /\ Memory' = Memory /\ Events' = Events /\ ThisRun' = ThisRun
  BY <1>3, Afterwards DEF CallDoes
<1> HIDE DEF N
<1>5. ThisRun \in Nat
  BY <1>1 DEF Meets
<1>6. {"main", "alt"} = Stream
  BY DEF Stream
<1> DEFINE r == ThisRun
           Q == Queued
           Q2 == Later
           M == Memory
<1>6a. \A nm : /\ "fork" \in Dues(nm) <=> ForkDue(nm)
               /\ "join" \in Dues(nm) <=> JoinDue(nm)
               /\ "fork" \in Dues(nm)' <=> ForkDue(nm)'
               /\ "join" \in Dues(nm)' <=> JoinDue(nm)'
  BY DEF Dues, Event
<1>7. ASSUME NEW nm \in DOMAIN held
      PROVE  Ready(Q2, M, held'[nm][1], nm, MadeOn(nm)', r, Dues(nm)')
  <2> DEFINE on == MadeOn(nm)
             b == held[nm][1]
             d == Dues(nm)
             d2 == Dues(nm)'
  <2>1. held'[nm] = held[nm]
    BY DEF CallDoes
  <2>2. MadeOn(nm)' = on /\ on \in Stream
    BY <2>1 DEF MadeOn, Stream
  <2>3. Ready(Q, M, b, nm, on, r, d)
    BY DEF HeldServed
  <2>4. \A s \in Stream : \A i \in DOMAIN N[s] : N[s][i].run = r /\ ~WritesTo(N, s, i, b)
    BY <1>0, <1>2, HeldKept DEF WritesTo
  <2>5. Asks(N, on, d, d2)
    <3>1. ForkDue(nm)' => on = "main"
      BY <2>2 DEF ForkDue
    <3>2. ForkDue(nm)' => ForkDue(nm) \/ \E k \in DOMAIN N["main"] : FiresFork(N, k)
      BY <1>2, <1>6 DEF FiresFork
    <3>3. JoinDue(nm)' => JoinDue(nm) \/ \E k \in DOMAIN N["main"] : WaitsJoin(N, k)
      BY <1>2, <1>6 DEF WaitsJoin
    <3> QED
      BY <3>1, <3>2, <3>3, <1>6a DEF Asks
  <2> HIDE DEF on, b, d, d2, r, Q, Q2, M
  <2>6. r \in Nat /\ Q \in Queue /\ Q2 \in Queue /\ Added(Q, Q2, N)
    BY <1>3, <1>5 DEF r, Q, Q2
  <2>7. Ready(Q2, M, b, nm, on, r, d2)
    BY <2>2, <2>3, <2>4, <2>5, <2>6, <1>2, ReadyAdded
  <2> QED
    BY <2>1, <2>2, <2>7 DEF b, d2
<1>8. ASSUME NEW nm \in DOMAIN held' \ DOMAIN held
      PROVE  Ready(Q2, M, held'[nm][1], nm, MadeOn(nm)', r, Dues(nm)')
  <2> DEFINE on == MadeOn(nm)'
             b == held'[nm][1]
             d == Dues(nm)'
  <2>1. on \in Stream /\ (ForkDue(nm)' => on = "main")
    BY DEF MadeOn, ForkDue, Stream
  <2>2. PICK j \in DOMAIN w[on] :
           /\ <<b, nm>> \in w[on][j].writes
           /\ ForkDue(nm)' => \E k \in DOMAIN w["main"] : j < k /\ "fork" \in w["main"][k].fires
    OBVIOUS
  <2>3. j \in DOMAIN N[on] /\ N[on][j].run = r /\ <<b, nm>> \in N[on][j].work.writes
    BY <2>1, <2>2, <1>2
  <2>4. AsksNew(N, on, j, r, d)
    <3>1. ForkDue(nm)' => on = "main" /\ \E k \in DOMAIN N["main"] : j < k /\ N["main"][k].run = r /\ FiresFork(N, k)
      BY <2>1, <2>2, <1>2, <1>6 DEF FiresFork
    <3> QED
      BY <3>1, <1>6a DEF AsksNew
  <2> HIDE DEF on, b, d, r, Q, Q2, M
  <2>5. r \in Nat /\ Q \in Queue /\ Q2 \in Queue /\ Added(Q, Q2, N)
    BY <1>3, <1>5 DEF r, Q, Q2
  <2>6. Ready(Q2, M, b, nm, on, r, d)
    BY <2>1, <2>3, <2>4, <2>5, <1>2, ReadyNew
  <2> QED
    BY <2>6 DEF on, b, d
<1> QED
  BY <1>4, <1>7, <1>8 DEF HeldServed

\* The call has written to no block but those in its hands.
LEMMA TouchedIssues ==
  ASSUME TypeOK, CallInv, StreamInv, RunsInv, Touched, NEW w, CallDoes(w), pc \notin {"idle", "return"},
         \A s \in Stream : \A i \in DOMAIN w[s] : \A o \in w[s][i].writes :
           o[1] >= Own.ar => \E nm \in DOMAIN held' : held'[nm][1] = o[1]
  PROVE  Touched'
<1>0. w \in WorkList /\ pc # "idle"
  BY DEF CallDoes
<1> DEFINE N == Marked(w, ThisRun)
<1>1. Meets(Queued, Memory, Events, ThisRun, OpenRun(ThisRun))
  BY CallMeets
<1>2. N \in Queue /\ \A s \in Stream : /\ DOMAIN N[s] = DOMAIN w[s]
                                       /\ \A i \in DOMAIN w[s] : N[s][i].work = w[s][i] /\ N[s][i].run = ThisRun
  BY <1>0, <1>1, MarkedIndex DEF Meets
<1>3. /\ Queued \in Queue /\ Later \in Queue /\ Added(Queued, Later, N)
      /\ mode = "capture" => Len(graph') = Len(graph)
  BY IssuesAdds DEF CallDoes
<1>4. Queued' = Later /\ Memory' = Memory /\ Events' = Events /\ ThisRun' = ThisRun
  BY <1>3, Afterwards DEF CallDoes
<1> HIDE DEF N
<1> SUFFICES ASSUME NEW b \in Block, b >= Own.ar,
                    \/ Memory[b][2] = ThisRun
                    \/ \E s \in Stream : \E i \in DOMAIN Later[s] :
                         Later[s][i].run = ThisRun /\ WritesTo(Later, s, i, b)
             PROVE  \E nm \in DOMAIN held' : held'[nm][1] = b
  BY <1>4 DEF Touched, WritesTo
<1>5. ASSUME NEW nm \in DOMAIN held, held[nm][1] = b
      PROVE  \E n \in DOMAIN held' : held'[n][1] = b
  BY <1>5 DEF CallDoes
<1>6. CASE Memory[b][2] = ThisRun
  BY <1>5, <1>6 DEF Touched
<1>7. ASSUME NEW s \in Stream, NEW i \in DOMAIN Later[s], Later[s][i].run = ThisRun, WritesTo(Later, s, i, b)
      PROVE  \E nm \in DOMAIN held' : held'[nm][1] = b
  <2>1. CASE i \in DOMAIN Queued[s] /\ Later[s][i] = Queued[s][i]
    <3>1. Queued[s][i].run = ThisRun /\ WritesTo(Queued, s, i, b)
      BY <2>1, <1>7 DEF WritesTo
    <3> QED
      BY <2>1, <3>1, <1>5 DEF Touched
  <2>2. ASSUME NEW k \in DOMAIN N[s], Later[s][i] = N[s][k]
        PROVE  \E nm \in DOMAIN held' : held'[nm][1] = b
    <3>1. PICK o \in w[s][k].writes : o[1] = b
      BY <2>2, <1>2, <1>7 DEF WritesTo
    <3> QED
      BY <3>1, <2>2, <1>2
  <2> QED
    BY <2>1, <2>2, <1>2, <1>3, AddedIndex
<1> QED
  BY <1>6, <1>7

\* Fork and join are issued once.
LEMMA EventsIssues ==
  ASSUME TypeOK, CallInv, StreamInv, RunsInv, EventsAhead, NEW w, CallDoes(w), pc' # "gate",
         pc' \in {"clone", "shared", "routed"} =>
           /\ pc \in {"gate", "clone", "shared", "routed"}
           /\ \A i \in DOMAIN w["alt"] : "join" \notin w["alt"][i].fires,
         Open' => Open \/ \E i \in DOMAIN w["alt"] : "fork" \in w["alt"][i].waits
  PROVE  EventsAhead'
<1>0. w \in WorkList /\ pc # "idle" /\ "alt" \in Stream
  BY DEF CallDoes, Stream
<1> DEFINE N == Marked(w, ThisRun)
<1>1. Meets(Queued, Memory, Events, ThisRun, OpenRun(ThisRun))
  BY CallMeets
<1>2. /\ N \in Queue /\ DOMAIN N["alt"] = DOMAIN w["alt"]
      /\ \A i \in DOMAIN w["alt"] : N["alt"][i].work = w["alt"][i] /\ N["alt"][i].run = ThisRun
  BY <1>0, <1>1, MarkedIndex DEF Meets
<1>3. /\ Queued \in Queue /\ Later \in Queue /\ Added(Queued, Later, N)
      /\ mode = "capture" => Len(graph') = Len(graph)
  BY IssuesAdds DEF CallDoes
<1>4. Queued' = Later /\ Memory' = Memory /\ Events' = Events /\ ThisRun' = ThisRun
  BY <1>3, Afterwards DEF CallDoes
<1> HIDE DEF N
<1>5. ASSUME pc' \in {"clone", "shared", "routed"}
      PROVE  /\ <<"join", ThisRun>> \notin Events
             /\ \A i \in DOMAIN Later["alt"] : Later["alt"][i].run = ThisRun => ~FiresJoin(Later, i)
  <2>1. /\ <<"join", ThisRun>> \notin Events
        /\ \A i \in DOMAIN Queued["alt"] : Queued["alt"][i].run = ThisRun => ~FiresJoin(Queued, i)
    BY <1>5 DEF EventsAhead
  <2>2. ASSUME NEW i \in DOMAIN Later["alt"], Later["alt"][i].run = ThisRun
        PROVE  ~FiresJoin(Later, i)
    <3>1. CASE i \in DOMAIN Queued["alt"] /\ Later["alt"][i] = Queued["alt"][i]
      BY <3>1, <2>1, <2>2 DEF FiresJoin
    <3>2. CASE \E k \in DOMAIN N["alt"] : Later["alt"][i] = N["alt"][k]
      BY <3>2, <1>2, <1>5 DEF FiresJoin
    <3> QED
      BY <3>1, <3>2, <1>0, <1>2, <1>3, AddedIndex
  <2> QED
    BY <2>1, <2>2
<1>6. ASSUME Open'
      PROVE  \/ <<"fork", ThisRun>> \in Events
             \/ \E k \in DOMAIN Later["alt"] : Later["alt"][k].run = ThisRun /\ "fork" \in Later["alt"][k].work.waits
  <2>1. CASE Open
    BY <2>1, <1>0, <1>3 DEF EventsAhead, Added
  <2>2. ASSUME NEW i \in DOMAIN w["alt"], "fork" \in w["alt"][i].waits
        PROVE  \E k \in DOMAIN Later["alt"] : Later["alt"][k].run = ThisRun /\ "fork" \in Later["alt"][k].work.waits
    <3>1. Len(Queued["alt"]) + i \in DOMAIN Later["alt"] /\ Later["alt"][Len(Queued["alt"]) + i] = N["alt"][i]
      BY <1>0, <1>2, <1>3 DEF Added
    <3> QED
      BY <3>1, <2>2, <1>2
  <2> QED
    BY <2>1, <2>2, <1>6
<1> QED
  BY <1>4, <1>5, <1>6 DEF EventsAhead, FiresJoin, FiresFork

\* A call works under its own number.
LEMMA RunsIssues ==
  ASSUME TypeOK, CallInv, RunsInv, pc # "idle", NEW w \in WorkList, Issues(w), UNCHANGED <<mem, fired, run>>
  PROVE  RunsInv'
<1>1. run \in Nat
  BY DeviceTypes DEF TypeOK
<1>2. \A s \in Stream : \A i \in DOMAIN lane'[s] :
        \/ \E k \in DOMAIN lane[s] : lane'[s][i] = lane[s][k]
        \/ \E k \in DOMAIN w[s] : lane'[s][i].work = w[s][k] /\ lane'[s][i].run = run
  BY IssuesPieces
<1>3. ASSUME NEW s \in Stream, NEW i \in DOMAIN lane'[s]
      PROVE  lane'[s][i].run <= run
  BY <1>1, <1>2 DEF RunsInv
<1> QED
  BY <1>3 DEF RunsInv

-----------------------------------------------------------------------------
(* The steps of a call.                                                    *)

\* Tensors in hand stay ready, and the new ones are.
ServesHeld(w) ==
  /\ \A nm \in DOMAIN held :
       /\ ForkDue(nm)' => ForkDue(nm) \/ \E k \in DOMAIN w["main"] : "fork" \in w["main"][k].fires
       /\ JoinDue(nm)' => JoinDue(nm) \/ \E k \in DOMAIN w["main"] : "join" \in w["main"][k].waits
  /\ \A nm \in DOMAIN held' \ DOMAIN held :
       /\ ~JoinDue(nm)'
       /\ \E j \in DOMAIN w[MadeOn(nm)'] :
            /\ <<held'[nm][1], nm>> \in w[MadeOn(nm)'][j].writes
            /\ ForkDue(nm)' => \E k \in DOMAIN w["main"] : j < k /\ "fork" \in w["main"][k].fires
HoldsWritten(w) ==
  pc' # "return" =>
    \A s \in Stream : \A i \in DOMAIN w[s] : \A o \in w[s][i].writes :
      o[1] >= Own.ar => \E nm \in DOMAIN held' : held'[nm][1] = o[1]
KeepsEvents(w) ==
  /\ pc' # "gate"
  /\ pc' \in {"clone", "shared", "routed"} =>
       /\ pc \in {"gate", "clone", "shared", "routed"}
       /\ \A i \in DOMAIN w["alt"] : "join" \notin w["alt"][i].fires
  /\ Open' => Open \/ \E i \in DOMAIN w["alt"] : "fork" \in w["alt"][i].waits

\* A step of forward that enqueues such work keeps all that is known of the
\* streams.
LEMMA CallFlows ==
  ASSUME IInv, NEW w, CallDoes(w), pc # "return", WritesWell(w), ReadsHeld(w),
         InOrder(w, OpenRun(ThisRun)'), ServesHeld(w), HoldsWritten(w), KeepsEvents(w)
  PROVE  StreamInv' /\ HeldServed' /\ Touched' /\ EventsAhead' /\ RunsInv'
<1>1. /\ TypeOK /\ CallInv /\ WeightInv /\ StreamInv /\ HeldServed /\ Touched /\ EventsAhead
      /\ RunsInv /\ IdsInv
  BY DEF IInv
<1>2. /\ pc # "idle" /\ w \in WorkList /\ Issues(w) /\ UNCHANGED <<mem, fired, run, mode>>
  BY DEF CallDoes
<1>3. FitsData(Queued, Marked(w, ThisRun), Memory, ThisRun)
  BY <1>1, <1>2, DataFits
<1>4. FitsOrder(Queued, Marked(w, ThisRun), Events, ThisRun, OpenRun(ThisRun), OpenRun(ThisRun)')
  BY <1>1, <1>2, OrderFits
<1>5. StreamInv'
  BY <1>1, <1>2, <1>3, <1>4, StreamIssues
<1>6. HeldServed'
  BY <1>1, ServedIssues DEF ServesHeld
<1>7. Touched'
  <2>1. CASE pc' = "return"
    BY <2>1 DEF Touched
  <2>2. CASE pc' # "return"
    BY <2>2, <1>1, <1>2, TouchedIssues DEF HoldsWritten
  <2> QED
    BY <2>1, <2>2
<1>8. EventsAhead'
  BY <1>1, EventsIssues DEF KeepsEvents
<1>9. RunsInv'
  BY <1>1, <1>2, RunsIssues
<1> QED
  BY <1>5, <1>6, <1>7, <1>8, <1>9

\* What pieces of work are made of, and lists of them.
LEMMA PieceParts ==
  /\ \A r, u : /\ Work(r, u).reads = r /\ Work(r, u).writes = u
               /\ Work(r, u).waits = {} /\ Work(r, u).fires = {}
  /\ \A e : /\ Fires(e).reads = {} /\ Fires(e).writes = {} /\ Fires(e).waits = {} /\ Fires(e).fires = {e}
            /\ Waits(e).reads = {} /\ Waits(e).writes = {} /\ Waits(e).waits = {e} /\ Waits(e).fires = {}
BY DEF Work, Fires, Waits

\* Lists of one and of two.
LEMMA ListParts ==
  ASSUME NEW a, NEW c
  PROVE  /\ DOMAIN <<>> = {}
         /\ DOMAIN <<a>> = {1} /\ <<a>>[1] = a
         /\ DOMAIN <<a, c>> = {1, 2} /\ <<a, c>>[1] = a /\ <<a, c>>[2] = c
OBVIOUS

\* Where the tensors in hand were made.
LEMMA Homes ==
  ASSUME FreeInv, NEW nm \in DOMAIN held
  PROVE  MadeOn(nm) = IF nm = "buf" THEN "main" ELSE HomeOf(nm)
BY DEF FreeInv, MadeOn, HomeOf

\* The work of the gate.
GatePiece(b) == Work(Reads({"x"}), {<<b, "gate">>})
\* The work of the gate, piece by piece.
LEMMA GateList ==
  ASSUME TypeOK, NEW b \in Fresh, GatePiece(b) \in Pieces
  PROVE  /\ 1 \in DOMAIN GateWork(b)["main"] /\ GateWork(b)["main"][1] = GatePiece(b)
         /\ TwoStreams => /\ 2 \in DOMAIN GateWork(b)["main"] /\ GateWork(b)["main"][2] = Fires("fork")
                          /\ 1 \in DOMAIN GateWork(b)["alt"] /\ GateWork(b)["alt"][1] = Waits("fork")
         /\ \A i \in DOMAIN GateWork(b)["main"] : i = 1 \/ (i = 2 /\ TwoStreams)
         /\ \A i \in DOMAIN GateWork(b)["alt"] : i = 1 /\ TwoStreams
<1>1. Fires("fork") \in Pieces /\ Waits("fork") \in Pieces
  BY PieceTypes DEF Event
<1> DEFINE a == GatePiece(b)
           f == Fires("fork")
           g == Waits("fork")
<1>2. GateWork(b)["main"] = <<a>> \o (IF TwoStreams THEN <<f>> ELSE <<>>)
  BY DEF GateWork, Fork, GatePiece, Stream
<1>3. GateWork(b)["alt"] = <<>> \o (IF TwoStreams THEN <<g>> ELSE <<>>)
  BY DEF GateWork, Fork, GatePiece, Stream
<1> HIDE DEF a, f, g
<1>4. a \in Pieces /\ f \in Pieces /\ g \in Pieces
  BY <1>1 DEF a, f, g
<1>5. CASE TwoStreams
  <2>1. GateWork(b)["main"] = <<a, f>> /\ GateWork(b)["alt"] = <<g>>
    BY <1>2, <1>3, <1>4, <1>5, Lists
  <2> QED
    BY <1>5, <2>1, ListParts DEF a, f, g
<1>6. CASE ~TwoStreams
  <2>1. GateWork(b)["main"] = <<a>> /\ GateWork(b)["alt"] = <<>>
    BY <1>2, <1>3, <1>4, <1>6, Lists
  <2> QED
    BY <1>6, <2>1, ListParts DEF a
<1> QED
  BY <1>5, <1>6

\* What the tensors in hand are for a reader on their own stream.
LEMMA ReadsOwn ==
  ASSUME TypeOK, CallInv, FreeInv, NEW names \in SUBSET DOMAIN held, NEW s \in Stream,
         \A nm \in names : Reader(nm, s)
  PROVE  \A o \in Reads(names) :
           o[1] >= Own.ar /\ \E nm \in DOMAIN held : o = <<held[nm][1], nm>> /\ Reader(nm, s)
<1> SUFFICES ASSUME NEW o \in Reads(names)
             PROVE  o[1] >= Own.ar /\ \E nm \in DOMAIN held : o = <<held[nm][1], nm>> /\ Reader(nm, s)
  OBVIOUS
<1>1. PICK nm \in names : o = <<held[nm][1], nm>>
  BY DEF Reads
<1>2. nm = "buf" => held[nm][1] = Own.ar
  BY DEF FreeInv
<1>3. nm # "buf" => held[nm][1] \in Fresh
  BY DEF FreeInv, Given
<1>4. held[nm][1] >= Own.ar
  <2>1. \A c \in Fresh : c \in Nat /\ c > Own.ar
    BY OwnBlocks
  <2>2. Own.ar = 5
    BY DEF Own
  <2> QED
    BY <1>2, <1>3, <2>1, <2>2
<1> QED
  BY <1>1, <1>4

\* The names of the tensors, and of the streams.
LEMMA NamesKnown ==
  /\ "x" \in Passing /\ "gate" \in Passing /\ "sink" \in Passing /\ "routed" \in Passing
  /\ "shared" \in Passing /\ "buf" \in Passing /\ "sum" \in Passing
  /\ "x" \in Names /\ "gate" \in Names /\ "sink" \in Names /\ "routed" \in Names
  /\ "shared" \in Names /\ "buf" \in Names /\ "sum" \in Names
  /\ "main" \in Stream /\ "alt" \in Stream
BY DEF Passing, Names, Weights, Stream

\* A step takes a block for a new tensor.
LEMMA CallTakes ==
  ASSUME TypeOK, CallInv, FreeInv, NEW name \in Names, name # "buf", name \notin DOMAIN held,
         NEW b \in Fresh, NEW s \in Stream, s = HomeOf(name), Takes(name, s, b),
         TwoStreams' <=> TwoStreams
  PROVE  /\ FreeInv'
         /\ \A nm \in DOMAIN held : held[nm][1] # b
         /\ DOMAIN held' = DOMAIN held \cup {name} /\ held'[name] = <<b, s>>
         /\ \A nm \in DOMAIN held : held'[nm] = held[nm]
         /\ b \in Block /\ b >= Own.ar /\ {<<b, name>>} \subseteq Block \X Names
<1>1. FreeInv' /\ \A nm \in DOMAIN held : held[nm][1] # b
  BY TakesFree
<1>2. /\ DOMAIN held' = DOMAIN held \cup {name} /\ held'[name] = <<b, s>>
      /\ \A nm \in DOMAIN held : nm # name => held'[nm] = held[nm]
  BY TakesTypes
<1>3. b \in Block /\ b >= Own.ar
  <2>1. b \in Block /\ b \in Nat /\ b > Own.ar
    BY OwnBlocks
  <2>2. Own.ar = 5
    BY DEF Own
  <2> QED
    BY <2>1, <2>2
<1> QED
  BY <1>1, <1>2, <1>3

\* The gate, and the fork behind it, fit in; the lemmas that follow say it of
\* the other steps.
LEMMA GateFlows ==
  ASSUME IInv, Gate
  PROVE  StreamInv' /\ HeldServed' /\ Touched' /\ EventsAhead' /\ RunsInv' /\ FreeInv'
<1>1. /\ TypeOK /\ CallInv /\ FreeInv
  BY DEF IInv
<1>2. PICK b \in Fresh : /\ Takes("gate", "main", b)
                         /\ GateWork(b) \in WorkList /\ Issues(GateWork(b))
  BY <1>1, GateIssues
<1> DEFINE w == GateWork(b)
           a == GatePiece(b)
<1>3. /\ pc = "gate" /\ pc' \in {"routed", "clone", "shared"} /\ (TwoStreams <=> pc' # "routed")
      /\ UNCHANGED <<mem, fired, run, mode, cfg>>
  BY DEF Gate, Undisturbed
<1>4. DOMAIN held = {"x"}
  BY <1>1, <1>3 DEF CallInv, HeldNow, Outcome
<1>5. TwoStreams' <=> TwoStreams
  BY <1>3, SameConfig
<1>6. /\ FreeInv' /\ \A nm \in DOMAIN held : held[nm][1] # b
      /\ b \in Block /\ b >= Own.ar /\ {<<b, "gate">>} \subseteq Block \X Names
      /\ DOMAIN held' = DOMAIN held \cup {"gate"} /\ held'["gate"] = <<b, "main">>
      /\ \A nm \in DOMAIN held : held'[nm] = held[nm]
  <2>1. "main" = HomeOf("gate")
    BY DEF HomeOf
  <2> QED
    BY <2>1, <1>1, <1>2, <1>4, <1>5, CallTakes, NamesKnown
<1>7. DOMAIN held' = {"x", "gate"} /\ held'["gate"] = <<b, "main">> /\ held'["x"] = held["x"]
  BY <1>4, <1>6
<1>8. Reads({"x"}) \subseteq Block \X Names
  BY <1>1, <1>4, ReadsType
<1>9. a \in Pieces
  BY <1>6, <1>8, PieceTypes DEF GatePiece
<1>10. /\ 1 \in DOMAIN w["main"] /\ w["main"][1] = a
       /\ TwoStreams => /\ 2 \in DOMAIN w["main"] /\ w["main"][2] = Fires("fork")
                        /\ 1 \in DOMAIN w["alt"] /\ w["alt"][1] = Waits("fork")
       /\ \A i \in DOMAIN w["main"] : i = 1 \/ (i = 2 /\ TwoStreams)
       /\ \A i \in DOMAIN w["alt"] : i = 1 /\ TwoStreams
  BY <1>1, <1>9, GateList
<1>11. /\ a.reads = Reads({"x"}) /\ a.writes = {<<b, "gate">>} /\ a.waits = {} /\ a.fires = {}
  BY PieceParts DEF GatePiece
<1> HIDE DEF w, a
<1>12. MadeOn("x") = "main"
  BY <1>1, <1>4, Homes DEF HomeOf
<1>13. \A s \in Stream : \A i \in DOMAIN w[s] : \A o \in w[s][i].writes : s = "main" /\ i = 1 /\ o = <<b, "gate">>
  BY <1>10, <1>11, PieceParts DEF Stream
<1>14. WritesWell(w)
  BY <1>3, <1>6, <1>13, NamesKnown DEF WritesWell
<1>15. ReadsHeld(w)
  <2>1. \A s \in Stream : \A i \in DOMAIN w[s] : \A o \in w[s][i].reads : s = "main" /\ o \in Reads({"x"})
    BY <1>10, <1>11, PieceParts DEF Stream
  <2>2. Reader("x", "main") /\ {"x"} \in SUBSET DOMAIN held
    BY <1>12, <1>4 DEF Reader
  <2>3. \A o \in Reads({"x"}) : o[1] >= Own.ar /\ \E nm \in DOMAIN held : o = <<held[nm][1], nm>> /\ Reader(nm, "main")
    BY <1>1, <2>2, ReadsOwn DEF Stream
  <2> QED
    BY <2>1, <2>3 DEF ReadsHeld
<1>16. OpenRun(ThisRun)' = IF TwoStreams THEN {ThisRun} ELSE {}
  <2>1. Open' <=> TwoStreams
    BY <1>3, <1>5 DEF Open
  <2>2. ThisRun' = ThisRun
    BY <1>3 DEF ThisRun, Capturing
  <2> QED
    BY <2>1, <2>2 DEF OpenRun
<1>17. InOrder(w, OpenRun(ThisRun)')
  <2>1. ~Open
    BY <1>3 DEF Open
  <2>2. \A i \in DOMAIN w["main"] : "join" \notin w["main"][i].fires /\ ("fork" \in w["main"][i].fires => i = 2)
    BY <1>10, <1>11, PieceParts
  <2>3. \A i \in DOMAIN w["alt"] : w["alt"][i].fires = {} /\ i = 1 /\ "fork" \in w["alt"][i].waits /\ TwoStreams
    BY <1>10, PieceParts
  <2>4. DOMAIN w["alt"] # {} => ThisRun \in OpenRun(ThisRun)'
    BY <1>16, <2>3
  <2>5. \A i \in DOMAIN w["alt"] : \E k \in 1 .. i : "fork" \in w["alt"][k].waits
    BY <2>3
  <2>6. \A i \in DOMAIN w["alt"] : \A k \in DOMAIN w["alt"] : k <= i
    BY <2>3
  <2> QED
    BY <1>3, <2>1, <2>2, <2>3, <2>4, <2>5, <2>6 DEF InOrder
<1>18. CallDoes(w)
  BY <1>2, <1>3, <1>4, <1>7 DEF CallDoes, w
<1>19. ServesHeld(w)
  <2>1. \A nm \in DOMAIN held' : MadeOn(nm)' = "main" /\ ~JoinDue(nm)'
    <3>1. \A nm \in DOMAIN held' : MadeOn(nm)' = "main"
      <4>1. held'["x"][2] = "main"
        BY <1>1, <1>4, <1>7 DEF FreeInv
      <4> QED
        BY <1>7, <4>1 DEF MadeOn
    <3> QED
      BY <3>1 DEF JoinDue
  <2>2. \A nm : ForkDue(nm)' => TwoStreams
    BY <1>5 DEF ForkDue
  <2>3. TwoStreams => 2 \in DOMAIN w["main"] /\ "fork" \in w["main"][2].fires
    BY <1>10, PieceParts
  <2>4. <<held'["gate"][1], "gate">> \in w["main"][1].writes /\ 1 \in DOMAIN w["main"]
    BY <1>7, <1>10, <1>11
  <2>5. \A nm \in DOMAIN held' \ DOMAIN held : nm = "gate"
    BY <1>4, <1>7
  <2>6. \A nm \in DOMAIN held : nm \in DOMAIN held'
    BY <1>4, <1>7
  <2>7. ForkDue("gate")' => \E k \in DOMAIN w["main"] : 1 < k /\ "fork" \in w["main"][k].fires
    BY <2>2, <2>3
  <2>8. \E j \in DOMAIN w[MadeOn("gate")'] :
            /\ <<held'["gate"][1], "gate">> \in w[MadeOn("gate")'][j].writes
            /\ ForkDue("gate")' => \E k \in DOMAIN w["main"] : j < k /\ "fork" \in w["main"][k].fires
    BY <1>7, <2>1, <2>4, <2>7
  <2> QED
    BY <1>7, <2>1, <2>2, <2>3, <2>5, <2>6, <2>8 DEF ServesHeld
<1>20. HoldsWritten(w)
  BY <1>7, <1>13 DEF HoldsWritten
<1>21. KeepsEvents(w)
  <2>1. \A i \in DOMAIN w["alt"] : "join" \notin w["alt"][i].fires
    BY <1>10, PieceParts
  <2>2. Open' => TwoStreams
    BY <1>5 DEF Open
  <2>3. TwoStreams => \E i \in DOMAIN w["alt"] : "fork" \in w["alt"][i].waits
    BY <1>10, PieceParts
  <2> QED
    BY <1>3, <2>1, <2>2, <2>3 DEF KeepsEvents
<1> QED
  BY <1>3, <1>6, <1>14, <1>15, <1>17, <1>18, <1>19, <1>20, <1>21, CallFlows

\* The second stream copies its input only after the fork.
LEMMA CloneFlows ==
  ASSUME IInv, Clone
  PROVE  StreamInv' /\ HeldServed' /\ Touched' /\ EventsAhead' /\ RunsInv' /\ FreeInv'
<1>1. /\ TypeOK /\ CallInv /\ FreeInv
  BY DEF IInv
<1>2. PICK b \in Fresh : /\ Takes("sink", "alt", b)
                         /\ CloneWork(b) \in WorkList /\ Issues(CloneWork(b))
  BY <1>1, CloneIssues
<1> DEFINE w == CloneWork(b)
           a == Work(Reads({"x"}), {<<b, "sink">>})
<1>3. /\ pc = "clone" /\ pc' = "shared" /\ TwoStreams /\ CloneSink
      /\ UNCHANGED <<mem, fired, run, mode, cfg>>
  BY <1>1 DEF Clone, Undisturbed, CallInv
<1>4. DOMAIN held = {"x", "gate"}
  BY <1>1, <1>3 DEF CallInv, HeldNow, Outcome
<1>5. TwoStreams' <=> TwoStreams
  BY <1>3, SameConfig
<1>6. /\ FreeInv' /\ \A nm \in DOMAIN held : held[nm][1] # b
      /\ b \in Block /\ b >= Own.ar /\ {<<b, "sink">>} \subseteq Block \X Names
      /\ DOMAIN held' = DOMAIN held \cup {"sink"} /\ held'["sink"] = <<b, "alt">>
      /\ \A nm \in DOMAIN held : held'[nm] = held[nm]
  <2>1. "alt" = HomeOf("sink")
    BY DEF HomeOf
  <2> QED
    BY <2>1, <1>1, <1>2, <1>4, <1>5, CallTakes, NamesKnown
<1>7. /\ DOMAIN held' = {"x", "gate", "sink"} /\ held'["sink"] = <<b, "alt">>
      /\ \A nm \in DOMAIN held : held'[nm] = held[nm]
  BY <1>4, <1>6
<1>8. Reads({"x"}) \subseteq Block \X Names
  <2>1. {"x"} \in SUBSET DOMAIN held
    BY <1>4
  <2> QED
    BY <2>1, <1>1, ReadsType
<1>9. a \in Pieces
  BY <1>6, <1>8, PieceTypes
<1>10. w["main"] = <<>> /\ w["alt"] = <<a>>
  BY <1>9, Lists, OneList DEF CloneWork, Stream
<1>11. /\ a.reads = Reads({"x"}) /\ a.writes = {<<b, "sink">>} /\ a.waits = {} /\ a.fires = {}
  BY PieceParts
<1> HIDE DEF w, a
<1>12. DOMAIN w["main"] = {} /\ DOMAIN w["alt"] = {1} /\ w["alt"][1] = a
  BY <1>10, ListParts
<1>13. \A s \in Stream : \A i \in DOMAIN w[s] : s = "alt" /\ i = 1 /\ w[s][i] = a
  BY <1>12 DEF Stream
<1>14. WritesWell(w)
  BY <1>3, <1>6, <1>11, <1>13, NamesKnown DEF WritesWell
<1>15. ReadsHeld(w)
  <2>1. MadeOn("x") = "main"
    BY <1>1, <1>4, Homes DEF HomeOf
  <2>2. Reader("x", "alt") /\ {"x"} \in SUBSET DOMAIN held
    BY <1>3, <1>4, <2>1 DEF Reader, ForkDue
  <2>3. \A o \in Reads({"x"}) : o[1] >= Own.ar /\ \E nm \in DOMAIN held : o = <<held[nm][1], nm>> /\ Reader(nm, "alt")
    BY <1>1, <2>2, ReadsOwn, NamesKnown
  <2> QED
    BY <1>11, <1>13, <2>3 DEF ReadsHeld
<1>16. OpenRun(ThisRun)' = {ThisRun} /\ Open
  <2>1. Open' /\ Open
    BY <1>3, <1>5 DEF Open
  <2>2. ThisRun' = ThisRun
    BY <1>3 DEF ThisRun, Capturing
  <2> QED
    BY <2>1, <2>2 DEF OpenRun
<1>17. InOrder(w, OpenRun(ThisRun)')
  <2>1. \A i \in DOMAIN w["alt"] : w["alt"][i].fires = {}
    BY <1>11, <1>12
  <2> QED
    BY <1>3, <1>12, <1>16, <2>1 DEF InOrder
<1>18. CallDoes(w)
  BY <1>2, <1>3, <1>4, <1>7 DEF CallDoes, w
<1>19. ServesHeld(w)
  <2>1. \A nm : ~JoinDue(nm)'
    BY <1>3 DEF JoinDue
  <2>2. \A nm \in DOMAIN held : ForkDue(nm)' => ForkDue(nm)
    BY <1>3, <1>7 DEF ForkDue, MadeOn
  <2>3. MadeOn("sink")' = "alt" /\ ~ForkDue("sink")'
    BY <1>7 DEF MadeOn, ForkDue
  <2>4. \A nm \in DOMAIN held' \ DOMAIN held : nm = "sink"
    BY <1>4, <1>7
  <2>5. <<held'["sink"][1], "sink">> \in w[MadeOn("sink")'][1].writes /\ 1 \in DOMAIN w[MadeOn("sink")']
    BY <1>7, <1>11, <1>12, <2>3
  <2> QED
    BY <2>1, <2>2, <2>3, <2>4, <2>5 DEF ServesHeld
<1>20. HoldsWritten(w)
  BY <1>7, <1>11, <1>13 DEF HoldsWritten
<1>21. KeepsEvents(w)
  BY <1>3, <1>11, <1>12, <1>16 DEF KeepsEvents
<1> QED
  BY <1>3, <1>6, <1>14, <1>15, <1>17, <1>18, <1>19, <1>20, <1>21, CallFlows

\* The work of the routed experts, and the join.
RoutedPiece(b) == Work(Reads({"x", "gate"}), {<<b, "routed">>})
\* The work of the routed experts, piece by piece.
LEMMA RoutedList ==
  ASSUME TypeOK, NEW b \in Fresh, RoutedPiece(b) \in Pieces
  PROVE  /\ 1 \in DOMAIN RoutedWork(b)["main"] /\ RoutedWork(b)["main"][1] = RoutedPiece(b)
         /\ TwoStreams => /\ 2 \in DOMAIN RoutedWork(b)["main"] /\ RoutedWork(b)["main"][2] = Waits("join")
                          /\ 1 \in DOMAIN RoutedWork(b)["alt"] /\ RoutedWork(b)["alt"][1] = Fires("join")
         /\ \A i \in DOMAIN RoutedWork(b)["main"] : i = 1 \/ (i = 2 /\ TwoStreams)
         /\ \A i \in DOMAIN RoutedWork(b)["alt"] : i = 1 /\ TwoStreams
<1>1. Fires("join") \in Pieces /\ Waits("join") \in Pieces
  BY PieceTypes DEF Event
<1> DEFINE a == RoutedPiece(b)
           f == Waits("join")
           g == Fires("join")
<1>2. RoutedWork(b)["main"] = <<a>> \o (IF TwoStreams THEN <<f>> ELSE <<>>)
  BY DEF RoutedWork, Join, RoutedPiece, Stream
<1>3. RoutedWork(b)["alt"] = <<>> \o (IF TwoStreams THEN <<g>> ELSE <<>>)
  BY DEF RoutedWork, Join, RoutedPiece, Stream
<1> HIDE DEF a, f, g
<1>4. a \in Pieces /\ f \in Pieces /\ g \in Pieces
  BY <1>1 DEF a, f, g
<1>5. CASE TwoStreams
  <2>1. RoutedWork(b)["main"] = <<a, f>> /\ RoutedWork(b)["alt"] = <<g>>
    BY <1>2, <1>3, <1>4, <1>5, Lists
  <2> QED
    BY <1>5, <2>1, ListParts DEF a, f, g
<1>6. CASE ~TwoStreams
  <2>1. RoutedWork(b)["main"] = <<a>> /\ RoutedWork(b)["alt"] = <<>>
    BY <1>2, <1>3, <1>4, <1>6, Lists
  <2> QED
    BY <1>6, <2>1, ListParts DEF a
<1> QED
  BY <1>5, <1>6

\* The routed experts run on the first stream, which then waits for the other.
LEMMA RoutedFlows ==
  ASSUME IInv, RoutedExperts
  PROVE  StreamInv' /\ HeldServed' /\ Touched' /\ EventsAhead' /\ RunsInv' /\ FreeInv'
<1>1. /\ TypeOK /\ CallInv /\ FreeInv
  BY DEF IInv
<1>2. PICK b \in Fresh : /\ Takes("routed", "main", b)
                         /\ RoutedWork(b) \in WorkList /\ Issues(RoutedWork(b))
  BY <1>1, RoutedIssues
<1> DEFINE w == RoutedWork(b)
           a == RoutedPiece(b)
<1>3. /\ pc = "routed" /\ pc' = (IF Has /\ ~TwoStreams THEN "shared" ELSE "combine")
      /\ UNCHANGED <<mem, fired, run, mode, cfg>>
  BY DEF RoutedExperts, Undisturbed
<1>4. /\ {"x", "gate"} \subseteq DOMAIN held /\ "routed" \notin DOMAIN held /\ "buf" \notin DOMAIN held
      /\ "sum" \notin DOMAIN held
      /\ ~TwoStreams => DOMAIN held = {"x", "gate"}
  BY <1>1, <1>3 DEF CallInv, HeldNow, Outcome
<1>5. (TwoStreams' <=> TwoStreams) /\ (TwoStreams => Has)
  BY <1>3, SameConfig DEF TwoStreams
<1>6. /\ FreeInv' /\ \A nm \in DOMAIN held : held[nm][1] # b
      /\ b \in Block /\ b >= Own.ar /\ {<<b, "routed">>} \subseteq Block \X Names
      /\ DOMAIN held' = DOMAIN held \cup {"routed"} /\ held'["routed"] = <<b, "main">>
      /\ \A nm \in DOMAIN held : held'[nm] = held[nm]
  <2>1. "main" = HomeOf("routed")
    BY DEF HomeOf
  <2> QED
    BY <2>1, <1>1, <1>2, <1>4, <1>5, CallTakes, NamesKnown
<1>8. Reads({"x", "gate"}) \subseteq Block \X Names
  <2>1. {"x", "gate"} \in SUBSET DOMAIN held
    BY <1>4
  <2> QED
    BY <2>1, <1>1, ReadsType
<1>9. a \in Pieces
  BY <1>6, <1>8, PieceTypes DEF RoutedPiece
<1>10. /\ 1 \in DOMAIN w["main"] /\ w["main"][1] = a
       /\ TwoStreams => /\ 2 \in DOMAIN w["main"] /\ w["main"][2] = Waits("join")
                        /\ 1 \in DOMAIN w["alt"] /\ w["alt"][1] = Fires("join")
       /\ \A i \in DOMAIN w["main"] : i = 1 \/ (i = 2 /\ TwoStreams)
       /\ \A i \in DOMAIN w["alt"] : i = 1 /\ TwoStreams
  BY <1>1, <1>9, RoutedList
<1>11. /\ a.reads = Reads({"x", "gate"}) /\ a.writes = {<<b, "routed">>} /\ a.waits = {} /\ a.fires = {}
  BY PieceParts DEF RoutedPiece
<1> HIDE DEF w, a
<1>12. MadeOn("x") = "main" /\ MadeOn("gate") = "main"
  BY <1>1, <1>4, Homes DEF HomeOf
<1>13. \A s \in Stream : \A i \in DOMAIN w[s] : \A o \in w[s][i].writes : s = "main" /\ i = 1 /\ o = <<b, "routed">>
  BY <1>10, <1>11, PieceParts DEF Stream
<1>14. WritesWell(w)
  BY <1>3, <1>6, <1>13, NamesKnown DEF WritesWell
<1>15. ReadsHeld(w)
  <2>1. \A s \in Stream : \A i \in DOMAIN w[s] : \A o \in w[s][i].reads : s = "main" /\ o \in Reads({"x", "gate"})
    BY <1>10, <1>11, PieceParts DEF Stream
  <2>2. \A nm \in {"x", "gate"} : Reader(nm, "main")
    BY <1>12 DEF Reader
  <2>3. \A o \in Reads({"x", "gate"}) :
          o[1] >= Own.ar /\ \E nm \in DOMAIN held : o = <<held[nm][1], nm>> /\ Reader(nm, "main")
    <3>1. {"x", "gate"} \in SUBSET DOMAIN held
      BY <1>4
    <3> QED
      BY <1>1, <3>1, <2>2, ReadsOwn, NamesKnown
  <2> QED
    BY <2>1, <2>3 DEF ReadsHeld
<1>16. (TwoStreams => Open /\ pc' = "combine") /\ ~Open' /\ (~TwoStreams => ~Open)
  BY <1>3, <1>5 DEF Open
<1>17. InOrder(w, OpenRun(ThisRun)')
  <2>1. \A i \in DOMAIN w["main"] : w["main"][i].fires = {}
    BY <1>10, <1>11, PieceParts
  <2>2. \A i \in DOMAIN w["alt"] : w["alt"][i].fires = {"join"} /\ i = 1 /\ Open
    BY <1>10, <1>16, PieceParts
  <2>3. TwoStreams => \E k \in DOMAIN w["main"] : "join" \in w["main"][k].waits
    BY <1>10, PieceParts
  <2>4. \A i \in DOMAIN w["alt"] : \A k \in DOMAIN w["alt"] : k <= i
    BY <2>2
  <2>5. Open \/ DOMAIN w["alt"] # {} => TwoStreams
    BY <1>10, <1>16
  <2>6. \A i \in DOMAIN w["alt"] : "fork" \notin w["alt"][i].fires
    BY <2>2
  <2> QED
    BY <1>3, <2>1, <2>2, <2>3, <2>4, <2>5, <2>6 DEF InOrder
<1>18. CallDoes(w)
  BY <1>2, <1>3, <1>6 DEF CallDoes, w
<1>19. ServesHeld(w)
  <2>1. \A nm \in DOMAIN held : (ForkDue(nm)' => ForkDue(nm)) /\ MadeOn(nm)' = MadeOn(nm)
    BY <1>3, <1>5, <1>6 DEF ForkDue, MadeOn
  <2>2. MadeOn("routed")' = "main" /\ ~JoinDue("routed")' /\ ~ForkDue("routed")'
    BY <1>6 DEF MadeOn, ForkDue, JoinDue
  <2>3. \A nm \in DOMAIN held' \ DOMAIN held : nm = "routed"
    BY <1>6
  <2>4. <<held'["routed"][1], "routed">> \in w[MadeOn("routed")'][1].writes /\ 1 \in DOMAIN w[MadeOn("routed")']
    BY <1>6, <1>10, <1>11, <2>2
  <2>5. \A nm \in DOMAIN held : JoinDue(nm)' => \E k \in DOMAIN w["main"] : "join" \in w["main"][k].waits
    <3>1. CASE TwoStreams
      BY <3>1, <1>10, PieceParts
    <3>2. CASE ~TwoStreams
      BY <3>2, <1>4, <1>12, <2>1 DEF JoinDue
    <3> QED
      BY <3>1, <3>2
  <2> QED
    BY <2>1, <2>2, <2>3, <2>4, <2>5 DEF ServesHeld
<1>20. HoldsWritten(w)
  BY <1>6, <1>13 DEF HoldsWritten
<1>21. KeepsEvents(w)
  <2>1. pc' = "shared" => \A i \in DOMAIN w["alt"] : FALSE
    BY <1>3, <1>10
  <2> QED
    BY <1>3, <1>16, <2>1 DEF KeepsEvents
<1> QED
  BY <1>3, <1>6, <1>14, <1>15, <1>17, <1>18, <1>19, <1>20, <1>21, CallFlows

\* The work of the shared experts: the copy of the weights is there, and the
\* ids are made once.
SharedPiece(b) == Work(SharedReads, {<<b, "shared">>})
IdsPiece       == Work({}, {<<Own.ids, "ids">>})
\* The work of the shared experts, piece by piece; the ids are made by the
\* first of them.
LEMMA SharedList ==
  ASSUME TypeOK, CallInv, WeightInv, SharedExperts, NEW b \in Fresh, SharedPiece(b) \in Pieces
  PROVE  /\ \A s \in Stream : s # SharedOn => DOMAIN SharedWork(b)[s] = {}
         /\ \E k \in DOMAIN SharedWork(b)[SharedOn] :
              /\ SharedWork(b)[SharedOn][k] = SharedPiece(b)
              /\ \A i \in DOMAIN SharedWork(b)[SharedOn] : i # k =>
                   /\ i = 1 /\ k = 2 /\ SharedWork(b)[SharedOn][i] = IdsPiece
                   /\ SharedKind = "fused" /\ ~idsBuilt
              /\ SharedKind = "fused" /\ ~idsBuilt =>
                   k = 2 /\ 1 \in DOMAIN SharedWork(b)[SharedOn] /\ SharedWork(b)[SharedOn][1] = IdsPiece
<1> DEFINE c == SharedPiece(b)
           d == IdsPiece
           l == Builds \o Stacks \o <<c>>
<1>1. d \in Pieces
  BY OwnBlocks, PieceTypes DEF IdsPiece, Names
<1>2. SharedKind = "linear" => linear
  BY DEF SharedExperts, CallInv, WeightInv, SinkKept
<1>3. Stacks = <<>>
  BY <1>2 DEF Stacks
<1>4. Builds = IF SharedKind = "fused" /\ ~idsBuilt THEN <<d>> ELSE <<>>
  BY DEF Builds, IdsPiece
<1>5. SharedOn \in Stream
  BY DEF SharedOn, Stream
<1> HIDE DEF c, d
<1>6. c \in Pieces
  BY DEF c
<1>7. l = IF SharedKind = "fused" /\ ~idsBuilt THEN <<d, c>> ELSE <<c>>
  <2>1. Builds \o Stacks = Builds
    BY <1>1, <1>3, <1>4, Lists
  <2> QED
    BY <2>1, <1>1, <1>4, <1>6, Lists
<1>8. l \in Seq(Pieces)
  BY <1>1, <1>6, <1>7, Lists
<1>9. \A s \in Stream : SharedWork(b)[s] = IF s = SharedOn THEN l ELSE <<>>
  <2>1. SharedWork(b) = [Empty EXCEPT ![SharedOn] = l]
    BY DEF SharedWork, c, SharedPiece
  <2> HIDE DEF l
  <2> QED
    BY <2>1, <1>5, <1>8, OneList
<1>10. \E k \in DOMAIN l : /\ l[k] = c
                           /\ \A i \in DOMAIN l : i # k => /\ i = 1 /\ k = 2 /\ l[i] = d
                                                           /\ SharedKind = "fused" /\ ~idsBuilt
                           /\ SharedKind = "fused" /\ ~idsBuilt => k = 2 /\ 1 \in DOMAIN l /\ l[1] = d
  <2>1. CASE l = <<c>> /\ ~(SharedKind = "fused" /\ ~idsBuilt)
    <3>1. DOMAIN l = {1} /\ l[1] = c
      BY <2>1, ListParts
    <3> QED
      BY <2>1, <3>1
  <2>2. CASE l = <<d, c>> /\ SharedKind = "fused" /\ ~idsBuilt
    <3>0. DOMAIN <<d, c>> = {1, 2} /\ <<d, c>>[1] = d /\ <<d, c>>[2] = c
      BY ListParts
    <3> HIDE DEF l
    <3>1. DOMAIN l = {1, 2} /\ l[1] = d /\ l[2] = c
      BY <2>2, <3>0
    <3> QED
      BY <3>1, <2>2
  <2> QED
    BY <2>1, <2>2, <1>7
<1> HIDE DEF l
<1>11. DOMAIN <<>> = {}
  BY ListParts
<1> QED
  BY <1>5, <1>9, <1>10, <1>11 DEF c, d

\* The shared experts run on their own stream behind the fork, and the join is
\* the last they do.
LEMMA SharedFlows ==
  ASSUME IInv, SharedExperts
  PROVE  StreamInv' /\ HeldServed' /\ Touched' /\ EventsAhead' /\ RunsInv' /\ FreeInv'
<1>1. /\ TypeOK /\ CallInv /\ FreeInv /\ WeightInv /\ IdsInv
  BY DEF IInv
<1>2. PICK b \in Fresh : /\ Takes("shared", SharedOn, b)
                         /\ SharedWork(b) \in WorkList /\ Issues(SharedWork(b))
  BY <1>1, SharedIssues
<1> DEFINE w == SharedWork(b)
           c == SharedPiece(b)
           names == (IF "sink" \in DOMAIN held THEN {"sink"} ELSE {"x"})
                      \cup (IF cfg.sink THEN {"gate"} ELSE {})
<1>3. /\ pc = "shared" /\ pc' = (IF TwoStreams THEN "routed" ELSE "combine")
      /\ UNCHANGED <<mem, fired, run, mode, cfg>>
  BY DEF SharedExperts, Undisturbed
<1>4. /\ {"x", "gate"} \subseteq DOMAIN held /\ "shared" \notin DOMAIN held /\ "buf" \notin DOMAIN held
      /\ "sink" \in DOMAIN held => TwoStreams
      /\ DOMAIN held \subseteq {"x", "gate", "sink", "routed"}
  BY <1>1, <1>3 DEF CallInv, HeldNow, Outcome
<1>5. TwoStreams' <=> TwoStreams
  BY <1>3, SameConfig
<1>6. /\ FreeInv' /\ \A nm \in DOMAIN held : held[nm][1] # b
      /\ b \in Block /\ b >= Own.ar /\ {<<b, "shared">>} \subseteq Block \X Names
      /\ DOMAIN held' = DOMAIN held \cup {"shared"} /\ held'["shared"] = <<b, SharedOn>>
      /\ \A nm \in DOMAIN held : held'[nm] = held[nm]
  <2>1. SharedOn = HomeOf("shared") /\ SharedOn \in Stream
    BY DEF HomeOf, SharedOn, Stream
  <2> QED
    BY <2>1, <1>1, <1>2, <1>4, <1>5, CallTakes, NamesKnown
<1>7. names \in SUBSET DOMAIN held
  BY <1>4
<1>8. SharedReads \subseteq Block \X Names
  <2>1. Reads(names) \subseteq Block \X Names
    BY <1>1, <1>7, ReadsType
  <2>2. {<<Own.ids, "ids">>} \subseteq Block \X Names
    BY OwnBlocks DEF Names
  <2> QED
    BY <2>1, <2>2, OwnBlocks DEF SharedReads
<1>9. c \in Pieces
  BY <1>6, <1>8, PieceTypes DEF SharedPiece
<1>10. /\ c.reads = SharedReads /\ c.writes = {<<b, "shared">>} /\ c.waits = {} /\ c.fires = {}
       /\ IdsPiece.reads = {} /\ IdsPiece.writes = {<<Own.ids, "ids">>}
       /\ IdsPiece.waits = {} /\ IdsPiece.fires = {}
  BY PieceParts DEF SharedPiece, IdsPiece
<1>11. /\ \A s \in Stream : s # SharedOn => DOMAIN w[s] = {}
       /\ \E k \in DOMAIN w[SharedOn] :
            /\ w[SharedOn][k] = c
            /\ \A i \in DOMAIN w[SharedOn] : i # k =>
                 i = 1 /\ k = 2 /\ w[SharedOn][i] = IdsPiece /\ SharedKind = "fused" /\ ~idsBuilt
  BY <1>1, <1>9, SharedList
<1> HIDE DEF w, c, names
<1>12. PICK k \in DOMAIN w[SharedOn] :
            /\ w[SharedOn][k] = c
            /\ \A i \in DOMAIN w[SharedOn] : i # k =>
                 i = 1 /\ k = 2 /\ w[SharedOn][i] = IdsPiece /\ SharedKind = "fused" /\ ~idsBuilt
  BY <1>11
<1>13. \A s \in Stream : \A i \in DOMAIN w[s] : s = SharedOn /\ (i = k \/ w[s][i] = IdsPiece)
  BY <1>11, <1>12
<1>14. SharedKind = "fused" /\ ~idsBuilt => ~Capturing
  BY <1>1 DEF IdsInv
<1>15. WritesWell(w)
  <2>1. \A s \in Stream : \A i \in DOMAIN w[s] : \A o \in w[s][i].writes :
          \/ s = SharedOn /\ i = k /\ o = <<b, "shared">>
          \/ s = SharedOn /\ i # k /\ i = 1 /\ o = <<Own.ids, "ids">> /\ ~Capturing
    BY <1>10, <1>11, <1>12, <1>14
  <2>2. b # Own.ids
    BY <1>6 DEF Own
  <2>3. /\ b \in Block /\ b >= Own.ar /\ "shared" \in Passing /\ pc = "shared"
        /\ \A nm \in DOMAIN held : held[nm][1] # b
    BY <1>3, <1>6, NamesKnown
  <2>4. ASSUME NEW s \in Stream, NEW q \in Stream, NEW i \in DOMAIN w[s], NEW j \in DOMAIN w[q],
               NEW o \in w[s][i].writes, NEW p \in w[q][j].writes, o[1] = p[1]
        PROVE  s = q /\ i = j /\ o = p
    <3>1. \/ s = SharedOn /\ i = k /\ o = <<b, "shared">>
          \/ s = SharedOn /\ i # k /\ i = 1 /\ o = <<Own.ids, "ids">>
      BY <2>1
    <3>2. \/ q = SharedOn /\ j = k /\ p = <<b, "shared">>
          \/ q = SharedOn /\ j # k /\ j = 1 /\ p = <<Own.ids, "ids">>
      BY <2>1
    <3> QED
      BY <3>1, <3>2, <2>2, <2>4
  <2>5. \A s \in Stream : \A i \in DOMAIN w[s] : \A o \in w[s][i].writes :
          \/ o = <<Own.ids, "ids">> /\ pc = "shared" /\ ~Capturing
          \/ /\ o[1] \in Block /\ o[1] >= Own.ar /\ o[2] \in Passing
             /\ pc \notin {"idle", "return"}
             /\ \A nm \in DOMAIN held : held[nm][1] # o[1]
    BY <2>1, <2>3
  <2> QED
    BY <2>4, <2>5 DEF WritesWell
<1>16. ReadsHeld(w)
  <2>1. MadeOn("x") = "main" /\ MadeOn("gate") = "main" /\ ("sink" \in DOMAIN held => MadeOn("sink") = "alt")
    BY <1>1, <1>4, Homes DEF HomeOf
  <2>2. \A nm \in names : Reader(nm, SharedOn)
    BY <1>3, <1>4, <2>1 DEF Reader, ForkDue, SharedOn, names
  <2>3. \A o \in Reads(names) :
          o[1] >= Own.ar /\ \E nm \in DOMAIN held : o = <<held[nm][1], nm>> /\ Reader(nm, SharedOn)
    <3>1. SharedOn \in Stream
      BY DEF SharedOn, Stream
    <3> QED
      BY <1>1, <1>7, <2>2, <3>1, ReadsOwn
  <2>4. \A o \in SharedReads : o[2] \in Passing => o \in Reads(names)
    <3>1. SinkReads \subseteq {<<Own.w2, "w2">>, <<Own.w2lin, "w2lin">>, <<Own.fp4, "fp4">>}
      BY DEF SinkReads
    <3>2. /\ \A o \in SinkReads : o[2] \in Weights
          /\ "ids" \notin Passing /\ Weights \cap Passing = {}
      BY <3>1 DEF Weights, Passing
    <3> QED
      BY <3>2 DEF SharedReads, names
  <2>5. \A s \in Stream : \A i \in DOMAIN w[s] : \A o \in w[s][i].reads : s = SharedOn /\ o \in SharedReads
    BY <1>10, <1>12, <1>13
  <2> QED
    BY <2>3, <2>4, <2>5 DEF ReadsHeld
<1>17. (TwoStreams => Open /\ Open') /\ (~TwoStreams => ~Open /\ ~Open')
  BY <1>3, <1>5 DEF Open
<1>18. OpenRun(ThisRun)' = IF TwoStreams THEN {ThisRun} ELSE {}
  <2>1. ThisRun' = ThisRun
    BY <1>3 DEF ThisRun, Capturing
  <2> QED
    BY <2>1, <1>17 DEF OpenRun
<1>19. \A s \in Stream : \A i \in DOMAIN w[s] : w[s][i].fires = {} /\ w[s][i].waits = {}
  BY <1>10, <1>12, <1>13
<1>20. DOMAIN w["alt"] # {} => TwoStreams
  BY <1>11 DEF SharedOn, Stream
<1>21. InOrder(w, OpenRun(ThisRun)')
  BY <1>3, <1>17, <1>18, <1>19, <1>20, NamesKnown DEF InOrder
<1>22. CallDoes(w)
  BY <1>2, <1>3, <1>6 DEF CallDoes, w
<1>23. ServesHeld(w)
  <2>1. \A nm \in DOMAIN held : (ForkDue(nm)' => ForkDue(nm)) /\ MadeOn(nm)' = MadeOn(nm)
    BY <1>3, <1>5, <1>6 DEF ForkDue, MadeOn
  <2>2. \A nm \in DOMAIN held : ~JoinDue(nm)'
    <3>1. ~TwoStreams => \A nm \in DOMAIN held : MadeOn(nm) = "main"
      BY <1>1, <1>4, Homes DEF HomeOf
    <3> QED
      BY <1>3, <2>1, <3>1 DEF JoinDue
  <2>3. MadeOn("shared")' = SharedOn /\ ~ForkDue("shared")' /\ ~JoinDue("shared")'
    BY <1>3, <1>6 DEF MadeOn, SharedOn, ForkDue, JoinDue
  <2>4. \A nm \in DOMAIN held' \ DOMAIN held : nm = "shared"
    BY <1>6
  <2>5. <<held'["shared"][1], "shared">> \in w[SharedOn][k].writes
    BY <1>6, <1>10, <1>12
  <2> QED
    BY <2>1, <2>2, <2>3, <2>4, <2>5 DEF ServesHeld
<1>24. HoldsWritten(w)
  <2>1. ~(Own.ids >= Own.ar)
    BY DEF Own
  <2> QED
    BY <1>6, <1>10, <1>12, <1>13, <2>1 DEF HoldsWritten
<1>25. KeepsEvents(w)
  BY <1>3, <1>17, <1>19, NamesKnown DEF KeepsEvents
<1> QED
  BY <1>3, <1>6, <1>15, <1>16, <1>21, <1>22, <1>23, <1>24, <1>25, CallFlows

\* Fork and join as they are, and what is in hand stays: a step on the first
\* stream only.
LEMMA MainFlows ==
  ASSUME IInv, pc = "combine", pc' = "return", NEW w, CallDoes(w), UNCHANGED cfg,
         WritesWell(w), ReadsHeld(w), DOMAIN w["alt"] = {},
         \A i \in DOMAIN w["main"] : w["main"][i].fires = {},
         \A nm \in DOMAIN held' \ DOMAIN held :
           /\ nm \notin {"x", "gate"} /\ held'[nm][2] # "alt"
           /\ \E j \in DOMAIN w["main"] : <<held'[nm][1], nm>> \in w["main"][j].writes
  PROVE  StreamInv' /\ HeldServed' /\ Touched' /\ EventsAhead' /\ RunsInv'
<1>1. ~Open /\ ~Open'
  BY DEF Open
<1>2. mode' = mode /\ \A nm \in DOMAIN held : held'[nm] = held[nm]
  BY DEF CallDoes
<1>3. TwoStreams' <=> TwoStreams
  BY <1>2, SameConfig
<1>4. InOrder(w, OpenRun(ThisRun)')
  BY <1>1 DEF InOrder
<1>5. ServesHeld(w)
  <2>1. \A nm \in DOMAIN held : (ForkDue(nm)' => ForkDue(nm)) /\ (JoinDue(nm)' => JoinDue(nm))
    BY <1>2, <1>3 DEF ForkDue, JoinDue, MadeOn
  <2>2. \A nm \in DOMAIN held' \ DOMAIN held : MadeOn(nm)' = "main" /\ ~ForkDue(nm)' /\ ~JoinDue(nm)'
    BY DEF MadeOn, ForkDue, JoinDue
  <2> QED
    BY <2>1, <2>2 DEF ServesHeld
<1>6. HoldsWritten(w) /\ KeepsEvents(w)
  BY <1>1 DEF HoldsWritten, KeepsEvents
<1> QED
  BY <1>4, <1>5, <1>6, CallFlows

\* Work for the first stream only.
LEMMA OnMainParts ==
  ASSUME NEW l \in Seq(Pieces)
  PROVE  OnMain(l)["main"] = l /\ OnMain(l)["alt"] = <<>> /\ DOMAIN OnMain(l)["alt"] = {}
<1>1. \A s \in Stream : [Empty EXCEPT !["main"] = l][s] = IF s = "main" THEN l ELSE <<>>
  <2>1. "main" \in Stream
    BY NamesKnown
  <2> QED
    BY <2>1, OneList
<1>2. OnMain(l)["main"] = l /\ OnMain(l)["alt"] = <<>>
  BY <1>1, NamesKnown DEF OnMain
<1> QED
  BY <1>2, ListParts

\* At the end of forward everything can be read on the first stream.
LEMMA EndReads ==
  ASSUME TypeOK, CallInv, FreeInv, pc \in {"combine", "return"}, NEW names \in SUBSET DOMAIN held
  PROVE  \A o \in Reads(names) :
           o[1] >= Own.ar /\ \E nm \in DOMAIN held : o = <<held[nm][1], nm>> /\ Reader(nm, "main")
<1>1. \A nm \in names : Reader(nm, "main")
  BY DEF Reader, JoinDue, MadeOn
<1> QED
  BY <1>1, ReadsOwn, NamesKnown

\* Both results are read behind the join, whichever way forward ends.
LEMMA CombineFlows ==
  ASSUME IInv, Combine
  PROVE  StreamInv' /\ HeldServed' /\ Touched' /\ EventsAhead' /\ RunsInv' /\ FreeInv'
<1>1. /\ TypeOK /\ CallInv /\ FreeInv
  BY DEF IInv
<1>2. /\ pc = "combine" /\ pc' = "return"
      /\ UNCHANGED <<mem, fired, run, mode, cfg>>
  BY Ends DEF Ending, Undisturbed
<1>3. "buf" \notin DOMAIN held /\ "sum" \notin DOMAIN held /\ Whole \in SUBSET DOMAIN held
  BY <1>1, <1>2, HeldNames DEF CallInv, Outcome, Whole
<1>4. TwoStreams' <=> TwoStreams
  BY <1>2, SameConfig
<1>5. Own.ar \in Block /\ Own.ar >= Own.ar /\ \A nm \in DOMAIN held : held[nm][1] # Own.ar
  <2>1. \A c \in Fresh : c > Own.ar
    BY OwnBlocks
  <2>2. \A nm \in DOMAIN held : held[nm][1] \in Fresh
    BY <1>1, <1>3 DEF FreeInv, Given
  <2>3. Own.ar = 5
    BY DEF Own
  <2> QED
    BY <2>1, <2>2, <2>3, OwnBlocks
<1>6. \A o \in Reads(Whole) : o[1] >= Own.ar /\ \E nm \in DOMAIN held : o = <<held[nm][1], nm>> /\ Reader(nm, "main")
  BY <1>1, <1>2, <1>3, EndReads
<1>7. Reads(Whole) \subseteq Block \X Names
  BY <1>1, <1>3, ReadsType
<1>8. Add \in Pieces
  BY <1>7, OwnBlocks, PieceTypes, NamesKnown DEF Add
<1>9. Add.reads = Reads(Whole) /\ Add.writes = {<<Own.ar, "buf">>} /\ Add.waits = {} /\ Add.fires = {}
  BY PieceParts DEF Add
<1>10. CASE OnMain(<<>>) \in WorkList /\ Issues(OnMain(<<>>)) /\ UNCHANGED <<free, top, held>>
  <2> DEFINE w == OnMain(<<>>)
  <2>1. DOMAIN w["main"] = {} /\ DOMAIN w["alt"] = {}
    <3>1. <<>> \in Seq(Pieces)
      BY <1>8, Lists
    <3> QED
      BY <3>1, OnMainParts, ListParts
  <2>2. CallDoes(w)
    BY <1>2, <1>10 DEF CallDoes
  <2> HIDE DEF w
  <2>3. \A s \in Stream : DOMAIN w[s] = {}
    BY <2>1 DEF Stream
  <2>4. WritesWell(w) /\ ReadsHeld(w)
    BY <2>3 DEF WritesWell, ReadsHeld
  <2>5. StreamInv' /\ HeldServed' /\ Touched' /\ EventsAhead' /\ RunsInv'
    BY <1>2, <1>10, <2>1, <2>2, <2>4, MainFlows
  <2>6. FreeInv'
    BY <1>1, <1>4, <1>10 DEF FreeInv, Given
  <2> QED
    BY <2>5, <2>6
<1>11. CASE /\ OnMain(<<Add>>) \in WorkList /\ Issues(OnMain(<<Add>>))
            /\ held' = With(held, "buf", <<Own.ar, "none">>) /\ UNCHANGED <<free, top>>
  <2> DEFINE w == OnMain(<<Add>>)
  <2>1. DOMAIN w["main"] = {1} /\ w["main"][1] = Add /\ DOMAIN w["alt"] = {}
    BY <1>8, Lists, OnMainParts, ListParts
  <2>2. /\ DOMAIN held' = DOMAIN held \cup {"buf"} /\ held'["buf"] = <<Own.ar, "none">>
        /\ \A nm \in DOMAIN held : held'[nm] = held[nm]
    BY <1>3, <1>11 DEF With
  <2>3. CallDoes(w)
    BY <1>2, <1>11, <2>2 DEF CallDoes
  <2> HIDE DEF w
  <2>4. \A s \in Stream : \A i \in DOMAIN w[s] : s = "main" /\ i = 1 /\ w[s][i] = Add
    BY <2>1 DEF Stream
  <2>5. WritesWell(w)
    BY <1>2, <1>5, <1>9, <2>4, NamesKnown DEF WritesWell
  <2>6. ReadsHeld(w)
    BY <1>6, <1>9, <2>4 DEF ReadsHeld
  <2>7. StreamInv' /\ HeldServed' /\ Touched' /\ EventsAhead' /\ RunsInv'
    BY <1>2, <1>9, <2>1, <2>2, <2>3, <2>5, <2>6, MainFlows
  <2>8. FreeInv'
    <3>1. \A nm \in DOMAIN held : nm # "buf"
      BY <1>3
    <3>2. \A nm \in DOMAIN held' : IF nm = "buf" THEN held'[nm] = <<Own.ar, "none">>
                                   ELSE nm \in DOMAIN held /\ held'[nm] = held[nm]
      BY <2>2
    <3>3. free' = free /\ top' = top
      BY <1>11
    <3>4. ASSUME NEW nm \in DOMAIN held', nm # "buf"
          PROVE  /\ held'[nm][1] \in Fresh /\ held'[nm][1] <= top
                 /\ held'[nm][2] = HomeOf(nm)
                 /\ \A q \in Pool \X Stream : held'[nm][1] \notin free[q]
                 /\ \A other \in DOMAIN held' : held'[other][1] = held'[nm][1] => other = nm
      <4>1. nm \in DOMAIN held /\ held'[nm] = held[nm] /\ held[nm][1] # Own.ar
        BY <3>2, <3>4, <1>5
      <4>2. /\ held[nm][1] \in Fresh /\ held[nm][1] <= top
            /\ held[nm][2] = HomeOf(nm)
            /\ \A q \in Pool \X Stream : held[nm][1] \notin free[q]
            /\ \A other \in DOMAIN held : held[other][1] = held[nm][1] => other = nm
        BY <1>1, <3>4, <4>1 DEF FreeInv, Given, HomeOf
      <4> QED
        BY <3>2, <4>1, <4>2
    <3> QED
      BY <1>1, <1>4, <3>2, <3>3, <3>4 DEF FreeInv, Given, HomeOf
  <2> QED
    BY <2>7, <2>8
<1>12. ASSUME NEW b \in Fresh, Takes("sum", "main", b), OnMain(Sum(b)) \in WorkList, Issues(OnMain(Sum(b)))
       PROVE  StreamInv' /\ HeldServed' /\ Touched' /\ EventsAhead' /\ RunsInv' /\ FreeInv'
  <2> DEFINE w == OnMain(Sum(b))
             c == Work({<<Own.ar, "buf">>}, {<<b, "sum">>})
             d == Work(Reads(Whole), {<<b, "sum">>})
  <2>1. /\ FreeInv' /\ \A nm \in DOMAIN held : held[nm][1] # b
        /\ b \in Block /\ b >= Own.ar /\ {<<b, "sum">>} \subseteq Block \X Names
        /\ DOMAIN held' = DOMAIN held \cup {"sum"} /\ held'["sum"] = <<b, "main">>
        /\ \A nm \in DOMAIN held : held'[nm] = held[nm]
    <3>1. "main" = HomeOf("sum")
      BY DEF HomeOf
    <3> QED
      BY <3>1, <1>1, <1>3, <1>4, <1>12, CallTakes, NamesKnown
  <2>2. CallDoes(w)
    BY <1>2, <1>12, <2>1 DEF CallDoes
  <2>3. c \in Pieces /\ d \in Pieces
    BY <1>7, <2>1, OwnBlocks, PieceTypes, NamesKnown
  <2>4. /\ c.reads = {<<Own.ar, "buf">>} /\ c.writes = {<<b, "sum">>} /\ c.waits = {} /\ c.fires = {}
        /\ d.reads = Reads(Whole) /\ d.writes = {<<b, "sum">>} /\ d.waits = {} /\ d.fires = {}
    BY PieceParts
  <2>5. b # Own.ar
    BY OwnBlocks DEF Own
  <2>6. IF Buffer THEN w["main"] = <<Add, c>> ELSE w["main"] = <<d>>
    <3>1. Sum(b) = IF Buffer THEN <<Add, c>> ELSE <<d>>
      BY DEF Sum
    <3>2. Sum(b) \in Seq(Pieces)
      BY <3>1, <1>8, <2>3, Lists
    <3> QED
      BY <3>1, <3>2, OnMainParts
  <2>7. DOMAIN w["alt"] = {}
    <3>1. Sum(b) \in Seq(Pieces)
      <4>1. Sum(b) = IF Buffer THEN <<Add, c>> ELSE <<d>>
        BY DEF Sum
      <4> QED
        BY <4>1, <1>8, <2>3, Lists
    <3> QED
      BY <3>1, OnMainParts
  <2> HIDE DEF w, c, d
  <2>8. CASE Buffer
    <3>1. DOMAIN w["main"] = {1, 2} /\ w["main"][1] = Add /\ w["main"][2] = c
      BY <2>6, <2>8, ListParts
    <3>2. \A s \in Stream : \A i \in DOMAIN w[s] :
            s = "main" /\ ((i = 1 /\ w[s][i] = Add) \/ (i = 2 /\ w[s][i] = c))
      BY <2>7, <3>1 DEF Stream
    <3>3. WritesWell(w)
      <4>1. \A s \in Stream : \A i \in DOMAIN w[s] : \A o \in w[s][i].writes :
              s = "main" /\ ((i = 1 /\ o = <<Own.ar, "buf">>) \/ (i = 2 /\ o = <<b, "sum">>))
        BY <1>9, <2>4, <3>2
      <4> QED
        BY <1>2, <1>5, <2>1, <2>5, <4>1, NamesKnown DEF WritesWell
    <3>4. ReadsHeld(w)
      <4>1. ASSUME NEW s \in Stream, NEW i \in DOMAIN w[s], NEW o \in w[s][i].reads
            PROVE  /\ o[1] >= Own.ar
                   /\ \/ \E nm \in DOMAIN held : o = <<held[nm][1], nm>> /\ Reader(nm, s)
                      \/ \E j \in DOMAIN w[s] : j < i /\ o \in w[s][j].writes
        <5>1. CASE i = 1 /\ w[s][i] = Add /\ s = "main"
          BY <5>1, <1>6, <1>9
        <5>2. CASE i = 2 /\ w[s][i] = c /\ s = "main"
          <6>1. o = <<Own.ar, "buf">>
            BY <5>2, <2>4
          <6>2. 1 \in DOMAIN w[s] /\ 1 < i /\ o \in w[s][1].writes
            BY <5>2, <6>1, <3>1, <1>9
          <6> QED
            BY <6>1, <6>2, <1>5
        <5> QED
          BY <5>1, <5>2, <3>2
      <4> QED
        BY <4>1 DEF ReadsHeld
    <3>5. \A i \in DOMAIN w["main"] : w["main"][i].fires = {}
      BY <1>9, <2>4, <3>1
    <3>6. <<held'["sum"][1], "sum">> \in w["main"][2].writes /\ 2 \in DOMAIN w["main"]
      BY <2>1, <2>4, <3>1
    <3> QED
      BY <1>2, <2>1, <2>2, <2>7, <3>3, <3>4, <3>5, <3>6, MainFlows
  <2>9. CASE ~Buffer
    <3>1. DOMAIN w["main"] = {1} /\ w["main"][1] = d
      BY <2>6, <2>9, ListParts
    <3>2. \A s \in Stream : \A i \in DOMAIN w[s] : s = "main" /\ i = 1 /\ w[s][i] = d
      BY <2>7, <3>1 DEF Stream
    <3>3. WritesWell(w)
      BY <1>2, <2>1, <2>4, <3>2, NamesKnown DEF WritesWell
    <3>4. ReadsHeld(w)
      BY <1>6, <2>4, <3>2 DEF ReadsHeld
    <3>5. \A i \in DOMAIN w["main"] : w["main"][i].fires = {}
      BY <2>4, <3>1
    <3>6. <<held'["sum"][1], "sum">> \in w["main"][1].writes /\ 1 \in DOMAIN w["main"]
      BY <2>1, <2>4, <3>1
    <3> QED
      BY <1>2, <2>1, <2>2, <2>7, <3>3, <3>4, <3>5, <3>6, MainFlows
  <2> QED
    BY <2>8, <2>9
<1> QED
  BY <1>1, <1>10, <1>11, <1>12, CombineIssues

\* Blocks that are given back belong to one list, and are in no other.
LEMMA ReturnsFree ==
  ASSUME TypeOK, FreeInv, Returns(MemoryPool, Mine)
  PROVE  /\ \A q, p \in Pool \X Stream : q # p => free'[q] \cap free'[p] = {}
         /\ \A q \in Pool \X Stream : \A b \in free'[q] : b <= top'
<1>1. free \in [Pool \X Stream -> SUBSET Fresh]
  BY DeviceTypes DEF TypeOK
<1>2. top' = top /\ DOMAIN free = Pool \X Stream
  BY <1>1 DEF Returns
<1>3. ASSUME NEW q \in Pool \X Stream, NEW b \in free'[q]
      PROVE  \/ b \in free[q]
             \/ \E nm \in DOMAIN held : /\ nm # "buf" /\ b = held[nm][1] /\ q = <<MemoryPool, held[nm][2]>>
  <2>1. free'[q] = free[q] \cup {o[1] : o \in {o \in Mine : q = <<MemoryPool, o[2]>>}}
    BY <1>2 DEF Returns
  <2>2. ASSUME b \notin free[q]
        PROVE  \E nm \in DOMAIN held : nm # "buf" /\ b = held[nm][1] /\ q = <<MemoryPool, held[nm][2]>>
    <3>1. PICK o \in Mine : b = o[1] /\ q = <<MemoryPool, o[2]>>
      BY <1>3, <2>1, <2>2
    <3>2. PICK nm \in DOMAIN held \ {"buf"} : o = held[nm]
      BY DEF Mine
    <3> QED
      BY <3>1, <3>2
  <2> QED
    BY <2>2
<1>4. \A nm \in DOMAIN held : nm # "buf" =>
        /\ held[nm][1] <= top
        /\ \A q \in Pool \X Stream : held[nm][1] \notin free[q]
        /\ \A other \in DOMAIN held : held[other][1] = held[nm][1] => other = nm
  BY DEF FreeInv, Given
<1>5. \A q, p \in Pool \X Stream : q # p => free[q] \cap free[p] = {}
  BY DEF FreeInv
<1>6. ASSUME NEW q \in Pool \X Stream, NEW p \in Pool \X Stream, NEW b, b \in free'[q], b \in free'[p]
      PROVE  q = p
  <2>1. CASE b \in free[q] /\ b \in free[p]
    BY <2>1, <1>5
  <2>2. CASE b \in free[q] /\ b \notin free[p]
    BY <2>2, <1>3, <1>4, <1>6
  <2>3. CASE b \notin free[q] /\ b \in free[p]
    BY <2>3, <1>3, <1>4, <1>6
  <2>4. CASE b \notin free[q] /\ b \notin free[p]
    <3>1. PICK nm \in DOMAIN held : nm # "buf" /\ b = held[nm][1] /\ q = <<MemoryPool, held[nm][2]>>
      BY <2>4, <1>3, <1>6
    <3>2. PICK other \in DOMAIN held : /\ other # "buf" /\ b = held[other][1]
                                       /\ p = <<MemoryPool, held[other][2]>>
      BY <2>4, <1>3, <1>6
    <3>3. nm = other
      BY <3>1, <3>2, <1>4
    <3> QED
      BY <3>1, <3>2, <3>3
  <2> QED
    BY <2>1, <2>2, <2>3, <2>4
<1>7. \A q \in Pool \X Stream : \A b \in free'[q] : b <= top'
  <2>1. \A q \in Pool \X Stream : \A b \in free[q] : b <= top
    BY DEF FreeInv
  <2> QED
    BY <2>1, <1>2, <1>3, <1>4
<1> QED
  BY <1>6, <1>7

\* A call that returns leaves nothing on the streams that a later run could
\* disturb: its blocks go back to the streams they came from.
LEMMA ReturnFlows ==
  ASSUME IInv, Return
  PROVE  StreamInv' /\ HeldServed' /\ Touched' /\ EventsAhead' /\ RunsInv' /\ FreeInv'
<1>1. /\ TypeOK /\ CallInv /\ WeightInv /\ StreamInv /\ HeldServed /\ Touched
      /\ EventsAhead /\ FreeInv /\ RunsInv /\ IdsInv
  BY DEF IInv
<1>2. /\ pc = "return" /\ pc' = "idle" /\ held' = <<>>
      /\ UNCHANGED <<mem, fired, run, mode, cfg>>
  BY DEF Return, Undisturbed
<1>3. /\ ReturnWork \in WorkList /\ Issues(ReturnWork) /\ Result \in SUBSET DOMAIN held
      /\ Returns(MemoryPool, Mine)
  BY <1>1, ReturnIssues
<1>4. \A o \in Reads(Result) :
        o[1] >= Own.ar /\ \E nm \in DOMAIN held : o = <<held[nm][1], nm>> /\ Reader(nm, "main")
  BY <1>1, <1>2, <1>3, EndReads
<1> DEFINE c == Work(Reads(Result), {})
           w == ReturnWork
<1>5. c \in Pieces
  BY <1>1, <1>3, ReadsType, PieceTypes
<1>6. c.reads = Reads(Result) /\ c.writes = {} /\ c.waits = {} /\ c.fires = {}
  BY PieceParts
<1>7. w["main"] = <<c>> /\ DOMAIN w["alt"] = {}
  BY <1>5, Lists, OnMainParts DEF ReturnWork
<1> HIDE DEF c, w
<1>8. DOMAIN w["main"] = {1} /\ w["main"][1] = c
  BY <1>7, ListParts
<1>9. \A s \in Stream : \A i \in DOMAIN w[s] : s = "main" /\ i = 1 /\ w[s][i] = c
  BY <1>7, <1>8 DEF Stream
<1>10. WritesWell(w)
  BY <1>6, <1>9 DEF WritesWell
<1>11. ReadsHeld(w)
  BY <1>4, <1>6, <1>9 DEF ReadsHeld
<1>12. ~Open /\ ~Open'
  BY <1>2 DEF Open
<1>13. InOrder(w, OpenRun(ThisRun)')
  BY <1>6, <1>7, <1>8, <1>12 DEF InOrder
<1>14. w \in WorkList /\ Issues(w) /\ pc # "idle"
  BY <1>2, <1>3 DEF w
<1>15. FitsData(Queued, Marked(w, ThisRun), Memory, ThisRun)
  BY <1>1, <1>10, <1>11, <1>14, DataFits
<1>16. FitsOrder(Queued, Marked(w, ThisRun), Events, ThisRun, OpenRun(ThisRun), OpenRun(ThisRun)')
  BY <1>1, <1>13, <1>14, OrderFits
<1>17. StreamInv'
  BY <1>1, <1>2, <1>14, <1>15, <1>16, StreamIssues
<1>18. DOMAIN held' = {}
  BY <1>2, ListParts
<1>19. HeldServed' /\ Touched' /\ EventsAhead'
  BY <1>2, <1>12, <1>18 DEF HeldServed, Touched, EventsAhead
<1>20. RunsInv'
  BY <1>1, <1>2, <1>14, RunsIssues
<1>21. FreeInv'
  BY <1>1, <1>3, <1>18, ReturnsFree DEF FreeInv
<1> QED
  BY <1>17, <1>19, <1>20, <1>21

\* A run starts with the caller's tensor, behind everything that was enqueued.
LEMMA StartsRun ==
  ASSUME NEW b \in Fresh, BeginWork(b) \in WorkList,
         BeginWork(b)["main"] = <<Work({}, {<<b, "x">>})>>, BeginWork(b)["alt"] = <<>>,
         NEW r \in Nat, NEW Q \in Queue, NEW Q2 \in Queue, Added(Q, Q2, Marked(BeginWork(b), r)),
         NEW M, NEW F \in SUBSET (Event \X Nat), Programme(Q, M, F, {}),
         \A s \in Stream : \A i \in DOMAIN Q[s] : Q[s][i].run < r,
         \A e \in F : e[2] < r,
         \A c \in Block : c >= Own.ar => M[c][2] \in Nat /\ M[c][2] < r
  PROVE  /\ Programme(Q2, M, F, {})
         /\ Ready(Q2, M, b, "x", "main", r, {})
         /\ \A s \in Stream : \A i \in DOMAIN Q2[s] :
              /\ Q2[s][i].run <= r
              /\ Q2[s][i].run = r => s = "main" /\ Q2[s][i].work = Work({}, {<<b, "x">>})
<1> DEFINE N == Marked(BeginWork(b), r)
           c == Work({}, {<<b, "x">>})
<1>1. c.reads = {} /\ c.writes = {<<b, "x">>} /\ c.waits = {} /\ c.fires = {}
  BY PieceParts
<1> HIDE DEF c
<1>2. /\ N \in Queue /\ DOMAIN N["main"] = {1} /\ DOMAIN N["alt"] = {}
      /\ N["main"][1].work = c /\ N["main"][1].run = r
  <2>1. /\ DOMAIN BeginWork(b)["main"] = {1} /\ BeginWork(b)["main"][1] = c
        /\ DOMAIN BeginWork(b)["alt"] = {}
    BY ListParts DEF c
  <2> QED
    BY <2>1, MarkedIndex, NamesKnown
<1> HIDE DEF N
<1>3. \A s \in Stream : \A i \in DOMAIN N[s] : s = "main" /\ i = 1 /\ N[s][i].work = c /\ N[s][i].run = r
  BY <1>2 DEF Stream
<1>4. \A s \in Stream : \A i \in DOMAIN Q[s] : Q[s][i].run \in Nat
  BY QueueIndex
<1>5. b \in Block /\ b >= Own.ar /\ M[b][2] # r
  <2>1. b > Own.ar /\ b \in Block /\ b \in Nat /\ Own.ar \in Nat
    BY OwnBlocks
  <2> QED
    BY <2>1
<1>6. FitsOrder(Q, N, F, r, {}, {})
  <2>1. \A s \in Stream : \A i \in DOMAIN Q[s] : Q[s][i].run <= r
    BY <1>4
  <2>2. \A e \in F : e[2] <= r
    <3>1. \A e \in F : e[2] \in Nat
      OBVIOUS
    <3> QED
      BY <3>1
  <2>3. FiresInPlace(N) /\ \A i \in DOMAIN N["main"] : ~FiresFork(N, i)
    BY <1>1, <1>2 DEF FiresInPlace, FiresFork
  <2> QED
    BY <1>2, <1>3, <2>1, <2>2, <2>3 DEF FitsOrder
<1>7. FitsData(Q, N, M, r)
  <2>1. WritesInPlace(N)
    BY <1>1, <1>3, <1>5, NamesKnown DEF WritesInPlace
  <2>2. OneWriter(N)
    BY <1>1, <1>3 DEF OneWriter
  <2>3. \A s \in Stream : \A i \in DOMAIN N[s] : \A o \in N[s][i].work.writes : o = <<b, "x">>
    BY <1>1, <1>3
  <2>4. \A s \in Stream : \A i \in DOMAIN N[s] : N[s][i].work.reads = {}
    BY <1>1, <1>3
  <2>5. \A d \in Block : d >= Own.ar => M[d][2] <= r
    <3> SUFFICES ASSUME NEW d \in Block, d >= Own.ar PROVE M[d][2] <= r
      OBVIOUS
    <3>1. M[d][2] \in Nat /\ M[d][2] < r
      OBVIOUS
    <3> DEFINE n == M[d][2]
    <3> HIDE DEF n
    <3>2. n <= r
      BY <3>1 DEF n
    <3> QED
      BY <3>2 DEF n
  <2>6. \A q \in Stream : \A j \in DOMAIN Q[q] : Q[q][j].run # r
    BY <1>4
  <2> QED
    BY <1>5, <2>1, <2>2, <2>3, <2>4, <2>5, <2>6 DEF FitsData
<1>8. Added(Q, Q2, N)
  BY DEF N
<1>9. Programme(Q2, M, F, {})
  BY <1>2, <1>6, <1>7, <1>8, ProgrammeAdded
<1>10. Ready(Q2, M, b, "x", "main", r, {})
  <2>1. AsksNew(N, "main", 1, r, {})
    BY DEF AsksNew
  <2>2. 1 \in DOMAIN N["main"] /\ N["main"][1].run = r /\ <<b, "x">> \in N["main"][1].work.writes
    BY <1>1, <1>2
  <2> QED
    BY <1>2, <1>8, <2>1, <2>2, NamesKnown, ReadyNew
<1>11. ASSUME NEW s \in Stream, NEW i \in DOMAIN Q2[s]
       PROVE  /\ Q2[s][i].run <= r
              /\ Q2[s][i].run = r => s = "main" /\ Q2[s][i].work = c
  <2>1. CASE i \in DOMAIN Q[s] /\ Q2[s][i] = Q[s][i]
    BY <2>1, <1>4
  <2>2. CASE \E k \in DOMAIN N[s] : Q2[s][i] = N[s][k]
    BY <2>2, <1>3
  <2> QED
    BY <1>2, <1>8, <2>1, <2>2, AddedIndex
<1> QED
  BY <1>9, <1>10, <1>11 DEF c

\* A graph starts empty.
LEMMA EmptyProgramme ==
  /\ Empty \in Queue
  /\ \A s \in Stream : DOMAIN Empty[s] = {}
  /\ \A M : Programme(Empty, M, {}, {})
  /\ \A N \in Queue : Added(Empty, N, N)
<1>1. Empty \in Queue /\ \A s \in Stream : Empty[s] = <<>> /\ DOMAIN Empty[s] = {} /\ Len(Empty[s]) = 0
  BY DEF Empty, Queue
<1>2. ASSUME NEW M PROVE Programme(Empty, M, {}, {})
  <2>1. \A s \in Stream : DOMAIN Empty[s] = {}
    BY <1>1
  <2>2. DOMAIN Empty["main"] = {} /\ DOMAIN Empty["alt"] = {}
    BY <2>1, NamesKnown
  <2>3. Ordered(Empty, {}, {})
    BY <2>1, <2>2 DEF Ordered, FiresInPlace, Sorted, Forked, ForkedOnce, JoinedOnce, Joined
  <2> QED
    BY <2>1, <2>3 DEF Programme, WritesInPlace, OneWriter, ReadsServed, Settled
<1>3. ASSUME NEW N \in Queue PROVE Added(Empty, N, N)
  <2>1. \A s \in Stream : \A i \in DOMAIN N[s] : i \in Nat
    BY QueueIndex
  <2> QED
    BY <1>1, <2>1 DEF Added
<1> QED
  BY <1>1, <1>2, <1>3

\* What is handed out when nothing is in hand is in no list.
LEMMA FirstTakes ==
  ASSUME TypeOK, CallInv, FreeInv, pc = "idle", NEW p \in Pool, NEW b \in Fresh, Allocates(p, "main", b),
         DOMAIN held' = {"x"}, held'["x"] = <<b, "main">>
  PROVE  FreeInv'
<1>1. "main" \in Stream /\ <<p, "main">> \in Pool \X Stream
  BY NamesKnown
<1>2. DeviceTypeOK
  BY DEF TypeOK
<1>3. /\ free' \in [Pool \X Stream -> SUBSET Fresh] /\ top' \in 5 .. 5 + Blocks
      /\ free'[<<p, "main">>] = free[<<p, "main">>] \ {b}
      /\ \A q \in Pool \X Stream : q # <<p, "main">> => free'[q] = free[q]
      /\ b \in free[<<p, "main">>] \/ (free[<<p, "main">>] = {} /\ b = top + 1)
      /\ top' = IF b > top THEN b ELSE top
  BY <1>1, <1>2, AllocatesType
<1>4. /\ free \in [Pool \X Stream -> SUBSET Fresh] /\ top \in 5 .. 5 + Blocks /\ Fresh \subseteq Nat
      /\ Blocks \in Nat
  BY <1>2, DeviceTypes, OwnBlocks, LayerAssumption
<1>5. top' >= top /\ b <= top' /\ top' \in Nat /\ top \in Nat /\ b \in Nat
  BY <1>3, <1>4
<1>6. /\ \A q, r \in Pool \X Stream : q # r => free[q] \cap free[r] = {}
      /\ \A q \in Pool \X Stream : \A c \in free[q] : c <= top /\ c \in Nat
  BY <1>4 DEF FreeInv
<1>7. \A q \in Pool \X Stream : free'[q] \subseteq free[q] /\ b \notin free'[q]
  <2> SUFFICES ASSUME NEW q \in Pool \X Stream PROVE free'[q] \subseteq free[q] /\ b \notin free'[q]
    OBVIOUS
  <2>1. CASE q = <<p, "main">>
    BY <2>1, <1>3
  <2>2. CASE q # <<p, "main">>
    <3>1. free'[q] = free[q]
      BY <2>2, <1>3
    <3>2. CASE b \in free[<<p, "main">>]
      BY <3>1, <3>2, <2>2, <1>1, <1>6
    <3>3. CASE b = top + 1
      BY <3>1, <3>3, <1>5, <1>6
    <3> QED
      BY <3>2, <3>3, <1>3
  <2> QED
    BY <2>1, <2>2
<1>8. /\ \A q, r \in Pool \X Stream : q # r => free'[q] \cap free'[r] = {}
      /\ \A q \in Pool \X Stream : \A c \in free'[q] : c <= top'
  BY <1>5, <1>6, <1>7
<1>9. ASSUME NEW nm \in DOMAIN held'
      PROVE  /\ nm # "buf" /\ held'[nm][1] \in Fresh /\ held'[nm][1] <= top'
             /\ held'[nm][2] = "main" /\ nm \in {"x", "gate", "routed", "sum"}
             /\ \A q \in Pool \X Stream : held'[nm][1] \notin free'[q]
             /\ \A other \in DOMAIN held' : held'[other][1] = held'[nm][1] => other = nm
  BY <1>5, <1>7
<1> QED
  BY <1>8, <1>9 DEF FreeInv, Given

\* A new call comes behind all others, and its first block is in nobody's use.
LEMMA BeginFlows ==
  ASSUME IInv, NEW m \in {"eager", "warmup", "capture"}, NEW i, Begin(m, i)
  PROVE  StreamInv' /\ HeldServed' /\ Touched' /\ EventsAhead' /\ RunsInv' /\ FreeInv'
<1>1. /\ TypeOK /\ CallInv /\ StreamInv /\ FreeInv /\ RunsInv
  BY DEF IInv
<1>2. /\ pc = "idle" /\ pc' = "gate" /\ mode' = m /\ run' = run + 1
      /\ UNCHANGED <<mem, fired, cfg>>
  BY DEF Begin, Undisturbed
<1>3. PICK b \in Fresh :
        /\ BeginWork(b) \in WorkList /\ BeginWork(b)["main"] = <<Work({}, {<<b, "x">>})>>
        /\ BeginWork(b)["alt"] = <<>>
        /\ Allocates(IF m = "capture" THEN "graph" ELSE "eager", "main", b)
        /\ DOMAIN held' = {"x"} /\ held'["x"] = <<b, "main">>
        /\ m = "capture" => graph' = Append(graph, BeginWork(b)) /\ lane' = lane
        /\ m # "capture" => /\ lane' = [s \in Stream |-> lane[s] \o Marked(BeginWork(b), run + 1)[s]]
                            /\ graph' = graph
  BY <1>1, BeginIssues
<1> DEFINE c == Work({}, {<<b, "x">>})
<1>4. c.reads = {} /\ c.writes = {<<b, "x">>} /\ c.waits = {} /\ c.fires = {}
  BY PieceParts
<1> HIDE DEF c
<1>5. /\ lane \in Queue /\ graph \in Seq(WorkList) /\ run \in Nat
      /\ fired \in SUBSET (Event \X Nat) /\ mem \in [Block -> (Names \cup {"junk"}) \X Nat]
  BY <1>1, DeviceTypes DEF TypeOK
<1>6. ~Capturing /\ ~Open /\ ~Open' /\ (Capturing' <=> m = "capture")
  BY <1>2 DEF Capturing, Open
<1>7. /\ Programme(lane, mem, fired, {})
      /\ \A g \in DOMAIN graph : Programme(Marked(graph[g], 1), Nothing, {}, {})
  BY <1>1, <1>6 DEF StreamInv, OpenRun, Captured
<1>8. FreeInv'
  <2>1. (IF m = "capture" THEN "graph" ELSE "eager") \in Pool
    BY DEF Pool
  <2> QED
    BY <1>1, <1>2, <1>3, <2>1, FirstTakes
<1>9. /\ \A s \in Stream : \A j \in DOMAIN lane[s] : lane[s][j].run <= run /\ lane[s][j].run \in Nat
      /\ \A e \in fired : e[2] <= run /\ e[2] \in Nat
      /\ \A d \in Block : mem[d][2] \in Nat
      /\ \A d \in Block : d >= Own.ar => mem[d][2] <= run
  BY <1>1, <1>5, QueueIndex DEF RunsInv
\* What the new run finds, on the device or in its graph.
<1>10. /\ Queued' \in Queue /\ Programme(Queued', Memory', Events', {})
       /\ Ready(Queued', Memory', b, "x", "main", ThisRun', {})
       /\ \A s \in Stream : \A j \in DOMAIN Queued'[s] :
            Queued'[s][j].run = ThisRun' => s = "main" /\ Queued'[s][j].work = c
       /\ \A e \in Events' : e[2] # ThisRun'
       /\ \A d \in Block : d >= Own.ar => Memory'[d][2] # ThisRun'
       /\ \A s \in Stream : \A j \in DOMAIN lane'[s] : lane'[s][j].run <= run + 1
  <2>1. CASE m = "capture"
    <3>1. /\ Len(graph') = Len(graph) + 1 /\ graph'[Len(graph) + 1] = BeginWork(b)
      BY <1>3, <1>5, <2>1, AppendProperties
    <3>2. /\ Queued' = Marked(BeginWork(b), 1) /\ Memory' = Nothing /\ Events' = {} /\ ThisRun' = 1
      BY <1>6, <2>1, <3>1 DEF Queued, Memory, Events, ThisRun, Captured
    <3>3. \A d \in Block : Nothing[d][2] \in Nat /\ Nothing[d][2] < 1
      BY DEF Nothing, Junk
    <3>4. Marked(BeginWork(b), 1) \in Queue
      BY <1>3, MarkedIndex
    <3>5. /\ Programme(Marked(BeginWork(b), 1), Nothing, {}, {})
          /\ Ready(Marked(BeginWork(b), 1), Nothing, b, "x", "main", 1, {})
          /\ \A s \in Stream : \A j \in DOMAIN Marked(BeginWork(b), 1)[s] :
               Marked(BeginWork(b), 1)[s][j].run = 1 => s = "main" /\ Marked(BeginWork(b), 1)[s][j].work = c
      BY <1>3, <3>3, <3>4, EmptyProgramme, StartsRun DEF c
    <3>6. \A s \in Stream : \A j \in DOMAIN lane'[s] : lane'[s][j].run <= run + 1
      BY <1>3, <1>5, <1>9, <2>1
    <3> QED
      BY <3>2, <3>3, <3>4, <3>5, <3>6
  <2>2. CASE m # "capture"
    <3>1. /\ Queued' = lane' /\ Memory' = mem /\ Events' = fired /\ ThisRun' = run + 1
      BY <1>2, <1>6, <2>2 DEF Queued, Memory, Events, ThisRun
    <3>2. Marked(BeginWork(b), run + 1) \in Queue /\ run + 1 \in Nat
      BY <1>3, <1>5, MarkedIndex
    <3>3. lane' \in Queue /\ Added(lane, lane', Marked(BeginWork(b), run + 1))
      <4> DEFINE N == Marked(BeginWork(b), run + 1)
      <4>1. lane' = [s \in Stream |-> lane[s] \o N[s]]
        BY <1>3, <2>2
      <4>2. N \in Queue /\ lane \in Queue
        BY <1>5, <3>2
      <4> HIDE DEF N
      <4>3. lane' \in Queue /\ Added(lane, lane', N)
        BY <4>1, <4>2, ConcatAdds
      <4> QED
        BY <4>3 DEF N
    <3>4. /\ \A s \in Stream : \A j \in DOMAIN lane[s] : lane[s][j].run < run + 1
          /\ \A e \in fired : e[2] < run + 1 /\ e[2] # run + 1
      BY <1>5, <1>9
    <3>5. \A d \in Block : d >= Own.ar => mem[d][2] \in Nat /\ mem[d][2] < run + 1 /\ mem[d][2] # run + 1
      <4> SUFFICES ASSUME NEW d \in Block, d >= Own.ar
                   PROVE  mem[d][2] \in Nat /\ mem[d][2] < run + 1 /\ mem[d][2] # run + 1
        OBVIOUS
      <4> DEFINE n == mem[d][2]
      <4>1. n \in Nat /\ n <= run
        BY <1>9
      <4> HIDE DEF n
      <4>2. n < run + 1 /\ n # run + 1
        BY <4>1, <1>5
      <4> QED
        BY <4>1, <4>2 DEF n
    <3>6. /\ Programme(lane', mem, fired, {})
          /\ Ready(lane', mem, b, "x", "main", run + 1, {})
          /\ \A s \in Stream : \A j \in DOMAIN lane'[s] :
               /\ lane'[s][j].run <= run + 1
               /\ lane'[s][j].run = run + 1 => s = "main" /\ lane'[s][j].work = c
      <4> DEFINE r == run + 1
      <4>1. r \in Nat /\ Added(lane, lane', Marked(BeginWork(b), r))
        BY <3>2, <3>3
      <4>2. /\ \A s \in Stream : \A j \in DOMAIN lane[s] : lane[s][j].run < r
            /\ \A e \in fired : e[2] < r
            /\ \A d \in Block : d >= Own.ar => mem[d][2] \in Nat /\ mem[d][2] < r
        BY <3>4, <3>5
      <4>3. lane \in Queue /\ lane' \in Queue /\ fired \in SUBSET (Event \X Nat)
        BY <1>5, <3>3
      <4>4. /\ BeginWork(b) \in WorkList /\ BeginWork(b)["main"] = <<Work({}, {<<b, "x">>})>>
            /\ BeginWork(b)["alt"] = <<>>
        BY <1>3
      <4>5. Programme(lane, mem, fired, {})
        BY <1>7
      <4> HIDE DEF r
      <4>6. /\ Programme(lane', mem, fired, {})
            /\ Ready(lane', mem, b, "x", "main", r, {})
            /\ \A s \in Stream : \A j \in DOMAIN lane'[s] :
                 /\ lane'[s][j].run <= r
                 /\ lane'[s][j].run = r => s = "main" /\ lane'[s][j].work = Work({}, {<<b, "x">>})
        BY <4>1, <4>2, <4>3, <4>4, <4>5, StartsRun
      <4> QED
        BY <4>6 DEF r, c
    <3> QED
      BY <3>1, <3>3, <3>4, <3>5, <3>6
  <2> QED
    BY <2>1, <2>2
<1>11. StreamInv'
  <2>1. (IF Capturing' THEN {} ELSE OpenRun(run)') = {} /\ OpenRun(1)' = {}
    BY <1>6 DEF OpenRun
  <2>2. Programme(lane', mem', fired', {})
    <3>1. CASE m = "capture"
      BY <3>1, <1>2, <1>3, <1>7
    <3>2. CASE m # "capture"
      BY <3>2, <1>6, <1>10 DEF Queued, Memory, Events
    <3> QED
      BY <3>1, <3>2
  <2>3. ASSUME NEW g \in DOMAIN graph' PROVE Programme(Marked(graph'[g], 1), Nothing, {}, {})
    <3>1. CASE m = "capture" /\ g = Len(graph')
      BY <3>1, <1>6, <1>10 DEF Queued, Memory, Events, Captured
    <3>2. CASE m = "capture" /\ g # Len(graph')
      <4>1. g \in DOMAIN graph /\ graph'[g] = graph[g]
        <5>1. /\ graph' \in Seq(WorkList) /\ Len(graph') = Len(graph) + 1
              /\ \A k \in 1 .. Len(graph) : graph'[k] = graph[k]
          <6> DEFINE w == BeginWork(b)
          <6>1. graph' = Append(graph, w) /\ w \in WorkList /\ graph \in Seq(WorkList)
            BY <1>3, <1>5, <3>2
          <6> HIDE DEF w
          <6> QED
            BY <6>1, AppendProperties
        <5> QED
          BY <5>1, <1>5, <3>2
      <4> QED
        BY <4>1, <1>7
    <3>3. CASE m # "capture"
      BY <3>3, <1>3, <1>7
    <3> QED
      BY <3>1, <3>2, <3>3
  <2> QED
    BY <2>1, <2>2, <2>3 DEF StreamInv, Captured
<1>12. HeldServed'
  <2>1. \A nm \in DOMAIN held' : nm = "x" /\ held'[nm] = <<b, "main">>
    BY <1>3
  <2>2. \A nm \in DOMAIN held' : MadeOn(nm)' = "main" /\ Dues(nm)' = {}
    BY <1>2, <2>1 DEF MadeOn, Dues, ForkDue, JoinDue
  <2>3. Ready(Queued', Memory', b, "x", "main", ThisRun', {})
    BY <1>10
  <2> QED
    BY <2>1, <2>2, <2>3 DEF HeldServed
<1>13. Touched'
  <2>1. \A s \in Stream : \A j \in DOMAIN Queued'[s] : \A d \in Block :
          Queued'[s][j].run = ThisRun' /\ WritesTo(Queued', s, j, d) => d = b
    BY <1>4, <1>10 DEF WritesTo
  <2> QED
    BY <1>3, <1>10, <2>1 DEF Touched
<1>14. EventsAhead'
  <2>1. <<"fork", ThisRun'>> \notin Events' /\ <<"join", ThisRun'>> \notin Events'
    BY <1>10
  <2>2. \A j \in DOMAIN Queued'["main"] : Queued'["main"][j].run = ThisRun' => ~FiresFork(Queued', j)
    BY <1>4, <1>10, NamesKnown DEF FiresFork
  <2>3. \A j \in DOMAIN Queued'["alt"] : Queued'["alt"][j].run # ThisRun'
    BY <1>10, NamesKnown
  <2> QED
    BY <1>2, <1>6, <2>1, <2>2, <2>3 DEF EventsAhead
<1>15. RunsInv'
  <2>1. \A d \in Block : d >= Own.ar => mem[d][2] <= run + 1
    <3> SUFFICES ASSUME NEW d \in Block, d >= Own.ar PROVE mem[d][2] <= run + 1
      OBVIOUS
    <3> DEFINE n == mem[d][2]
    <3>1. n \in Nat /\ n <= run
      BY <1>9
    <3> HIDE DEF n
    <3>2. n <= run + 1
      BY <3>1, <1>5
    <3> QED
      BY <3>2 DEF n
  <2>2. \A e \in fired : e[2] <= run + 1
    BY <1>5, <1>9
  <2> QED
    BY <1>2, <1>10, <2>1, <2>2 DEF RunsInv
<1> QED
  BY <1>8, <1>11, <1>12, <1>13, <1>14, <1>15

\* Between two calls nothing is in hand.
LEMMA IdleFlows ==
  ASSUME CallInv, FreeInv, pc = "idle", pc' = "idle", held' = held, UNCHANGED <<free, top>>
  PROVE  HeldServed' /\ Touched' /\ EventsAhead' /\ FreeInv'
<1>1. DOMAIN held' = {} /\ ~Open'
  BY ListParts DEF CallInv, Open
<1> QED
  BY <1>1 DEF HeldServed, Touched, EventsAhead, FreeInv

\* A graph that runs again finds what its capture found: nothing it has not
\* made itself.
LEMMA ReplayFlows ==
  ASSUME IInv, Replay
  PROVE  StreamInv' /\ HeldServed' /\ Touched' /\ EventsAhead' /\ RunsInv' /\ FreeInv'
<1>1. /\ TypeOK /\ CallInv /\ StreamInv /\ FreeInv /\ RunsInv
  BY DEF IInv
<1>2. /\ pc = "idle" /\ pc' = "idle" /\ held' = held /\ run' = run + 1
      /\ UNCHANGED <<mem, fired, free, top, graph>>
  BY DEF Replay, layerVars
<1>3. PICK g \in DOMAIN graph : lane' = [s \in Stream |-> lane[s] \o Marked(graph[g], run + 1)[s]]
  BY <1>2 DEF Replay
<1>4. /\ lane \in Queue /\ graph \in Seq(WorkList) /\ run \in Nat /\ run + 1 \in Nat
      /\ fired \in SUBSET (Event \X Nat)
  BY <1>1, DeviceTypes DEF TypeOK
<1>5. graph[g] \in WorkList
  BY <1>4
<1>6. ~Capturing /\ ~Capturing' /\ ~Open /\ ~Open'
  BY <1>2 DEF Capturing, Open
<1>7. /\ Programme(lane, mem, fired, {})
      /\ \A k \in DOMAIN graph : Programme(Marked(graph[k], 1), Nothing, {}, {})
  BY <1>1, <1>6 DEF StreamInv, OpenRun, Captured
<1>8. /\ \A s \in Stream : \A j \in DOMAIN lane[s] : lane[s][j].run <= run /\ lane[s][j].run \in Nat
      /\ \A e \in fired : e[2] <= run /\ e[2] \in Nat
  BY <1>1, <1>4, QueueIndex DEF RunsInv
<1>9. \A d \in Block : d >= Own.ar => mem[d][2] \in Nat /\ mem[d][2] <= run
  BY <1>1, DeviceTypes DEF RunsInv, TypeOK
<1> DEFINE N == Marked(graph[g], run + 1)
<1>10. /\ FitsOrder(lane, N, fired, run + 1, {}, {})
       /\ FitsData(lane, N, mem, run + 1)
  BY <1>4, <1>5, <1>7, <1>8, <1>9, ReplayFits
<1>11. N \in Queue
  BY <1>4, <1>5, MarkedIndex
<1>12. \A s \in Stream : \A j \in DOMAIN N[s] : N[s][j].run = run + 1
  BY <1>4, <1>5, MarkedIndex
<1>13. lane' = [s \in Stream |-> lane[s] \o N[s]]
  BY <1>3
<1> HIDE DEF N
<1>14. lane' \in Queue /\ Added(lane, lane', N)
  BY <1>4, <1>11, <1>13, ConcatAdds
<1>15. Programme(lane', mem, fired, {})
  BY <1>4, <1>7, <1>10, <1>11, <1>14, ProgrammeAdded
<1>16. StreamInv'
  BY <1>2, <1>6, <1>7, <1>15 DEF StreamInv, OpenRun, Captured
<1>17. \A s \in Stream : \A j \in DOMAIN lane'[s] : lane'[s][j].run <= run + 1
  <2> SUFFICES ASSUME NEW s \in Stream, NEW j \in DOMAIN lane'[s] PROVE lane'[s][j].run <= run + 1
    OBVIOUS
  <2>1. CASE j \in DOMAIN lane[s] /\ lane'[s][j] = lane[s][j]
    BY <2>1, <1>4, <1>8
  <2>2. CASE \E k \in DOMAIN N[s] : lane'[s][j] = N[s][k]
    BY <2>2, <1>4, <1>12
  <2> QED
    BY <1>4, <1>11, <1>14, <2>1, <2>2, AddedIndex
<1>18. \A d \in Block : d >= Own.ar => mem[d][2] <= run + 1
  <2> SUFFICES ASSUME NEW d \in Block, d >= Own.ar PROVE mem[d][2] <= run + 1
    OBVIOUS
  <2> DEFINE n == mem[d][2]
  <2>1. n \in Nat /\ n <= run
    BY <1>9
  <2> HIDE DEF n
  <2>2. n <= run + 1
    BY <2>1, <1>4
  <2> QED
    BY <2>2 DEF n
<1>19. \A e \in fired : e[2] <= run + 1
  BY <1>4, <1>8
<1>20. RunsInv'
  BY <1>2, <1>17, <1>18, <1>19 DEF RunsInv
<1> QED
  BY <1>1, <1>2, <1>16, <1>20, IdleFlows

\* Loads and resumes write where weights are kept, while nothing is enqueued.
LEMMA LoadFlows ==
  ASSUME IInv, (\E l \in BOOLEAN : LoadSink(l)) \/ PostLoad \/ Resume
  PROVE  StreamInv' /\ HeldServed' /\ Touched' /\ EventsAhead' /\ RunsInv' /\ FreeInv'
<1>1. /\ TypeOK /\ CallInv /\ StreamInv /\ FreeInv /\ RunsInv
  BY DEF IInv
<1>2. /\ pc = "idle" /\ pc' = "idle" /\ lane = Empty
      /\ UNCHANGED <<lane, fired, free, top, run, graph, held>>
  BY DEF LoadSink, PostLoad, Resume, Still
<1>3. DOMAIN mem = Block
  BY <1>1, DeviceTypes DEF TypeOK
<1>4. ASSUME NEW b \in Block, b >= Own.ar PROVE mem'[b] = mem[b]
  <2>1. b # Own.w2 /\ b # Own.w2lin /\ b # Own.fp4
    BY <1>4, OwnBlocks DEF Own
  <2> QED
    BY <1>3, <2>1 DEF LoadSink, PostLoad, Resume
<1>5. ~Capturing /\ ~Capturing' /\ ~Open /\ ~Open'
  BY <1>2 DEF Capturing, Open
<1>6. Programme(lane', mem', fired', {})
  <2>1. Programme(lane, mem, fired, {})
    BY <1>1, <1>5 DEF StreamInv, OpenRun
  <2>2. \A s \in Stream : DOMAIN lane[s] = {}
    BY <1>2, EmptyProgramme
  <2> QED
    BY <1>2, <2>1, <2>2 DEF Programme, ReadsServed, Settled
<1>7. StreamInv'
  BY <1>1, <1>2, <1>5, <1>6 DEF StreamInv, OpenRun, Captured
<1>8. RunsInv'
  BY <1>1, <1>2, <1>4 DEF RunsInv
<1> QED
  BY <1>1, <1>2, <1>7, <1>8, IdleFlows

\* What a stream does with its next piece of work.
LEMMA ExecuteStep ==
  ASSUME TypeOK, CallInv, StreamInv, RunsInv, NEW s0 \in Stream, Execute(s0)
  PROVE  /\ lane \in Queue /\ lane' \in Queue
         /\ Step(lane, lane', mem, mem', fired, IF Capturing THEN {} ELSE OpenRun(run), s0)
         /\ fired' = fired \cup {<<e, lane[s0][1].run>> : e \in lane[s0][1].work.fires}
         /\ lane[s0][1].run \in Nat /\ lane[s0][1].run <= run
         /\ \A b \in Block : b >= Own.ar =>
              mem'[b] = mem[b] \/ (WritesTo(lane, s0, 1, b) /\ mem'[b][2] = lane[s0][1].run)
<1>1. /\ lane \in Queue /\ run \in Nat /\ mem \in [Block -> (Names \cup {"junk"}) \X Nat]
  BY DeviceTypes DEF TypeOK
<1>2. lane[s0] # <<>> /\ lane' = [lane EXCEPT ![s0] = Tail(lane[s0])]
  BY DEF Execute, Runnable
<1>3. lane' \in Queue /\ Rest(lane, lane', s0) /\ Head(lane[s0]) = lane[s0][1]
  BY <1>1, <1>2, TailIsRest
<1>4. 1 \in DOMAIN lane[s0]
  BY <1>3 DEF Rest
<1> DEFINE w == lane[s0][1].work
           r == lane[s0][1].run
<1>5. w \in Pieces /\ r \in Nat /\ r <= run
  BY <1>1, <1>4, QueueIndex DEF RunsInv
<1>6. /\ mem' = [b \in DOMAIN mem |->
                   IF \E o \in w.writes : o[1] = b
                     THEN Meant((CHOOSE o \in w.writes : o[1] = b)[2], r)
                     ELSE mem[b]]
      /\ fired' = fired \cup {<<e, r>> : e \in w.fires}
      /\ \A e \in w.waits : <<e, r>> \in fired
  BY <1>3 DEF Execute, Runnable
<1> DEFINE open == IF Capturing THEN {} ELSE OpenRun(run)
<1>7. Programme(lane, mem, fired, open)
  BY DEF StreamInv
<1>8. \A o \in w.writes : o = <<Own.ids, "ids">> \/ (o[1] >= Own.ar /\ o[2] \in Passing)
  BY <1>4, <1>7 DEF Programme, WritesInPlace
<1>9. \A o, p \in w.writes : o[1] = p[1] => o = p
  BY <1>4, <1>7 DEF Programme, OneWriter
<1>10. \A b \in Block : WritesTo(lane, s0, 1, b) <=> \E o \in w.writes : o[1] = b
  BY DEF WritesTo
<1>11. UpTo(lane, open)
  <2>1. \A x \in open : x = run
    BY DEF OpenRun
  <2> HIDE DEF open
  <2> QED
    BY <2>1 DEF UpTo, RunsInv
<1>12. CanRun(lane, fired, s0)
  BY <1>2, <1>6 DEF CanRun
<1> HIDE DEF w, r, open
<1>13. w.writes \subseteq Block \X Names
  BY <1>5 DEF Pieces
<1>14. ASSUME NEW o \in w.writes PROVE mem'[o[1]] = <<o[2], IF o[2] = "ids" THEN 0 ELSE r>>
  <2>1. o[1] \in DOMAIN mem
    BY <1>1, <1>13
  <2>2. (CHOOSE p \in w.writes : p[1] = o[1]) = o
    <3>1. (CHOOSE p \in w.writes : p[1] = o[1]) \in w.writes
      OBVIOUS
    <3>2. (CHOOSE p \in w.writes : p[1] = o[1])[1] = o[1]
      OBVIOUS
    <3> QED
      BY <3>1, <3>2, <1>9
  <2>3. mem'[o[1]] = Meant((CHOOSE p \in w.writes : p[1] = o[1])[2], r)
    BY <2>1, <1>6
  <2>4. mem'[o[1]] = Meant(o[2], r)
    BY <2>2, <2>3
  <2>5. o[2] \notin Weights
    BY <1>8 DEF Passing, Weights
  <2> QED
    BY <2>4, <2>5 DEF Meant
<1>15. \A b \in Block : ~WritesTo(lane, s0, 1, b) => mem'[b] = mem[b]
  BY <1>1, <1>6, <1>10
<1>16. Does(lane, mem, mem', s0)
  BY <1>14, <1>15 DEF Does, w, r
<1>17. ASSUME NEW b \in Block, b >= Own.ar, WritesTo(lane, s0, 1, b) PROVE mem'[b][2] = r
  <2>1. PICK o \in w.writes : o[1] = b
    BY <1>10, <1>17
  <2>2. o[2] # "ids"
    BY <2>1, <1>8, <1>17 DEF Own, Passing
  <2>3. mem'[b] = <<o[2], r>>
    BY <2>1, <2>2, <1>14
  <2> QED
    BY <2>3
<1> QED
  BY <1>1, <1>3, <1>5, <1>6, <1>7, <1>11, <1>12, <1>15, <1>16, <1>17 DEF Step, w, r, open

\* What a call has in its hands is made in one run.
LEMMA HeldPassing ==
  ASSUME TypeOK, CallInv, FreeInv, NEW nm \in DOMAIN held
  PROVE  nm \in Passing /\ held[nm][1] \in Block /\ held[nm][1] >= Own.ar
<1>1. nm \in Passing
  BY NamesKnown DEF CallInv, HeldNow, Outcome
<1>2. CASE nm = "buf"
  <2>1. held[nm] = <<Own.ar, "none">>
    BY <1>2 DEF FreeInv
  <2>2. Own.ar \in Block /\ Own.ar \in Nat
    BY OwnBlocks
  <2> QED
    BY <1>1, <2>1, <2>2
<1>3. CASE nm # "buf"
  <2>1. held[nm][1] \in Fresh
    BY <1>3 DEF FreeInv, Given
  <2> DEFINE b == held[nm][1]
  <2>2. b \in Fresh
    BY <2>1
  <2> HIDE DEF b
  <2>3. b \in Block /\ b > Own.ar /\ b \in Nat /\ Own.ar \in Nat
    BY <2>2, OwnBlocks
  <2>4. b >= Own.ar
    BY <2>3
  <2> QED
    BY <1>1, <2>3, <2>4 DEF b
<1> QED
  BY <1>2, <1>3

\* The device, in whatever order it takes the streams, keeps what is known of
\* them.
LEMMA ExecuteFlows ==
  ASSUME IInv, NEW s0 \in Stream, Execute(s0), UNCHANGED layerVars
  PROVE  StreamInv' /\ HeldServed' /\ Touched' /\ EventsAhead' /\ RunsInv' /\ FreeInv'
<1>1. /\ TypeOK /\ CallInv /\ StreamInv /\ HeldServed /\ Touched /\ EventsAhead /\ FreeInv /\ RunsInv
  BY DEF IInv
<1>2. UNCHANGED <<pc, mode, held, cfg, run, graph, free, top>>
  BY DEF Execute, layerVars
<1>3. TwoStreams' <=> TwoStreams
  BY <1>2, SameConfig
<1> DEFINE open == IF Capturing THEN {} ELSE OpenRun(run)
           r == lane[s0][1].run
<1>4. /\ lane \in Queue /\ lane' \in Queue
      /\ Step(lane, lane', mem, mem', fired, open, s0)
      /\ fired' = fired \cup {<<e, r>> : e \in lane[s0][1].work.fires}
      /\ r \in Nat /\ r <= run
      /\ \A b \in Block : b >= Own.ar =>
           mem'[b] = mem[b] \/ (WritesTo(lane, s0, 1, b) /\ mem'[b][2] = r)
  BY <1>1, ExecuteStep
<1>5. (Capturing' <=> Capturing) /\ (Open' <=> Open) /\ open' = open
  BY <1>2, <1>3 DEF Capturing, Open, OpenRun
<1>6. /\ \A s \in Stream : \A i \in DOMAIN lane'[s] : \E k \in DOMAIN lane[s] : lane'[s][i] = lane[s][k]
      /\ 1 \in DOMAIN lane[s0]
  BY <1>4 DEF Step, Rest
<1>7. StreamInv'
  <2>1. Programme(lane', mem', fired', open)
    BY <1>4, ProgrammeRest
  <2> QED
    BY <1>1, <1>2, <1>5, <2>1 DEF StreamInv, Captured, OpenRun
<1>8. RunsInv'
  <2>1. \A s \in Stream : \A i \in DOMAIN lane'[s] : lane'[s][i].run <= run
    BY <1>1, <1>6 DEF RunsInv
  <2>2. \A e \in fired' : e[2] <= run
    BY <1>1, <1>4 DEF RunsInv
  <2>3. \A b \in Block : b >= Own.ar => mem'[b][2] <= run
    BY <1>1, <1>4 DEF RunsInv
  <2> QED
    BY <1>2, <2>1, <2>2, <2>3 DEF RunsInv
<1>9. FreeInv'
  BY <1>1, <1>2, <1>3 DEF FreeInv, Given
<1>10. \A nm \in DOMAIN held : MadeOn(nm)' = MadeOn(nm) /\ Dues(nm)' = Dues(nm)
  BY <1>2, <1>3 DEF MadeOn, Dues, ForkDue, JoinDue
<1>11. CASE Capturing
  <2>1. Queued' = Queued /\ Memory' = Memory /\ Events' = Events /\ ThisRun' = ThisRun
    BY <1>2, <1>5, <1>11 DEF Queued, Memory, Events, ThisRun, Captured
  <2>2. HeldServed'
    BY <1>1, <1>2, <1>10, <2>1 DEF HeldServed
  <2>3. Touched'
    BY <1>1, <1>2, <2>1 DEF Touched
  <2>4. EventsAhead'
    BY <1>1, <1>2, <1>5, <2>1 DEF EventsAhead
  <2> QED
    BY <1>7, <1>8, <1>9, <2>2, <2>3, <2>4
<1>12. CASE ~Capturing
  <2>1. /\ Queued = lane /\ Memory = mem /\ Events = fired /\ ThisRun = run
        /\ Queued' = lane' /\ Memory' = mem' /\ Events' = fired' /\ ThisRun' = run
    BY <1>2, <1>5, <1>12 DEF Queued, Memory, Events, ThisRun
  <2>2. HeldServed'
    <3> SUFFICES ASSUME NEW nm \in DOMAIN held
                 PROVE  Ready(lane', mem', held[nm][1], nm, MadeOn(nm), run, Dues(nm))
      BY <1>2, <1>10, <2>1 DEF HeldServed
    <3>1. nm \in Passing /\ held[nm][1] \in Block /\ held[nm][1] >= Own.ar
      BY <1>1, HeldPassing
    <3>2. Ready(lane, mem, held[nm][1], nm, MadeOn(nm), run, Dues(nm))
      BY <1>1, <2>1 DEF HeldServed
    <3>3. /\ MadeOn(nm) \in Stream
          /\ "fork" \in Dues(nm) => MadeOn(nm) = "main"
          /\ "join" \in Dues(nm) => MadeOn(nm) = "alt"
      BY NamesKnown DEF MadeOn, Dues, ForkDue, JoinDue
    <3>4. run \in Nat /\ run >= r
      BY <1>1, <1>4, DeviceTypes DEF TypeOK
    <3> QED
      BY <1>4, <3>1, <3>2, <3>3, <3>4, ReadyRest
  <2>3. Touched'
    <3> SUFFICES ASSUME pc \notin {"idle", "return"}, NEW b \in Block, b >= Own.ar,
                        \/ mem'[b][2] = run
                        \/ \E s \in Stream : \E i \in DOMAIN lane'[s] :
                             lane'[s][i].run = run /\ WritesTo(lane', s, i, b)
                 PROVE  \E nm \in DOMAIN held : held[nm][1] = b
      BY <1>2, <2>1 DEF Touched
    <3>1. \/ mem[b][2] = run
          \/ \E s \in Stream : \E i \in DOMAIN lane[s] : lane[s][i].run = run /\ WritesTo(lane, s, i, b)
      BY <1>4, <1>6 DEF WritesTo
    <3> QED
      BY <1>1, <2>1, <3>1 DEF Touched
  <2>4. EventsAhead'
    <3>1. /\ "fork" \in lane[s0][1].work.fires => s0 = "main"
          /\ "join" \in lane[s0][1].work.fires => s0 = "alt"
      BY <1>4, <1>6 DEF Step, Programme, Ordered, FiresInPlace, Stream
    <3>2. "main" \in Stream /\ "alt" \in Stream
      BY NamesKnown
    <3>3. /\ pc = "gate" => <<"fork", run>> \notin fired'
          /\ pc \in {"gate", "clone", "shared", "routed"} => <<"join", run>> \notin fired'
      BY <1>1, <1>4, <1>6, <2>1, <3>1 DEF EventsAhead, FiresFork, FiresJoin
    <3>4. pc = "gate" =>
            /\ \A i \in DOMAIN lane'["main"] : lane'["main"][i].run = run => ~FiresFork(lane', i)
            /\ \A i \in DOMAIN lane'["alt"] : lane'["alt"][i].run # run
      BY <1>1, <1>6, <2>1, <3>2 DEF EventsAhead, FiresFork
    <3>5. pc \in {"gate", "clone", "shared", "routed"} =>
            \A i \in DOMAIN lane'["alt"] : lane'["alt"][i].run = run => ~FiresJoin(lane', i)
      BY <1>1, <1>6, <2>1, <3>2 DEF EventsAhead, FiresJoin
    <3>6. ASSUME Open
          PROVE  \/ <<"fork", run>> \in fired'
                 \/ \E k \in DOMAIN lane'["alt"] : lane'["alt"][k].run = run /\ "fork" \in lane'["alt"][k].work.waits
      <4>1. CASE <<"fork", run>> \in fired
        BY <4>1, <1>4
      <4>2. ASSUME NEW k \in DOMAIN lane["alt"], lane["alt"][k].run = run,
                   "fork" \in lane["alt"][k].work.waits
            PROVE  \/ <<"fork", run>> \in fired'
                   \/ \E n \in DOMAIN lane'["alt"] :
                        lane'["alt"][n].run = run /\ "fork" \in lane'["alt"][n].work.waits
        <5>1. CASE s0 = "alt" /\ k = 1
          <6>1. <<"fork", run>> \in fired
            BY <5>1, <4>2, <1>4 DEF Step, CanRun
          <6> QED
            BY <6>1, <1>4
        <5>2. CASE ~(s0 = "alt" /\ k = 1)
          <6>1. PICK n \in DOMAIN lane'["alt"] : Old(s0, "alt", n) = k
            BY <5>2, <1>4, <3>2 DEF Step, Rest
          <6>2. lane'["alt"][n] = lane["alt"][k]
            BY <6>1, <1>4, <3>2 DEF Step, Rest
          <6> QED
            BY <6>1, <6>2, <4>2
        <5> QED
          BY <5>1, <5>2
      <4> QED
        BY <1>1, <2>1, <3>6, <4>1, <4>2 DEF EventsAhead
    <3> QED
      BY <1>2, <1>5, <2>1, <3>3, <3>4, <3>5, <3>6 DEF EventsAhead
  <2> QED
    BY <1>7, <1>8, <1>9, <2>2, <2>3, <2>4
<1> QED
  BY <1>11, <1>12

-----------------------------------------------------------------------------
(* The ids of the shared experts, which are made once and kept: whoever    *)
(* reads them finds them, or is behind the work that makes them.           *)

\* New work that reads the ids is behind who makes them too.
LEMMA IdsAdded ==
  ASSUME NEW Q \in Queue, NEW Q2 \in Queue, NEW N \in Queue, Added(Q, Q2, N), NEW M,
         IdsServed(Q, M),
         \A s \in Stream : \A i \in DOMAIN N[s] : \A o \in N[s][i].work.reads : o[2] = "ids" =>
           /\ o[1] = Own.ids
           /\ \/ Stored4(M)
              \/ \E q \in Stream : \E j \in DOMAIN Q[q] : IdsWriter(Q, q, j) /\ Q[q][j].run < N[s][i].run
              \/ \E j \in DOMAIN N[s] : IdsWriter(N, s, j) /\ j < i
  PROVE  IdsServed(Q2, M)
<1> SUFFICES ASSUME NEW s \in Stream, NEW i \in DOMAIN Q2[s], NEW o \in Q2[s][i].work.reads, o[2] = "ids"
             PROVE  /\ o[1] = Own.ids
                    /\ \/ Stored4(M)
                       \/ \E q \in Stream : \E j \in DOMAIN Q2[q] :
                            IdsWriter(Q2, q, j) /\ ((q = s /\ j < i) \/ Q2[q][j].run < Q2[s][i].run)
  BY DEF IdsServed
<1>1. \A q \in Stream : \A j \in DOMAIN Q[q] : j \in DOMAIN Q2[q] /\ Q2[q][j] = Q[q][j]
  BY DEF Added
<1>2. CASE i \in DOMAIN Q[s] /\ Q2[s][i] = Q[s][i]
  <2>1. /\ o[1] = Own.ids
        /\ \/ Stored4(M)
           \/ \E q \in Stream : \E j \in DOMAIN Q[q] :
                IdsWriter(Q, q, j) /\ ((q = s /\ j < i) \/ Q[q][j].run < Q[s][i].run)
    BY <1>2 DEF IdsServed
  <2> QED
    BY <1>1, <1>2, <2>1 DEF IdsWriter
<1>3. ASSUME NEW k \in DOMAIN N[s], i = Len(Q[s]) + k, Q2[s][i] = N[s][k]
      PROVE  /\ o[1] = Own.ids
             /\ \/ Stored4(M)
                \/ \E q \in Stream : \E j \in DOMAIN Q2[q] :
                     IdsWriter(Q2, q, j) /\ ((q = s /\ j < i) \/ Q2[q][j].run < Q2[s][i].run)
  <2>1. /\ o[1] = Own.ids
        /\ \/ Stored4(M)
           \/ \E q \in Stream : \E j \in DOMAIN Q[q] : IdsWriter(Q, q, j) /\ Q[q][j].run < N[s][k].run
           \/ \E j \in DOMAIN N[s] : IdsWriter(N, s, j) /\ j < k
    BY <1>3
  <2>2. ASSUME NEW q \in Stream, NEW j \in DOMAIN Q[q], IdsWriter(Q, q, j), Q[q][j].run < N[s][k].run
        PROVE  j \in DOMAIN Q2[q] /\ IdsWriter(Q2, q, j) /\ Q2[q][j].run < Q2[s][i].run
    BY <1>1, <1>3, <2>2 DEF IdsWriter
  <2>3. ASSUME NEW j \in DOMAIN N[s], IdsWriter(N, s, j), j < k
        PROVE  Len(Q[s]) + j \in DOMAIN Q2[s] /\ IdsWriter(Q2, s, Len(Q[s]) + j) /\ Len(Q[s]) + j < i
    <3>1. Len(Q[s]) + j \in DOMAIN Q2[s] /\ Q2[s][Len(Q[s]) + j] = N[s][j]
      BY DEF Added
    <3>2. Len(Q[s]) \in Nat /\ j \in Nat /\ k \in Nat
      BY QueueIndex
    <3>3. Len(Q[s]) + j < i
      BY <1>3, <2>3, <3>2
    <3> QED
      BY <2>3, <3>1, <3>3 DEF IdsWriter
  <2> QED
    BY <2>1, <2>2, <2>3
<1> QED
  BY <1>2, <1>3, AddedIndex

\* Work that has nothing to do with them.
Idless(w) ==
  \A s \in Stream : \A i \in DOMAIN w[s] :
    /\ \A o \in w[s][i].reads : o[2] # "ids"
    /\ <<Own.ids, "ids">> \notin w[s][i].writes
BeforeShared == pc \in {"gate", "clone", "shared"} \/ (pc = "routed" /\ ~TwoStreams)
IdsAsked     == SharedKind = "fused" /\ (warm \/ (mode = "warmup" /\ "shared" \in DOMAIN held))

\* Work that has nothing to do with the ids leaves them as they were.
LEMMA IdsPlain ==
  ASSUME IInv, pc # "idle", NEW w \in WorkList, Issues(w), Idless(w),
         UNCHANGED <<mem, run, mode, cfg, idsBuilt>>,
         BeforeShared' => BeforeShared, IdsAsked' => idsBuilt, Capturing' => warm'
  PROVE  IdsInv'
<1>1. TypeOK /\ CallInv /\ IdsInv /\ lane \in Queue
  <2>1. TypeOK /\ CallInv /\ IdsInv
    BY DEF IInv
  <2> QED
    BY <2>1, DeviceTypes DEF TypeOK
<1>2. /\ \A s \in Stream : \A i \in DOMAIN lane'[s] :
           \/ \E k \in DOMAIN lane[s] : lane'[s][i] = lane[s][k]
           \/ \E k \in DOMAIN w[s] : lane'[s][i].work = w[s][k] /\ lane'[s][i].run = run
      /\ \A g \in DOMAIN graph' : g \in DOMAIN graph /\ \A s \in Stream : \A i \in DOMAIN graph'[g][s] :
           \/ \E k \in DOMAIN graph[g][s] : graph'[g][s][i] = graph[g][s][k]
           \/ \E k \in DOMAIN w[s] : graph'[g][s][i] = w[s][k]
  BY <1>1, IssuesPieces
<1>3. /\ IdsServed(lane', mem)
      /\ \A q \in Stream : \A j \in DOMAIN lane[q] : j \in DOMAIN lane'[q] /\ lane'[q][j] = lane[q][j]
  <2>1. CASE mode = "capture"
    <3>1. lane' = lane
      BY <2>1, <1>1, IssuesAdds
    <3> QED
      BY <3>1, <1>1 DEF IdsInv
  <2>2. CASE mode # "capture"
    <3> DEFINE N == Marked(w, run)
    <3>1. lane' \in Queue /\ Added(lane, lane', N)
      <4>1. ~Capturing
        BY <2>2 DEF Capturing
      <4> QED
        BY <1>1, <2>2, <4>1, IssuesAdds DEF Queued, Later, ThisRun
    <3>2. /\ N \in Queue
          /\ \A s \in Stream : DOMAIN N[s] = DOMAIN w[s] /\ \A i \in DOMAIN w[s] : N[s][i].work = w[s][i]
      BY <1>1, MarkedIndex, DeviceTypes DEF TypeOK
    <3> HIDE DEF N
    <3>3. \A s \in Stream : \A i \in DOMAIN N[s] : \A o \in N[s][i].work.reads : o[2] # "ids"
      BY <3>2 DEF Idless
    <3>4. IdsServed(lane, mem)
      BY <1>1 DEF IdsInv
    <3>5. IdsServed(lane', mem)
      BY <1>1, <3>1, <3>2, <3>3, <3>4, IdsAdded
    <3> QED
      BY <3>1, <3>5 DEF Added
  <2> QED
    BY <2>1, <2>2
<1>4. idsBuilt' => \/ Stored4(mem')
                   \/ \E q \in Stream : \E j \in DOMAIN lane'[q] : IdsWriter(lane', q, j)
  <2>1. idsBuilt => \/ Stored4(mem)
                    \/ \E q \in Stream : \E j \in DOMAIN lane[q] : IdsWriter(lane, q, j)
    BY <1>1 DEF IdsInv
  <2> QED
    BY <1>3, <2>1 DEF IdsWriter
<1>5. BeforeShared' => \A q \in Stream : \A j \in DOMAIN lane'[q] : IdsWriter(lane', q, j) => lane'[q][j].run < run
  <2>1. BeforeShared => \A q \in Stream : \A j \in DOMAIN lane[q] : IdsWriter(lane, q, j) => lane[q][j].run < run
    BY <1>1 DEF IdsInv, BeforeShared
  <2> QED
    BY <1>2, <2>1 DEF IdsWriter, Idless
<1>6. \A g \in DOMAIN graph' : \A s \in Stream : \A i \in DOMAIN graph'[g][s] :
        /\ \A o \in graph'[g][s][i].reads : o[2] = "ids" => o[1] = Own.ids /\ idsBuilt'
        /\ <<Own.ids, "ids">> \notin graph'[g][s][i].writes
  <2>1. \A g \in DOMAIN graph : \A s \in Stream : \A i \in DOMAIN graph[g][s] :
          /\ \A o \in graph[g][s][i].reads : o[2] = "ids" => o[1] = Own.ids /\ idsBuilt
          /\ <<Own.ids, "ids">> \notin graph[g][s][i].writes
    BY <1>1 DEF IdsInv
  <2> QED
    BY <1>2, <2>1 DEF Idless
<1>7. IdsAsked' => idsBuilt'
  OBVIOUS
<1> QED
  BY <1>3, <1>4, <1>5, <1>6, <1>7 DEF IdsInv, BeforeShared, IdsAsked

\* What is in hand is not the ids.
LEMMA HeldIdless ==
  ASSUME TypeOK, CallInv, FreeInv, NEW names \in SUBSET DOMAIN held
  PROVE  \A o \in Reads(names) : o[2] # "ids"
<1>1. \A nm \in DOMAIN held : nm # "ids"
  BY HeldPassing DEF Passing
<1> QED
  BY <1>1 DEF Reads

\* The ids of the shared experts, step by step: the gate,
LEMMA GateIds ==
  ASSUME IInv, Gate
  PROVE  IdsInv'
<1>1. TypeOK /\ CallInv /\ FreeInv /\ IdsInv
  BY DEF IInv
<1>2. /\ pc = "gate" /\ pc' \in {"clone", "shared", "routed"}
      /\ UNCHANGED <<mem, run, mode, cfg, idsBuilt, warm>>
  BY DEF Gate, Undisturbed
<1>3. PICK b \in Fresh : Takes("gate", "main", b) /\ GateWork(b) \in WorkList /\ Issues(GateWork(b))
  BY <1>1, GateIssues
<1>4. {"x"} \in SUBSET DOMAIN held
  BY <1>1, <1>2, HeldNames
<1>5. GatePiece(b) \in Pieces
  BY <1>1, <1>4, ReadsType, OwnBlocks, PieceTypes, NamesKnown DEF GatePiece
<1>6. Idless(GateWork(b))
  <2>1. \A s \in Stream : \A i \in DOMAIN GateWork(b)[s] :
          \/ GateWork(b)[s][i] = GatePiece(b)
          \/ GateWork(b)[s][i] \in {Fires("fork"), Waits("fork")}
    BY <1>1, <1>5, GateList DEF Stream
  <2>2. \A o \in GatePiece(b).reads : o[2] # "ids"
    BY <1>1, <1>4, HeldIdless, PieceParts DEF GatePiece
  <2>3. <<Own.ids, "ids">> \notin GatePiece(b).writes
    BY PieceParts DEF GatePiece
  <2> QED
    BY <2>1, <2>2, <2>3, PieceParts DEF Idless
<1>7. DOMAIN held' = DOMAIN held \cup {"gate"}
  BY <1>1, <1>3, TakesTypes, NamesKnown
<1>8. IdsAsked' => idsBuilt
  <2>1. SharedKind' = SharedKind
    BY <1>2, SameConfig
  <2> QED
    BY <1>1, <1>2, <1>7, <2>1 DEF IdsAsked, IdsInv
<1>9. BeforeShared /\ (Capturing' => warm')
  BY <1>1, <1>2 DEF BeforeShared, Capturing, IdsInv
<1> QED
  BY <1>2, <1>3, <1>6, <1>8, <1>9, IdsPlain

\* the copy of the input,
LEMMA CloneIds ==
  ASSUME IInv, Clone
  PROVE  IdsInv'
<1>1. TypeOK /\ CallInv /\ FreeInv /\ IdsInv
  BY DEF IInv
<1>2. /\ pc = "clone" /\ pc' = "shared"
      /\ UNCHANGED <<mem, run, mode, cfg, idsBuilt, warm>>
  BY DEF Clone, Undisturbed
<1>3. PICK b \in Fresh : Takes("sink", "alt", b) /\ CloneWork(b) \in WorkList /\ Issues(CloneWork(b))
  BY <1>1, CloneIssues
<1>4. {"x"} \in SUBSET DOMAIN held
  BY <1>1, <1>2, HeldNames
<1> DEFINE c == Work(Reads({"x"}), {<<b, "sink">>})
<1>5. c \in Pieces
  BY <1>1, <1>4, ReadsType, OwnBlocks, PieceTypes, NamesKnown
<1>6. Idless(CloneWork(b))
  <2>1. \A o \in c.reads : o[2] # "ids"
    BY <1>1, <1>4, HeldIdless, PieceParts
  <2>2. <<Own.ids, "ids">> \notin c.writes
    BY PieceParts
  <2>3. CloneWork(b) = [Empty EXCEPT !["alt"] = <<c>>]
    BY DEF CloneWork
  <2> HIDE DEF c
  <2>4. <<c>> \in Seq(Pieces)
    BY <1>5, Lists
  <2>5. \A s \in Stream : CloneWork(b)[s] = <<>> \/ CloneWork(b)[s] = <<c>>
    <3> DEFINE l == <<c>>
    <3>1. l \in Seq(Pieces) /\ "alt" \in Stream
      BY <2>4, NamesKnown
    <3>2. CloneWork(b) = [Empty EXCEPT !["alt"] = l]
      BY <2>3
    <3> HIDE DEF l
    <3>3. \A s \in Stream : CloneWork(b)[s] = IF s = "alt" THEN l ELSE <<>>
      BY <3>1, <3>2, OneList
    <3> QED
      BY <3>3 DEF l
  <2>6. \A s \in Stream : \A i \in DOMAIN CloneWork(b)[s] : CloneWork(b)[s][i] = c
    BY <2>5, ListParts
  <2> QED
    BY <2>1, <2>2, <2>6 DEF Idless
<1>7. DOMAIN held' = DOMAIN held \cup {"sink"}
  BY <1>1, <1>3, TakesTypes, NamesKnown
<1>8. IdsAsked' => idsBuilt
  <2>1. SharedKind' = SharedKind
    BY <1>2, SameConfig
  <2> QED
    BY <1>1, <1>2, <1>7, <2>1 DEF IdsAsked, IdsInv
<1>9. BeforeShared /\ (Capturing' => warm')
  BY <1>1, <1>2 DEF BeforeShared, Capturing, IdsInv
<1> QED
  BY <1>2, <1>3, <1>6, <1>8, <1>9, IdsPlain

\* the routed experts,
LEMMA RoutedIds ==
  ASSUME IInv, RoutedExperts
  PROVE  IdsInv'
<1>1. TypeOK /\ CallInv /\ FreeInv /\ IdsInv
  BY DEF IInv
<1>2. /\ pc = "routed" /\ pc' = IF Has /\ ~TwoStreams THEN "shared" ELSE "combine"
      /\ UNCHANGED <<mem, run, mode, cfg, idsBuilt, warm>>
  BY DEF RoutedExperts, Undisturbed
<1>3. PICK b \in Fresh : Takes("routed", "main", b) /\ RoutedWork(b) \in WorkList /\ Issues(RoutedWork(b))
  BY <1>1, RoutedIssues
<1>4. {"x", "gate"} \in SUBSET DOMAIN held
  BY <1>1, <1>2, HeldNames
<1>5. RoutedPiece(b) \in Pieces
  BY <1>1, <1>4, ReadsType, OwnBlocks, PieceTypes, NamesKnown DEF RoutedPiece
<1>6. Idless(RoutedWork(b))
  <2>1. \A s \in Stream : \A i \in DOMAIN RoutedWork(b)[s] :
          \/ RoutedWork(b)[s][i] = RoutedPiece(b)
          \/ RoutedWork(b)[s][i] \in {Fires("join"), Waits("join")}
    BY <1>1, <1>5, RoutedList DEF Stream
  <2>2. \A o \in RoutedPiece(b).reads : o[2] # "ids"
    BY <1>1, <1>4, HeldIdless, PieceParts DEF RoutedPiece
  <2>3. <<Own.ids, "ids">> \notin RoutedPiece(b).writes
    BY PieceParts DEF RoutedPiece
  <2> QED
    BY <2>1, <2>2, <2>3, PieceParts DEF Idless
<1>7. DOMAIN held' = DOMAIN held \cup {"routed"}
  BY <1>1, <1>3, TakesTypes, NamesKnown
<1>8. IdsAsked' => idsBuilt
  <2>1. SharedKind' = SharedKind
    BY <1>2, SameConfig
  <2> QED
    BY <1>1, <1>2, <1>7, <2>1 DEF IdsAsked, IdsInv
<1>9. (BeforeShared' => BeforeShared) /\ (Capturing' => warm')
  BY <1>1, <1>2 DEF BeforeShared, Capturing, IdsInv
<1> QED
  BY <1>2, <1>3, <1>6, <1>8, <1>9, IdsPlain

\* A step on the first stream of work without the ids.
LEMMA MainIdless ==
  ASSUME NEW l \in Seq(Pieces), \A i \in DOMAIN l : /\ \A o \in l[i].reads : o[2] # "ids"
                                                    /\ <<Own.ids, "ids">> \notin l[i].writes
  PROVE  Idless(OnMain(l))
BY OnMainParts DEF Idless, Stream

\* the end of forward,
LEMMA CombineIds ==
  ASSUME IInv, Combine
  PROVE  IdsInv'
<1>1. TypeOK /\ CallInv /\ FreeInv /\ IdsInv
  BY DEF IInv
<1>2. /\ pc = "combine" /\ pc' = "return"
      /\ UNCHANGED <<mem, run, mode, cfg, idsBuilt, warm>>
  BY Ends DEF Ending, Undisturbed
<1>3. Whole \in SUBSET DOMAIN held
  BY <1>1, <1>2, HeldNames DEF Whole
<1>4. Reads(Whole) \subseteq Block \X Names /\ \A o \in Reads(Whole) : o[2] # "ids"
  BY <1>1, <1>3, ReadsType, HeldIdless
<1>5. /\ Add \in Pieces /\ Add.reads = Reads(Whole) /\ Add.writes = {<<Own.ar, "buf">>}
  BY <1>4, OwnBlocks, PieceTypes, PieceParts, NamesKnown DEF Add
<1>6. ASSUME NEW l \in Seq(Pieces), Issues(OnMain(l)), OnMain(l) \in WorkList,
             \A i \in DOMAIN l : /\ \A o \in l[i].reads : o[2] # "ids"
                                 /\ <<Own.ids, "ids">> \notin l[i].writes,
             "shared" \in DOMAIN held' => "shared" \in DOMAIN held
      PROVE  IdsInv'
  <2>1. Idless(OnMain(l))
    BY <1>6, MainIdless
  <2>2. IdsAsked' => idsBuilt
    <3>1. SharedKind' = SharedKind
      BY <1>2, SameConfig
    <3> QED
      BY <1>1, <1>2, <1>6, <3>1 DEF IdsAsked, IdsInv
  <2>3. ~BeforeShared' /\ (Capturing' => warm')
    BY <1>1, <1>2 DEF BeforeShared, Capturing, IdsInv
  <2> QED
    BY <1>2, <1>6, <2>1, <2>2, <2>3, IdsPlain
<1>7. CASE OnMain(<<>>) \in WorkList /\ Issues(OnMain(<<>>)) /\ UNCHANGED held
  <2>1. <<>> \in Seq(Pieces) /\ DOMAIN <<>> = {}
    BY <1>5, Lists, ListParts
  <2> QED
    BY <1>6, <1>7, <2>1
<1>8. CASE /\ OnMain(<<Add>>) \in WorkList /\ Issues(OnMain(<<Add>>))
           /\ held' = With(held, "buf", <<Own.ar, "none">>)
  <2> DEFINE l == <<Add>>
  <2>1. l \in Seq(Pieces) /\ DOMAIN l = {1} /\ l[1] = Add
    BY <1>5, Lists, ListParts
  <2>2. OnMain(l) \in WorkList /\ Issues(OnMain(l)) /\ DOMAIN held' = DOMAIN held \cup {"buf"}
    BY <1>8 DEF With
  <2> HIDE DEF l
  <2>3. \A i \in DOMAIN l : /\ \A o \in l[i].reads : o[2] # "ids"
                            /\ <<Own.ids, "ids">> \notin l[i].writes
    BY <1>4, <1>5, <2>1
  <2> QED
    BY <1>6, <2>1, <2>2, <2>3
<1>9. ASSUME NEW b \in Fresh, Takes("sum", "main", b), OnMain(Sum(b)) \in WorkList, Issues(OnMain(Sum(b)))
      PROVE  IdsInv'
  <2> DEFINE c == Work({<<Own.ar, "buf">>}, {<<b, "sum">>})
             d == Work(Reads(Whole), {<<b, "sum">>})
             l == Sum(b)
  <2>1. c \in Pieces /\ d \in Pieces
    BY <1>4, OwnBlocks, PieceTypes, NamesKnown
  <2>2. /\ \A o \in c.reads : o[2] # "ids"
        /\ \A o \in d.reads : o[2] # "ids"
        /\ <<Own.ids, "ids">> \notin c.writes /\ <<Own.ids, "ids">> \notin d.writes
    BY <1>4, PieceParts
  <2>3. l = IF Buffer THEN <<Add, c>> ELSE <<d>>
    BY DEF Sum
  <2> HIDE DEF c, d, l
  <2>4. l \in Seq(Pieces)
    BY <1>5, <2>1, <2>3, Lists
  <2>5. \A i \in DOMAIN l : l[i] \in {Add, c, d}
    BY <2>3, ListParts
  <2>6. \A i \in DOMAIN l : /\ \A o \in l[i].reads : o[2] # "ids"
                            /\ <<Own.ids, "ids">> \notin l[i].writes
    BY <1>4, <1>5, <2>2, <2>5
  <2>7. DOMAIN held' = DOMAIN held \cup {"sum"}
    BY <1>1, <1>9, TakesTypes, NamesKnown
  <2>8. OnMain(l) \in WorkList /\ Issues(OnMain(l))
    BY <1>9 DEF l
  <2> QED
    BY <1>6, <2>4, <2>6, <2>7, <2>8
<1> QED
  BY <1>1, <1>7, <1>8, <1>9, CombineIssues

\* the return to the caller,
LEMMA ReturnIds ==
  ASSUME IInv, Return
  PROVE  IdsInv'
<1>1. TypeOK /\ CallInv /\ FreeInv /\ IdsInv
  BY DEF IInv
<1>2. /\ pc = "return" /\ pc' = "idle" /\ warm' = (warm \/ mode = "warmup") /\ DOMAIN held' = {}
      /\ UNCHANGED <<mem, run, mode, cfg, idsBuilt>>
  BY ListParts DEF Return, Undisturbed
<1>3. ReturnWork \in WorkList /\ Issues(ReturnWork) /\ Result \in SUBSET DOMAIN held
  BY <1>1, ReturnIssues
<1>4. Idless(ReturnWork)
  <2> DEFINE c == Work(Reads(Result), {})
             l == <<c>>
  <2>1. c \in Pieces /\ (\A o \in c.reads : o[2] # "ids") /\ c.writes = {}
    BY <1>1, <1>3, ReadsType, PieceTypes, HeldIdless, PieceParts
  <2>2. ReturnWork = OnMain(l)
    BY DEF ReturnWork
  <2> HIDE DEF c
  <2>3. l \in Seq(Pieces) /\ \A i \in DOMAIN l : l[i] = c
    BY <2>1, Lists, ListParts
  <2> HIDE DEF l
  <2> QED
    BY <2>1, <2>2, <2>3, MainIdless
\* Whoever warmed up has been through the shared experts.
<1>5. IdsAsked' => idsBuilt
  <2>1. SharedKind' = SharedKind
    BY <1>2, SameConfig
  <2>2. SharedKind = "fused" => "shared" \in DOMAIN held
    BY <1>1, <1>2, HeldNames DEF Has
  <2> QED
    BY <1>1, <1>2, <2>1, <2>2 DEF IdsAsked, IdsInv
<1>6. ~BeforeShared' /\ ~Capturing'
  BY <1>2 DEF BeforeShared, Capturing
<1> QED
  BY <1>2, <1>3, <1>4, <1>5, <1>6, IdsPlain

\* the shared experts, the first of which make the ids before they read them,
LEMMA SharedIds ==
  ASSUME IInv, SharedExperts
  PROVE  IdsInv'
<1>1. TypeOK /\ CallInv /\ FreeInv /\ WeightInv /\ IdsInv /\ RunsInv
  BY DEF IInv
<1>2. /\ pc = "shared" /\ pc' = (IF TwoStreams THEN "routed" ELSE "combine")
      /\ idsBuilt' = (idsBuilt \/ SharedKind = "fused")
      /\ UNCHANGED <<mem, run, mode, cfg, warm>>
  BY DEF SharedExperts, Undisturbed
<1>3. PICK b \in Fresh : /\ Takes("shared", SharedOn, b)
                         /\ SharedWork(b) \in WorkList /\ Issues(SharedWork(b))
  BY <1>1, SharedIssues
<1> DEFINE w == SharedWork(b)
           c == SharedPiece(b)
           names == (IF "sink" \in DOMAIN held THEN {"sink"} ELSE {"x"})
                      \cup (IF cfg.sink THEN {"gate"} ELSE {})
           builds == SharedKind = "fused" /\ ~idsBuilt
<1>4. names \in SUBSET DOMAIN held
  BY <1>1, <1>2, HeldNames
<1>5. SharedReads \subseteq Block \X Names
  <2>1. Reads(names) \subseteq Block \X Names
    BY <1>1, <1>4, ReadsType
  <2>2. {<<Own.ids, "ids">>} \subseteq Block \X Names
    BY OwnBlocks DEF Names
  <2> QED
    BY <2>1, <2>2, OwnBlocks DEF SharedReads
<1>6. c \in Pieces
  BY <1>5, OwnBlocks, PieceTypes, NamesKnown DEF SharedPiece
<1>7. /\ c.reads = SharedReads /\ c.writes = {<<b, "shared">>}
      /\ IdsPiece.reads = {} /\ IdsPiece.writes = {<<Own.ids, "ids">>}
  BY PieceParts DEF SharedPiece, IdsPiece
\* The shared experts read the ids if they are fused, and nothing else does.
<1>8. \A o \in SharedReads : o[2] = "ids" => o = <<Own.ids, "ids">> /\ SharedKind = "fused"
  <2>1. \A o \in Reads(names) : o[2] # "ids"
    BY <1>1, <1>4, HeldIdless
  <2>2. \A o \in SinkReads : o[2] # "ids"
    BY DEF SinkReads
  <2> QED
    BY <2>1, <2>2 DEF SharedReads
<1>9. PICK k \in DOMAIN w[SharedOn] :
        /\ w[SharedOn][k] = c
        /\ \A i \in DOMAIN w[SharedOn] : i # k => i = 1 /\ k = 2 /\ w[SharedOn][i] = IdsPiece /\ builds
        /\ builds => k = 2 /\ 1 \in DOMAIN w[SharedOn] /\ w[SharedOn][1] = IdsPiece
  BY <1>1, <1>6, SharedList
<1>10. SharedOn \in Stream /\ \A s \in Stream : s # SharedOn => DOMAIN w[s] = {}
  BY <1>1, <1>6, SharedList DEF SharedOn, Stream
<1>11. w \in WorkList /\ Issues(w) /\ pc # "idle"
  BY <1>2, <1>3
<1> HIDE DEF w, c, names
<1>12. \A s \in Stream : \A i \in DOMAIN w[s] :
         /\ s = SharedOn
         /\ \/ i = k /\ w[s][i] = c
            \/ builds /\ i = 1 /\ w[s][i] = IdsPiece
  BY <1>9, <1>10
<1>13. SharedKind' = SharedKind /\ (TwoStreams' <=> TwoStreams)
  BY <1>2, SameConfig
<1>14. builds => ~Capturing /\ mode # "capture"
  BY <1>1, <1>2 DEF IdsInv, Capturing
<1>15. /\ \A s \in Stream : \A i \in DOMAIN lane'[s] :
            \/ \E n \in DOMAIN lane[s] : lane'[s][i] = lane[s][n]
            \/ \E n \in DOMAIN w[s] : lane'[s][i].work = w[s][n] /\ lane'[s][i].run = run
       /\ \A g \in DOMAIN graph' : g \in DOMAIN graph /\ \A s \in Stream : \A i \in DOMAIN graph'[g][s] :
            \/ \E n \in DOMAIN graph[g][s] : graph'[g][s][i] = graph[g][s][n]
            \/ \E n \in DOMAIN w[s] : graph'[g][s][i] = w[s][n]
       /\ mode # "capture" => graph' = graph
       /\ mode = "capture" => lane' = lane
  BY <1>1, <1>11, IssuesPieces, IssuesAdds
<1>16. idsBuilt => \/ Stored4(mem)
                   \/ \E q \in Stream : \E j \in DOMAIN lane[q] : IdsWriter(lane, q, j)
  BY <1>1 DEF IdsInv
<1>17. \A q \in Stream : \A j \in DOMAIN lane[q] : IdsWriter(lane, q, j) => lane[q][j].run < run
  BY <1>1, <1>2 DEF IdsInv
<1>18. /\ IdsServed(lane', mem)
       /\ \A q \in Stream : \A j \in DOMAIN lane[q] : j \in DOMAIN lane'[q] /\ lane'[q][j] = lane[q][j]
       /\ builds => \E j \in DOMAIN lane'[SharedOn] : IdsWriter(lane', SharedOn, j)
  <2>1. CASE mode = "capture"
    BY <2>1, <1>1, <1>14, <1>15 DEF IdsInv
  <2>2. CASE mode # "capture"
    <3> DEFINE N == Marked(w, run)
    <3>1. lane \in Queue /\ lane' \in Queue /\ Added(lane, lane', N)
      <4>1. ~Capturing
        BY <2>2 DEF Capturing
      <4> QED
        BY <1>1, <1>11, <2>2, <4>1, IssuesAdds DEF Queued, Later, ThisRun
    <3>2. /\ N \in Queue
          /\ \A s \in Stream : DOMAIN N[s] = DOMAIN w[s] /\ \A i \in DOMAIN w[s] : N[s][i].work = w[s][i] /\ N[s][i].run = run
      BY <1>1, <1>11, MarkedIndex, DeviceTypes DEF TypeOK
    <3> HIDE DEF N
    <3>3. builds => 1 \in DOMAIN N[SharedOn] /\ IdsWriter(N, SharedOn, 1)
      BY <1>7, <1>9, <1>10, <3>2 DEF IdsWriter
    <3>4. ASSUME NEW s \in Stream, NEW i \in DOMAIN N[s], NEW o \in N[s][i].work.reads, o[2] = "ids"
          PROVE  /\ o[1] = Own.ids
                 /\ \/ Stored4(mem)
                    \/ \E q \in Stream : \E j \in DOMAIN lane[q] :
                         IdsWriter(lane, q, j) /\ lane[q][j].run < N[s][i].run
                    \/ \E j \in DOMAIN N[s] : IdsWriter(N, s, j) /\ j < i
      <4>1. /\ s = SharedOn /\ i = k /\ N[s][i].run = run /\ o \in SharedReads
        BY <1>7, <1>12, <3>2, <3>4
      <4>2. o[1] = Own.ids /\ SharedKind = "fused"
        BY <1>8, <3>4, <4>1
      <4>3. CASE builds
        BY <1>9, <3>3, <4>1, <4>2, <4>3
      <4>4. CASE ~builds
        BY <1>16, <1>17, <4>1, <4>2, <4>4
      <4> QED
        BY <4>3, <4>4
    <3>5. IdsServed(lane, mem)
      BY <1>1 DEF IdsInv
    <3>6. IdsServed(lane', mem)
      BY <3>1, <3>2, <3>4, <3>5, IdsAdded
    <3>7. builds => \E j \in DOMAIN lane'[SharedOn] : IdsWriter(lane', SharedOn, j)
      <4>1. \A i \in DOMAIN N[SharedOn] : /\ Len(lane[SharedOn]) + i \in DOMAIN lane'[SharedOn]
                                          /\ lane'[SharedOn][Len(lane[SharedOn]) + i] = N[SharedOn][i]
        BY <1>10, <3>1 DEF Added
      <4> QED
        BY <3>3, <4>1 DEF IdsWriter
    <3> QED
      BY <3>1, <3>6, <3>7 DEF Added
  <2> QED
    BY <2>1, <2>2
<1>19. idsBuilt' => \/ Stored4(mem')
                    \/ \E q \in Stream : \E j \in DOMAIN lane'[q] : IdsWriter(lane', q, j)
  BY <1>2, <1>10, <1>16, <1>18 DEF IdsWriter
<1>20. ~BeforeShared' /\ (IdsAsked' => idsBuilt') /\ (Capturing' => warm')
  BY <1>1, <1>2, <1>13 DEF BeforeShared, IdsAsked, Capturing, IdsInv
<1>21. (idsBuilt => idsBuilt') /\ (SharedKind = "fused" => idsBuilt')
  <2>1. idsBuilt \in BOOLEAN
    BY <1>1 DEF TypeOK
  <2> QED
    BY <1>2, <2>1
<1>22. \A g \in DOMAIN graph' : \A s \in Stream : \A i \in DOMAIN graph'[g][s] :
         /\ \A o \in graph'[g][s][i].reads : o[2] = "ids" => o[1] = Own.ids /\ idsBuilt'
         /\ <<Own.ids, "ids">> \notin graph'[g][s][i].writes
  <2>1. \A g \in DOMAIN graph : \A s \in Stream : \A i \in DOMAIN graph[g][s] :
          /\ \A o \in graph[g][s][i].reads : o[2] = "ids" => o[1] = Own.ids /\ idsBuilt
          /\ <<Own.ids, "ids">> \notin graph[g][s][i].writes
    BY <1>1 DEF IdsInv
  <2>2. CASE mode # "capture"
    BY <1>15, <1>21, <2>1, <2>2
  <2>3. CASE mode = "capture"
    <3>1. \A s \in Stream : \A n \in DOMAIN w[s] : w[s][n] = c
      BY <1>12, <1>14, <2>3
    <3>2. /\ \A o \in c.reads : o[2] = "ids" => o[1] = Own.ids /\ idsBuilt'
          /\ <<Own.ids, "ids">> \notin c.writes
      <4>1. b # Own.ids
        BY OwnBlocks DEF Own
      <4> QED
        BY <1>7, <1>8, <1>21, <4>1
    <3> QED
      BY <1>15, <1>21, <2>1, <3>1, <3>2
  <2> QED
    BY <2>2, <2>3
<1> QED
  BY <1>2, <1>18, <1>19, <1>20, <1>22 DEF IdsInv, BeforeShared, IdsAsked

\* a new call,
LEMMA BeginIds ==
  ASSUME IInv, NEW m \in {"eager", "warmup", "capture"}, NEW i, Begin(m, i)
  PROVE  IdsInv'
<1>1. TypeOK /\ CallInv /\ IdsInv /\ RunsInv
  BY DEF IInv
<1>2. /\ pc = "idle" /\ pc' = "gate" /\ mode' = m /\ run' = run + 1 /\ (m = "capture" => warm)
      /\ UNCHANGED <<mem, cfg, idsBuilt, warm>>
  BY DEF Begin, Undisturbed
<1>3. PICK b \in Fresh :
        /\ BeginWork(b) \in WorkList /\ BeginWork(b)["main"] = <<Work({}, {<<b, "x">>})>>
        /\ BeginWork(b)["alt"] = <<>>
        /\ DOMAIN held' = {"x"}
        /\ m = "capture" => graph' = Append(graph, BeginWork(b)) /\ lane' = lane
        /\ m # "capture" => /\ lane' = [s \in Stream |-> lane[s] \o Marked(BeginWork(b), run + 1)[s]]
                            /\ graph' = graph
  BY <1>1, BeginIssues
<1> DEFINE w == BeginWork(b)
           N == Marked(w, run + 1)
<1>4. lane \in Queue /\ graph \in Seq(WorkList) /\ run \in Nat
  BY <1>1, DeviceTypes DEF TypeOK
<1>5. \A s \in Stream : \A j \in DOMAIN w[s] : w[s][j].reads = {} /\ <<Own.ids, "ids">> \notin w[s][j].writes
  <2>1. \A s \in Stream : \A j \in DOMAIN w[s] : w[s][j] = Work({}, {<<b, "x">>})
    BY <1>3, ListParts DEF Stream
  <2> QED
    BY <2>1, PieceParts
<1>6. /\ N \in Queue
      /\ \A s \in Stream : DOMAIN N[s] = DOMAIN w[s] /\ \A j \in DOMAIN w[s] : N[s][j].work = w[s][j]
  BY <1>3, <1>4, MarkedIndex
<1>7. w \in WorkList /\ (m = "capture" => graph' = Append(graph, w) /\ lane' = lane)
      /\ (m # "capture" => lane' = [s \in Stream |-> lane[s] \o N[s]] /\ graph' = graph)
  BY <1>3
<1> HIDE DEF w, N
<1>8. /\ IdsServed(lane', mem)
      /\ \A q \in Stream : \A j \in DOMAIN lane[q] : j \in DOMAIN lane'[q] /\ lane'[q][j] = lane[q][j]
      /\ \A q \in Stream : \A j \in DOMAIN lane'[q] : IdsWriter(lane', q, j) =>
           \E k \in DOMAIN lane[q] : lane'[q][j] = lane[q][k]
  <2>1. CASE m = "capture"
    BY <2>1, <1>1, <1>7 DEF IdsInv
  <2>2. CASE m # "capture"
    <3>1. lane' \in Queue /\ Added(lane, lane', N)
      BY <2>2, <1>4, <1>6, <1>7, ConcatAdds
    <3>2. IdsServed(lane, mem)
      BY <1>1 DEF IdsInv
    <3>3. \A s \in Stream : \A j \in DOMAIN N[s] :
            N[s][j].work.reads = {} /\ <<Own.ids, "ids">> \notin N[s][j].work.writes
      BY <1>5, <1>6
    <3>4. IdsServed(lane', mem)
      BY <1>4, <1>6, <3>1, <3>2, <3>3, IdsAdded
    <3>5. ASSUME NEW q \in Stream, NEW j \in DOMAIN lane'[q], IdsWriter(lane', q, j)
          PROVE  \E k \in DOMAIN lane[q] : lane'[q][j] = lane[q][k]
      <4>1. ~\E k \in DOMAIN N[q] : lane'[q][j] = N[q][k]
        BY <3>3, <3>5 DEF IdsWriter
      <4> QED
        BY <4>1, <3>1, <1>4, <1>6, AddedIndex
    <3> QED
      BY <3>1, <3>4, <3>5 DEF Added
  <2> QED
    BY <2>1, <2>2
<1>9. idsBuilt' => \/ Stored4(mem')
                   \/ \E q \in Stream : \E j \in DOMAIN lane'[q] : IdsWriter(lane', q, j)
  <2>1. idsBuilt => \/ Stored4(mem)
                    \/ \E q \in Stream : \E j \in DOMAIN lane[q] : IdsWriter(lane, q, j)
    BY <1>1 DEF IdsInv
  <2> QED
    BY <1>2, <1>8, <2>1 DEF IdsWriter
\* Who makes them belongs to an earlier run.
<1>10. \A q \in Stream : \A j \in DOMAIN lane'[q] : IdsWriter(lane', q, j) => lane'[q][j].run < run'
  <2>1. \A q \in Stream : \A k \in DOMAIN lane[q] : lane[q][k].run <= run /\ lane[q][k].run \in Nat
    BY <1>1, <1>4, QueueIndex DEF RunsInv
  <2>2. \A q \in Stream : \A k \in DOMAIN lane[q] : lane[q][k].run < run'
    BY <1>2, <1>4, <2>1
  <2> QED
    BY <1>8, <2>2
<1>11. SharedKind' = SharedKind
  BY <1>2, SameConfig
<1>12. (IdsAsked' => idsBuilt') /\ (Capturing' => warm')
  BY <1>1, <1>2, <1>3, <1>11 DEF IdsAsked, Capturing, IdsInv
<1>13. \A g \in DOMAIN graph' : \A s \in Stream : \A j \in DOMAIN graph'[g][s] :
         /\ \A o \in graph'[g][s][j].reads : o[2] = "ids" => o[1] = Own.ids /\ idsBuilt'
         /\ <<Own.ids, "ids">> \notin graph'[g][s][j].writes
  <2>1. \A g \in DOMAIN graph : \A s \in Stream : \A j \in DOMAIN graph[g][s] :
          /\ \A o \in graph[g][s][j].reads : o[2] = "ids" => o[1] = Own.ids /\ idsBuilt
          /\ <<Own.ids, "ids">> \notin graph[g][s][j].writes
    BY <1>1 DEF IdsInv
  <2>2. ASSUME NEW g \in DOMAIN graph' PROVE graph'[g] = w \/ (g \in DOMAIN graph /\ graph'[g] = graph[g])
    <3>1. CASE m = "capture"
      <4>1. /\ graph' \in Seq(WorkList) /\ Len(graph') = Len(graph) + 1
            /\ \A k \in 1 .. Len(graph) : graph'[k] = graph[k]
            /\ graph'[Len(graph) + 1] = w
        BY <3>1, <1>4, <1>7, AppendProperties
      <4> QED
        BY <4>1, <1>4, <2>2
    <3>2. CASE m # "capture"
      BY <3>2, <1>7, <2>2
    <3> QED
      BY <3>1, <3>2
  <2> QED
    BY <1>2, <1>5, <2>1, <2>2
<1> QED
  BY <1>2, <1>8, <1>9, <1>10, <1>12, <1>13 DEF IdsInv, IdsAsked

\* a replay, which reads ids only when its capture found them made,
LEMMA ReplayIds ==
  ASSUME IInv, Replay
  PROVE  IdsInv'
<1>1. TypeOK /\ CallInv /\ IdsInv /\ RunsInv
  BY DEF IInv
<1>2. /\ pc = "idle" /\ run' = run + 1
      /\ UNCHANGED <<mem, graph, pc, mode, held, cfg, idsBuilt, warm>>
  BY DEF Replay, layerVars
<1>3. PICK g \in DOMAIN graph : lane' = [s \in Stream |-> lane[s] \o Marked(graph[g], run + 1)[s]]
  BY <1>2 DEF Replay
<1>4. lane \in Queue /\ graph \in Seq(WorkList) /\ run \in Nat /\ graph[g] \in WorkList
  BY <1>1, <1>3, DeviceTypes DEF TypeOK
<1> DEFINE N == Marked(graph[g], run + 1)
<1>5. /\ N \in Queue
      /\ \A s \in Stream : DOMAIN N[s] = DOMAIN graph[g][s]
                           /\ \A j \in DOMAIN graph[g][s] : N[s][j].work = graph[g][s][j] /\ N[s][j].run = run + 1
  BY <1>4, MarkedIndex
<1>6. lane' = [s \in Stream |-> lane[s] \o N[s]]
  BY <1>3
<1> HIDE DEF N
<1>7. lane' \in Queue /\ Added(lane, lane', N)
  BY <1>4, <1>5, <1>6, ConcatAdds
<1>8. /\ idsBuilt => \/ Stored4(mem)
                     \/ \E q \in Stream : \E j \in DOMAIN lane[q] : IdsWriter(lane, q, j)
      /\ \A s \in Stream : \A j \in DOMAIN graph[g][s] :
           \A o \in graph[g][s][j].reads : o[2] = "ids" => o[1] = Own.ids /\ idsBuilt
  BY <1>1 DEF IdsInv
<1>9. \A q \in Stream : \A k \in DOMAIN lane[q] : lane[q][k].run < run + 1
  <2>1. \A q \in Stream : \A k \in DOMAIN lane[q] : lane[q][k].run <= run /\ lane[q][k].run \in Nat
    BY <1>1, <1>4, QueueIndex DEF RunsInv
  <2> QED
    BY <1>4, <2>1
\* A graph that reads the ids was captured when somebody had made them.
<1>10. \A s \in Stream : \A j \in DOMAIN N[s] : \A o \in N[s][j].work.reads : o[2] = "ids" =>
         /\ o[1] = Own.ids
         /\ \/ Stored4(mem)
            \/ \E q \in Stream : \E k \in DOMAIN lane[q] : IdsWriter(lane, q, k) /\ lane[q][k].run < N[s][j].run
  BY <1>5, <1>8, <1>9
<1>11. IdsServed(lane', mem)
  <2>1. IdsServed(lane, mem)
    BY <1>1 DEF IdsInv
  <2> QED
    BY <1>4, <1>5, <1>7, <1>10, <2>1, IdsAdded
<1>12. idsBuilt' => \/ Stored4(mem')
                    \/ \E q \in Stream : \E j \in DOMAIN lane'[q] : IdsWriter(lane', q, j)
  BY <1>2, <1>7, <1>8 DEF Added, IdsWriter
<1>13. SharedKind' = SharedKind
  BY <1>2, SameConfig
<1>14. (IdsAsked' => idsBuilt') /\ ~Capturing' /\ ~BeforeShared'
  BY <1>1, <1>2, <1>13 DEF IdsAsked, Capturing, BeforeShared, IdsInv
<1> QED
  BY <1>1, <1>2, <1>11, <1>12, <1>14 DEF IdsInv, IdsAsked, BeforeShared

\* loads and resumes, which leave them alone,
LEMMA LoadIds ==
  ASSUME IInv, (\E l \in BOOLEAN : LoadSink(l)) \/ PostLoad \/ Resume
  PROVE  IdsInv'
<1>1. TypeOK /\ IdsInv
  BY DEF IInv
<1>2. /\ pc = "idle" /\ pc' = "idle"
      /\ UNCHANGED <<lane, run, graph, mode, held, cfg, idsBuilt, warm>>
  BY DEF LoadSink, PostLoad, Resume, Still
<1>3. mem'[Own.ids] = mem[Own.ids]
  <2>1. DOMAIN mem = Block /\ Own.ids \in Block
    BY <1>1, OwnBlocks, DeviceTypes DEF TypeOK
  <2>2. Own.ids # Own.w2 /\ Own.ids # Own.w2lin /\ Own.ids # Own.fp4
    BY DEF Own
  <2> QED
    BY <2>1, <2>2 DEF LoadSink, PostLoad, Resume
<1>4. Stored4(mem') <=> Stored4(mem)
  BY <1>3 DEF Stored4
<1>5. SharedKind' = SharedKind
  BY <1>2, SameConfig
<1>6. IdsServed(lane', mem')
  BY <1>1, <1>2, <1>4 DEF IdsInv, IdsServed
<1> QED
  BY <1>1, <1>2, <1>4, <1>5, <1>6 DEF IdsInv, Capturing

\* and the device, which makes them before anything reads them.
LEMMA ExecuteIds ==
  ASSUME IInv, NEW s0 \in Stream, Execute(s0), UNCHANGED layerVars
  PROVE  IdsInv'
<1>1. TypeOK /\ CallInv /\ StreamInv /\ RunsInv /\ IdsInv
  BY DEF IInv
<1>2. UNCHANGED <<pc, mode, held, cfg, run, graph, idsBuilt, warm>>
  BY DEF Execute, layerVars
<1> DEFINE open == IF Capturing THEN {} ELSE OpenRun(run)
<1>3. /\ lane \in Queue /\ lane' \in Queue
      /\ Step(lane, lane', mem, mem', fired, open, s0)
  BY <1>1, ExecuteStep
<1> HIDE DEF open
<1>4. Rest(lane, lane', s0) /\ Does(lane, mem, mem', s0) /\ 1 \in DOMAIN lane[s0]
  BY <1>3 DEF Step, Rest
<1>5. Stored4(mem) \/ IdsWriter(lane, s0, 1) => Stored4(mem')
  <2>1. CASE WritesTo(lane, s0, 1, Own.ids)
    <3>1. PICK o \in lane[s0][1].work.writes : o[1] = Own.ids
      BY <2>1 DEF WritesTo
    <3>2. o = <<Own.ids, "ids">>
      BY <1>3, <1>4, <3>1 DEF Step, Programme, WritesInPlace, Own
    <3>3. mem'[o[1]] = <<o[2], IF o[2] = "ids" THEN 0 ELSE lane[s0][1].run>>
      BY <1>4 DEF Does
    <3> QED
      BY <3>2, <3>3 DEF Stored4
  <2>2. CASE ~WritesTo(lane, s0, 1, Own.ids)
    <3>1. mem'[Own.ids] = mem[Own.ids]
      BY <2>2, <1>4, OwnBlocks DEF Does
    <3>2. ~IdsWriter(lane, s0, 1)
      BY <2>2 DEF IdsWriter, WritesTo
    <3> QED
      BY <3>1, <3>2 DEF Stored4
  <2> QED
    BY <2>1, <2>2
<1>6. ASSUME NEW q \in Stream, NEW j \in DOMAIN lane[q], IdsWriter(lane, q, j)
      PROVE  \/ Stored4(mem')
             \/ \E k \in DOMAIN lane'[q] : Old(s0, q, k) = j /\ lane'[q][k] = lane[q][j] /\ IdsWriter(lane', q, k)
  <2>1. CASE q = s0 /\ j = 1
    BY <2>1, <1>5, <1>6
  <2>2. CASE ~(q = s0 /\ j = 1)
    <3>1. PICK k \in DOMAIN lane'[q] : Old(s0, q, k) = j
      BY <2>2, <1>4 DEF Rest
    <3>2. lane'[q][k] = lane[q][j]
      BY <3>1, <1>4 DEF Rest
    <3> QED
      BY <3>1, <3>2, <1>6 DEF IdsWriter
  <2> QED
    BY <2>1, <2>2
<1>7. IdsServed(lane', mem')
  <2> SUFFICES ASSUME NEW s \in Stream, NEW i \in DOMAIN lane'[s], NEW o \in lane'[s][i].work.reads, o[2] = "ids"
               PROVE  /\ o[1] = Own.ids
                      /\ \/ Stored4(mem')
                         \/ \E q \in Stream : \E j \in DOMAIN lane'[q] :
                              IdsWriter(lane', q, j) /\ ((q = s /\ j < i) \/ lane'[q][j].run < lane'[s][i].run)
    BY DEF IdsServed
  <2>1. Old(s0, s, i) \in DOMAIN lane[s] /\ lane'[s][i] = lane[s][Old(s0, s, i)]
    BY <1>3, <1>4, OldIndex
  <2>2. /\ o[1] = Own.ids
        /\ \/ Stored4(mem)
           \/ \E q \in Stream : \E j \in DOMAIN lane[q] :
                /\ IdsWriter(lane, q, j)
                /\ (q = s /\ j < Old(s0, s, i)) \/ lane[q][j].run < lane[s][Old(s0, s, i)].run
    BY <1>1, <2>1 DEF IdsInv, IdsServed
  <2>3. CASE Stored4(mem)
    BY <2>2, <2>3, <1>5
  <2>4. ASSUME NEW q \in Stream, NEW j \in DOMAIN lane[q], IdsWriter(lane, q, j),
               (q = s /\ j < Old(s0, s, i)) \/ lane[q][j].run < lane[s][Old(s0, s, i)].run
        PROVE  \/ Stored4(mem')
               \/ \E k \in DOMAIN lane'[q] :
                    IdsWriter(lane', q, k) /\ ((q = s /\ k < i) \/ lane'[q][k].run < lane'[s][i].run)
    <3>1. CASE Stored4(mem')
      BY <3>1
    <3>2. ASSUME NEW k \in DOMAIN lane'[q], Old(s0, q, k) = j, lane'[q][k] = lane[q][j], IdsWriter(lane', q, k)
          PROVE  (q = s /\ k < i) \/ lane'[q][k].run < lane'[s][i].run
      <4>1. q = s => (k < i <=> Old(s0, s, k) < Old(s0, s, i))
        BY <3>2, <1>3, <1>4, OldIndex
      <4> QED
        BY <2>1, <2>4, <3>2, <4>1
    <3> QED
      BY <1>6, <2>4, <3>1, <3>2
  <2> QED
    BY <2>2, <2>3, <2>4
<1>8. idsBuilt' => \/ Stored4(mem')
                   \/ \E q \in Stream : \E j \in DOMAIN lane'[q] : IdsWriter(lane', q, j)
  <2>1. idsBuilt => \/ Stored4(mem)
                    \/ \E q \in Stream : \E j \in DOMAIN lane[q] : IdsWriter(lane, q, j)
    BY <1>1 DEF IdsInv
  <2> QED
    BY <1>2, <1>5, <1>6, <2>1
<1>9. SharedKind' = SharedKind /\ (TwoStreams' <=> TwoStreams)
  BY <1>2, SameConfig
<1>10. BeforeShared' => \A q \in Stream : \A j \in DOMAIN lane'[q] : IdsWriter(lane', q, j) => lane'[q][j].run < run
  <2>1. BeforeShared => \A q \in Stream : \A j \in DOMAIN lane[q] : IdsWriter(lane, q, j) => lane[q][j].run < run
    BY <1>1 DEF IdsInv, BeforeShared
  <2>2. \A s \in Stream : \A i \in DOMAIN lane'[s] : \E k \in DOMAIN lane[s] : lane'[s][i] = lane[s][k]
    BY <1>4 DEF Rest
  <2>3. BeforeShared' => BeforeShared
    BY <1>2, <1>9 DEF BeforeShared
  <2> QED
    BY <2>1, <2>2, <2>3 DEF IdsWriter
<1>11. (IdsAsked' => idsBuilt') /\ (Capturing' => warm')
  BY <1>1, <1>2, <1>9 DEF IdsAsked, Capturing, IdsInv
<1> QED
  BY <1>1, <1>2, <1>7, <1>8, <1>10, <1>11 DEF IdsInv, BeforeShared, IdsAsked

\* Before the first call there is no work and nobody holds a block.
LEMMA StartsWell ==
  ASSUME Init
  PROVE  IInv
<1>1. TypeOK /\ CallInv /\ WeightInv
  BY CallInit, WeightInit
<1>2. /\ lane = Empty /\ fired = {} /\ mem = [b \in 1 .. 5 + Blocks |-> Junk] /\ run = 0
      /\ free = [p \in Pool \X Stream |-> {}] /\ graph = <<>>
      /\ pc = "idle" /\ mode = "eager" /\ held = <<>> /\ idsBuilt = FALSE /\ warm = FALSE
  BY DEF Init, DeviceInit, Empty
<1>3. /\ DOMAIN held = {} /\ DOMAIN graph = {} /\ ~Capturing /\ ~Open
      /\ \A s \in Stream : DOMAIN lane[s] = {}
  <2>1. DOMAIN held = {} /\ DOMAIN graph = {}
    BY <1>2
  <2> QED
    BY <1>2, <2>1, EmptyProgramme DEF Capturing, Open
<1>4. StreamInv
  BY <1>2, <1>3, EmptyProgramme DEF StreamInv, OpenRun
<1>5. \A b \in Block : mem[b] = Junk
  BY <1>2 DEF Block
<1>6. RunsInv
  <2>1. \A b \in Block : mem[b][2] <= run
    <3>1. run = 0
      BY <1>2
    <3>2. \A b \in Block : mem[b][2] = 0
      BY <1>5 DEF Junk
    <3> QED
      BY <3>1, <3>2
  <2>2. \A e \in fired : e[2] <= run
    BY <1>2
  <2> QED
    BY <1>3, <2>1, <2>2 DEF RunsInv
<1>7. FreeInv
  BY <1>2, <1>3 DEF FreeInv
<1>8. IdsInv
  BY <1>2, <1>3 DEF IdsInv, IdsServed, Capturing
<1> QED
  BY <1>1, <1>2, <1>3, <1>4, <1>6, <1>7, <1>8 DEF IInv, HeldServed, Touched, EventsAhead

\* Nothing is lost while nothing happens.
LEMMA StaysWell ==
  ASSUME IInv, UNCHANGED vars
  PROVE  IInv'
<1>1. /\ TypeOK /\ CallInv /\ WeightInv
      /\ StreamInv /\ HeldServed /\ Touched /\ EventsAhead /\ FreeInv /\ RunsInv /\ IdsInv
  BY DEF IInv
<1>2. /\ UNCHANGED <<lane, fired, mem, free, top, epoch, run, graph>>
      /\ UNCHANGED <<cfg, pc, mode, warm, idsBuilt, held>>
  BY DEF vars, deviceVars, layerVars
<1>3. TypeOK' /\ CallInv'
  BY <1>1, CallStutter
<1>4. WeightInv'
  BY <1>1, WeightStep
<1>5. SharedKind' = SharedKind /\ (TwoStreams' <=> TwoStreams)
  BY <1>2, SameConfig
<1>6. (Capturing' <=> Capturing) /\ (Open' <=> Open)
  BY <1>2, <1>5 DEF Capturing, Open
<1>7. /\ \A g \in DOMAIN graph : Captured(g)' = Captured(g)
      /\ Captured(Len(graph))' = Captured(Len(graph))
  BY <1>2 DEF Captured
<1>8. Queued' = Queued /\ Memory' = Memory /\ Events' = Events /\ ThisRun' = ThisRun
  BY <1>2, <1>6, <1>7 DEF Queued, Memory, Events, ThisRun
<1>9. StreamInv'
  BY <1>1, <1>2, <1>6, <1>7 DEF StreamInv, OpenRun
<1>10. HeldServed'
  <2>1. \A nm \in DOMAIN held : MadeOn(nm)' = MadeOn(nm) /\ Dues(nm)' = Dues(nm)
    BY <1>2, <1>5 DEF MadeOn, Dues, ForkDue, JoinDue
  <2> QED
    BY <1>1, <1>2, <1>8, <2>1 DEF HeldServed
<1>11. Touched' /\ EventsAhead'
  BY <1>1, <1>2, <1>6, <1>8 DEF Touched, EventsAhead
<1>12. FreeInv' /\ RunsInv'
  BY <1>1, <1>2, <1>5 DEF FreeInv, RunsInv, Given
<1>13. IdsInv'
  BY <1>1, <1>2, <1>5, <1>6 DEF IdsInv
<1> QED
  BY <1>3, <1>4, <1>9, <1>10, <1>11, <1>12, <1>13 DEF IInv

\* Every step of the host and of the device keeps all of it.
LEMMA StepsWell ==
  ASSUME IInv, Next
  PROVE  IInv'
<1>1. TypeOK /\ CallInv /\ WeightInv
  BY DEF IInv
<1>2. TypeOK' /\ CallInv' /\ WeightInv'
  BY <1>1, TypeStep, CallStep, WeightStep
<1>3. ASSUME NEW m \in {"eager", "warmup", "capture"}, NEW i \in Routings[cfg], Begin(m, i)
      PROVE  IInv'
  BY <1>2, <1>3, BeginFlows, BeginIds DEF IInv
<1>4. CASE Gate
  BY <1>2, <1>4, GateFlows, GateIds DEF IInv
<1>5. CASE Clone
  BY <1>2, <1>5, CloneFlows, CloneIds DEF IInv
<1>6. CASE SharedExperts
  BY <1>2, <1>6, SharedFlows, SharedIds DEF IInv
<1>7. CASE RoutedExperts
  BY <1>2, <1>7, RoutedFlows, RoutedIds DEF IInv
<1>8. CASE Combine
  BY <1>2, <1>8, CombineFlows, CombineIds DEF IInv
<1>9. CASE Return
  BY <1>2, <1>9, ReturnFlows, ReturnIds DEF IInv
<1>10. CASE Replay
  BY <1>2, <1>10, ReplayFlows, ReplayIds DEF IInv
<1>11. CASE (\E l \in BOOLEAN : LoadSink(l)) \/ PostLoad \/ Resume
  BY <1>2, <1>11, LoadFlows, LoadIds DEF IInv
<1>12. ASSUME NEW s \in Stream, Execute(s), UNCHANGED layerVars
       PROVE  IInv'
  BY <1>2, <1>12, ExecuteFlows, ExecuteIds DEF IInv
<1>13. CASE Finished
  BY <1>13, StaysWell DEF Finished
<1> QED
  BY <1>3, <1>4, <1>5, <1>6, <1>7, <1>8, <1>9, <1>10, <1>11, <1>12, <1>13 DEF Next

\* The inductive invariant of the layer: the programme of each stream, the
\* tensors in hand, the allocator's lists, the numbers of the runs and the ids.
THEOREM LayerInvariant == Spec => []IInv
<1>1. Init => IInv
  BY StartsWell
<1>2. IInv /\ [Next]_vars => IInv'
  BY StaysWell, StepsWell
<1> QED
  BY <1>1, <1>2, PTL DEF Spec

\* What can run finds the tensors of its run, and the ids.
LEMMA ReadsNow ==
  ASSUME IInv
  PROVE  ReadsWhatWasMeant
<1>1. TypeOK /\ StreamInv /\ RunsInv /\ IdsInv
  BY DEF IInv
<1> SUFFICES ASSUME NEW s \in Stream, Runnable(s), NEW o \in Head(lane[s]).work.reads,
                    o[2] \in Names \ Weights
             PROVE  mem[o[1]] = Meant(o[2], Head(lane[s]).run)
  BY DEF ReadsWhatWasMeant, Finds
<1>2. lane \in Queue /\ lane[s] # <<>> /\ run \in Nat
  BY <1>1, DeviceTypes DEF TypeOK, Runnable
<1>3. 1 \in DOMAIN lane[s] /\ Head(lane[s]) = lane[s][1]
  BY <1>2, TailIsRest DEF Rest
<1>4. CanRun(lane, fired, s)
  BY <1>2, <1>3 DEF Runnable, CanRun
<1> DEFINE open == IF Capturing THEN {} ELSE OpenRun(run)
<1>5. Programme(lane, mem, fired, open)
  BY <1>1 DEF StreamInv
<1>6. UpTo(lane, open)
  <2>1. \A x \in open : x = run
    BY DEF OpenRun
  <2> HIDE DEF open
  <2> QED
    BY <1>1, <2>1 DEF UpTo, RunsInv
<1> HIDE DEF open
<1>7. CASE o[2] \in Passing
  <2>1. mem[o[1]] = <<o[2], lane[s][1].run>>
    BY <1>2, <1>3, <1>4, <1>5, <1>7, ReadsWell
  <2> QED
    BY <1>3, <1>7, <2>1 DEF Meant, Passing
<1>8. CASE o[2] = "ids"
  <2>1. \A q \in Stream : \A j \in DOMAIN lane[q] : lane[s][1].run <= lane[q][j].run
    BY <1>2, <1>4, <1>5, <1>6, HeadIsLeast DEF Programme
  <2>2. \A q \in Stream : \A j \in DOMAIN lane[q] :
          j \in Nat \ {0} /\ lane[q][j].run \in Nat /\ lane[s][1].run \in Nat
    BY <1>2, <1>3, QueueIndex
  <2>3. \A q \in Stream : \A j \in DOMAIN lane[q] : ~((q = s /\ j < 1) \/ lane[q][j].run < lane[s][1].run)
    BY <2>1, <2>2
  <2>4. o[1] = Own.ids /\ Stored4(mem)
    BY <1>1, <1>3, <1>8, <2>3 DEF IdsInv, IdsServed
  <2> QED
    BY <1>8, <2>4 DEF Stored4, Meant, Weights
<1> QED
  BY <1>7, <1>8 DEF Passing

\* However the two streams drift apart, whatever the allocator made of freed
\* blocks, and in whichever order calls, captures and replays came: a piece of
\* work of forward only runs when each tensor it takes is in its block, made in
\* the same run and not yet overwritten.
THEOREM ReadsAreMeant == Spec => []ReadsWhatWasMeant
<1>1. IInv => ReadsWhatWasMeant
  BY ReadsNow
<1> QED
  BY <1>1, LayerInvariant, PTL

-----------------------------------------------------------------------------
(* The sum over the ranks.                                                 *)

\* The parts a rank adds to the sum: of its share of the choices, and of every
\* shared expert.
Chosen(r) ==
  {<<"routed", tk[1], routing[tk[1]][tk[2]], Weight[tk[1]][routing[tk[1]][tk[2]]], TpSlice(r)>> :
     tk \in {tk \in Tokens \X Picks : routing[tk[1]][tk[2]] \div Local = EpRank(r)}}
Slices(r) ==
  IF SharedKind = "dense" THEN {<<"shared", t, 0, 0, r>> : t \in Tokens}
  ELSE {<<"shared", ts[1], ts[2], Weight[ts[1]][Experts + ts[2]], r>> :
          ts \in Tokens \X (0 .. Shared - 1)}

\* A packed choice gives its expert and its weight back.
LEMMA ChoiceUnpacks ==
  ASSUME NEW e \in Nat, NEW w \in WeightBits
  PROVE  BlockOf(Word(e, w)) = e /\ ExpertOf(Word(e, w)) = w
<1>1. w \in Nat /\ w < 65536
  BY DEF WeightBits
<1> QED
  BY <1>1, WordsUnpack

\* What a batch and a configuration are while a call is under way.
LEMMA Batch ==
  ASSUME TypeOK, CallInv, pc # "idle"
  PROVE  /\ {Ranks, Experts, Shared, RowTile, Grid} \subseteq Nat \ {0}
         /\ cfg.ep \in Nat \ {0} /\ Ranks % cfg.ep = 0 /\ Experts % cfg.ep = 0
         /\ Cardinality(Tokens) \in Nat \ {0} /\ Tokens = 0 .. Cardinality(Tokens) - 1
         /\ 0 \in Picks /\ IsWeighed(routing)
         /\ None \notin [DOMAIN routing -> [DOMAIN routing[0] -> Nat]]
         /\ Picks = DOMAIN routing[0]
         /\ \A t \in Tokens : \A k \in Picks :
              /\ routing[t][k] \in 0 .. Experts - 1
              /\ Weight[t][routing[t][k]] \in WeightBits
              /\ \A j \in Picks : routing[t][j] = routing[t][k] => j = k
<1>1. routing \in Routings[cfg] /\ cfg \in Configs
  BY DEF CallInv, TypeOK
<1>2. /\ cfg \in Config /\ Ranks % cfg.ep = 0 /\ Experts % cfg.ep = 0
      /\ IsRouting(routing) /\ IsWeighed(routing)
      /\ None \notin [DOMAIN routing -> [DOMAIN routing[0] -> Nat]]
      /\ {Ranks, Experts, Shared, RowTile, Grid} \subseteq Nat \ {0}
  BY <1>1, LayerAssumption
<1>3. cfg.ep \in Nat \ {0}
  BY <1>2 DEF Config
<1>4. Picks = DOMAIN routing[0] /\ 0 \in Picks
  BY <1>2 DEF Picks, TopK, IsRouting, IsIndexed
<1>5. Cardinality(Tokens) \in Nat \ {0} /\ Tokens = 0 .. Cardinality(Tokens) - 1
  <2>1. 0 \in Tokens /\ IsFiniteSet(Tokens) /\ Tokens = 0 .. Cardinality(Tokens) - 1
    BY <1>2 DEF Tokens, IsRouting, IsIndexed
  <2>2. Cardinality(Tokens) \in Nat
    BY <2>1, FS_CardinalityType
  <2> QED
    BY <2>1, <2>2
<1>6. ASSUME NEW t \in Tokens, NEW k \in Picks
      PROVE  routing[t][k] \in 0 .. Experts - 1 /\ Weight[t][routing[t][k]] \in WeightBits
  <2>1. routing[t][k] \in 0 .. Experts - 1
    BY <1>2, <1>4 DEF Tokens, IsRouting
  <2>2. routing[t][k] \in 0 .. Experts + Shared - 1
    BY <2>1, <1>2
  <2> QED
    BY <2>1, <2>2, <1>2 DEF Tokens, IsWeighed
<1>7. \A t \in Tokens : \A j, k \in Picks : routing[t][j] = routing[t][k] => j = k
  BY <1>2, <1>4 DEF Tokens, IsRouting
<1> QED
  BY <1>2, <1>3, <1>4, <1>5, <1>6, <1>7

\* What is added once each is a set.
LEMMA TallyOnce ==
  ASSUME NEW adds, \A x, y \in DOMAIN adds : adds[x] = adds[y] => x = y
  PROVE  Tally(adds) = SetToBag({adds[x] : x \in DOMAIN adds})
<1> DEFINE S == {adds[x] : x \in DOMAIN adds}
           Of(part) == {x \in DOMAIN adds : adds[x] = part}
<1>1. ASSUME NEW part \in S PROVE Cardinality(Of(part)) = 1
  <2>1. PICK x \in DOMAIN adds : adds[x] = part
    OBVIOUS
  <2>2. Of(part) = {x}
    BY <2>1
  <2> QED
    BY <2>2, FS_Singleton
<1>2. Tally(adds) = [part \in S |-> Cardinality(Of(part))]
  BY DEF Tally
<1>3. SetToBag(S) = [part \in S |-> 1]
  BY DEF SetToBag
<1> HIDE DEF S, Of
<1>4. Tally(adds) = SetToBag(S)
  BY <1>1, <1>2, <1>3
<1> QED
  BY <1>4 DEF S

\* A rank's share of the choices, added up one by one.
Share(r) == {tk \in Tokens \X Picks : routing[tk[1]][tk[2]] \div Local = EpRank(r)}
Choice(r, tk) ==
  <<"routed", tk[1], routing[tk[1]][tk[2]], Weight[tk[1]][routing[tk[1]][tk[2]]], TpSlice(r)>>
LEMMA TallyChosen ==
  ASSUME TypeOK, CallInv, pc # "idle", NEW r, NEW adds, DOMAIN adds = Share(r),
         \A tk \in Share(r) : adds[tk] = Choice(r, tk)
  PROVE  Tally(adds) = SetToBag(Chosen(r))
<1>1. ASSUME NEW x \in DOMAIN adds, NEW y \in DOMAIN adds, adds[x] = adds[y] PROVE x = y
  <2>1. x \in Tokens \X Picks /\ y \in Tokens \X Picks
    BY DEF Share
  <2>2. adds[x] = Choice(r, x) /\ adds[y] = Choice(r, y)
    OBVIOUS
  <2>3. x[1] = y[1] /\ routing[x[1]][x[2]] = routing[y[1]][y[2]]
    <3>1. Choice(r, x)[2] = Choice(r, y)[2] /\ Choice(r, x)[3] = Choice(r, y)[3]
      BY <1>1, <2>2
    <3>2. \A tk : Choice(r, tk)[2] = tk[1] /\ Choice(r, tk)[3] = routing[tk[1]][tk[2]]
      BY DEF Choice
    <3> QED
      BY <3>1, <3>2
  <2>4. \A t \in Tokens : \A k \in Picks : \A j \in Picks : routing[t][j] = routing[t][k] => j = k
    BY Batch
  <2>5. x[1] \in Tokens /\ x[2] \in Picks /\ y[2] \in Picks
    BY <2>1
  <2>6. x[2] = y[2]
    BY <2>3, <2>4, <2>5
  <2> QED
    BY <2>1, <2>3, <2>6
<1>2. {adds[x] : x \in DOMAIN adds} = {Choice(r, tk) : tk \in Share(r)}
  OBVIOUS
<1>3. {Choice(r, tk) : tk \in Share(r)} = Chosen(r)
  BY DEF Choice, Share, Chosen
<1> QED
  BY <1>1, <1>2, <1>3, TallyOnce

\* A runner that is given the choices and their weights.
LEMMA StockGives ==
  ASSUME TypeOK, CallInv, pc # "idle", NEW r, NEW topk,
         \A t \in Tokens : \A k \in Picks :
           topk.ids[t][k] = routing[t][k] /\ topk.weights[t][k] = Weight[t][routing[t][k]]
  PROVE  StockPart(r, topk) = SetToBag(Chosen(r))
<1> DEFINE adds ==
      [tk \in {tk \in Tokens \X Picks : topk.ids[tk[1]][tk[2]] \div Local = EpRank(r)} |->
         <<"routed", tk[1], topk.ids[tk[1]][tk[2]], topk.weights[tk[1]][tk[2]], TpSlice(r)>>]
<1>1. DOMAIN adds = Share(r)
  BY DEF Share
<1>2. \A tk \in Share(r) : adds[tk] = Choice(r, tk)
  BY <1>1 DEF Share, Choice
<1>3. StockPart(r, topk) = Tally(adds)
  BY DEF StockPart
<1> HIDE DEF adds
<1> QED
  BY <1>1, <1>2, <1>3, TallyChosen

\* Packed or not, on whatever runner: the routed part of a rank has exactly its
\* share of the choices, each once and with the weight the gate gave it.
LEMMA RoutedGives ==
  ASSUME TypeOK, CallInv, pc \notin {"idle", "gate"}, NEW r \in Rank
  PROVE  RoutedPart(r) = SetToBag(Chosen(r))
<1>1. gate = IF Shortcut THEN FusedGate ELSE PlainGate
  BY DEF CallInv
<1>2. pc # "idle"
  OBVIOUS
<1>3. /\ \A t \in Tokens : \A k \in Picks :
           routing[t][k] \in 0 .. Experts - 1 /\ Weight[t][routing[t][k]] \in WeightBits
      /\ None \notin [DOMAIN routing -> [DOMAIN routing[0] -> Nat]] /\ Picks = DOMAIN routing[0]
      /\ Experts \in Nat
  BY <1>2, Batch
<1>4. \A t \in Tokens : \A k \in Picks :
        routing[t][k] \in Nat /\ Weight[t][routing[t][k]] \in Nat /\ Weight[t][routing[t][k]] # 0
  BY <1>3, WeightNumbers
<1>5. CASE gate.packed = None
  <2>1. gate.ids = routing /\ gate.weights = RoutedColumns
    <3>1. CASE ~(Shortcut /\ EmitPacked)
      BY <3>1, <1>1 DEF FusedGate, PlainGate
    <3>2. CASE Shortcut /\ EmitPacked
      <4>1. gate.packed = Packed(routing)
        BY <3>2, <1>1 DEF FusedGate
      <4>2. \A t \in Tokens : \A k \in Picks : Word(routing[t][k], Weight[t][routing[t][k]]) \in Nat
        BY <1>4 DEF Word
      <4>3. Packed(routing) \in [DOMAIN routing -> [DOMAIN routing[0] -> Nat]]
        BY <4>2, <1>3 DEF Packed, Tokens
      <4> QED
        BY <4>1, <4>3, <1>3, <1>5
    <3> QED
      BY <3>1, <3>2
  <2>2. \A t \in Tokens : \A k \in Picks :
          gate.ids[t][k] = routing[t][k] /\ gate.weights[t][k] = Weight[t][routing[t][k]]
    BY <2>1 DEF RoutedColumns
  <2>3. CASE ~Native
    <3>1. RoutedPart(r) = StockPart(r, gate)
      BY <1>5, <2>3 DEF RoutedPart
    <3> QED
      BY <1>2, <2>2, <3>1, StockGives
  <2>4. CASE Native
    <3>1. RoutedPart(r) = NativePart(r)
      BY <2>4 DEF RoutedPart
    <3>2. EpRank(r) \in Int /\ Local \in Int
      <4>1. /\ Ranks \in Nat /\ Experts \in Nat /\ cfg.ep \in Nat \ {0} /\ r \in Nat
            /\ Ranks % cfg.ep = 0 /\ Ranks # 0
        BY <1>2, Batch DEF Rank
      <4>2. Ranks \div cfg.ep \in Nat \ {0}
        BY <4>1
      <4> QED
        BY <4>1, <4>2 DEF EpRank, Local
    <3> DEFINE at(tk) == Remapped(r, gate.ids[tk[1]][tk[2]], gate.weights[tk[1]][tk[2]])
               e(tk)  == routing[tk[1]][tk[2]]
    <3>3. ASSUME NEW tk \in Tokens \X Picks
          PROVE  /\ at(tk)[2] # 0 <=> e(tk) \div Local = EpRank(r)
                 /\ e(tk) \div Local = EpRank(r) =>
                      EpRank(r) * Local + at(tk)[1] = e(tk) /\ at(tk)[2] = Weight[tk[1]][e(tk)]
      <4>1. /\ tk[1] \in Tokens /\ tk[2] \in Picks
            /\ at(tk) = Remapped(r, e(tk), Weight[tk[1]][e(tk)])
            /\ e(tk) \in Nat /\ Weight[tk[1]][e(tk)] # 0
        BY <1>4, <2>2
      <4>2. EpRank(r) * Local \in Int
        BY <3>2
      <4> DEFINE base == EpRank(r) * Local
      <4> HIDE DEF base, at, e
      <4>3. e(tk) \div Local # EpRank(r) => at(tk) = <<0, 0>>
        BY <4>1 DEF Remapped
      <4>4. e(tk) \div Local = EpRank(r) => at(tk) = <<e(tk) - base, Weight[tk[1]][e(tk)]>>
        BY <4>1 DEF Remapped, base
      <4>5. base + (e(tk) - base) = e(tk)
        BY <4>1, <4>2 DEF base
      <4> QED
        BY <4>1, <4>3, <4>4, <4>5 DEF base
    <3> DEFINE adds ==
           [tk \in {tk \in Tokens \X Picks : at(tk)[2] # 0} |->
              <<"routed", tk[1], EpRank(r) * Local + at(tk)[1], at(tk)[2], TpSlice(r)>>]
    <3>4. NativePart(r) = Tally(adds)
      BY DEF NativePart
    <3> HIDE DEF at
    <3>5. DOMAIN adds = Share(r)
      BY <3>3 DEF Share, e
    <3>6. \A tk \in Share(r) : adds[tk] = Choice(r, tk)
      BY <3>3, <3>5 DEF Share, Choice, e
    <3> HIDE DEF adds
    <3> QED
      BY <1>2, <3>1, <3>4, <3>5, <3>6, TallyChosen
  <2> QED
    BY <2>3, <2>4
<1>6. CASE gate.packed # None
  <2>1. Shortcut /\ EmitPacked /\ gate.packed = Packed(routing)
    BY <1>1, <1>6 DEF FusedGate, PlainGate
  <2>2. ~Native
    BY <2>1 DEF Native, EmitPacked
  <2>3. RoutedPart(r) = StockPart(r, Unpacked(Packed(routing)))
    BY <1>6, <2>1, <2>2 DEF RoutedPart
  <2>4. \A t \in Tokens : \A k \in Picks :
          /\ BlockOf(Word(routing[t][k], Weight[t][routing[t][k]])) = routing[t][k]
          /\ ExpertOf(Word(routing[t][k], Weight[t][routing[t][k]])) = Weight[t][routing[t][k]]
    BY <1>3, <1>4, ChoiceUnpacks
  <2>5. \A t \in Tokens : \A k \in Picks :
          /\ Unpacked(Packed(routing)).ids[t][k] = routing[t][k]
          /\ Unpacked(Packed(routing)).weights[t][k] = Weight[t][routing[t][k]]
    <3>1. \A t \in Tokens : \A k \in Picks :
            Packed(routing)[t][k] = Word(routing[t][k], Weight[t][routing[t][k]])
      BY DEF Packed
    <3> QED
      BY <2>4, <3>1 DEF Unpacked
  <2> QED
    BY <1>2, <2>3, <2>5, StockGives
<1> QED
  BY <1>5, <1>6

\* Rows counted with one index running inside another are all different.
LEMMA PlacesApart ==
  ASSUME NEW n \in Nat \ {0}, NEW m \in Nat \ {0}, NEW a \in 0 .. n - 1, NEW b \in 0 .. m - 1
  PROVE  /\ a * m + b \in 0 .. n * m - 1
         /\ \A c \in 0 .. n - 1 : \A d \in 0 .. m - 1 : c * m + d = a * m + b => c = a /\ d = b
<1>1. ASSUME NEW c \in 0 .. n - 1, NEW d \in 0 .. m - 1
      PROVE  (m * c + d) \div m = c /\ (m * c + d) % m = d /\ m * c = c * m
  <2>1. c \in Int
    OBVIOUS
  <2> QED
    BY <2>1, Remainder
<1>2. \A c \in 0 .. n - 1 : \A d \in 0 .. m - 1 : c * m + d = a * m + b => c = a /\ d = b
  BY <1>1
<1>3. m * a <= m * (n - 1) /\ m * a \in Nat /\ m * (n - 1) = n * m - m /\ n * m \in Nat /\ m * a = a * m
  OBVIOUS
<1> DEFINE x == a * m
           y == n * m
<1>4. x \in Nat /\ y \in Nat /\ x <= y - m
  BY <1>3
<1> HIDE DEF x, y
<1>5. x + b \in 0 .. y - 1
  BY <1>4
<1> QED
  BY <1>2, <1>5 DEF x, y

\* The bounded grid of the activation kernel comes to every row.
LEMMA GridComes ==
  ASSUME TypeOK, CallInv, pc # "idle", NEW i \in 0 .. Cardinality(Tokens) * Shared - 1
  PROVE  i \in ActivatedRows
<1> DEFINE rows  == Cardinality(Tokens) * Shared
           tiles == CeilDiv(rows, RowTile)
           grid  == IF tiles < Grid THEN tiles ELSE Grid
           tile  == i \div RowTile
<1>1. RowTile \in Nat \ {0} /\ Grid \in Nat \ {0} /\ Cardinality(Tokens) \in Nat \ {0} /\ Shared \in Nat \ {0}
  BY Batch
<1>2. rows \in Nat /\ i \in Nat /\ i < rows
  BY <1>1, Product
<1> HIDE DEF rows
<1>3. tile \in Nat /\ RowTile * tile <= i
  BY <1>1, <1>2, Quotient
<1>4. RowTile * tile \in Nat
  BY <1>1, <1>3
<1> HIDE DEF tile
<1>5. tiles \in Nat /\ tile < tiles
  <2>1. RowTile * tile < rows
    BY <1>2, <1>3, <1>4
  <2> QED
    BY <1>1, <1>2, <1>3, <2>1, CeilDivFits
<1> HIDE DEF tiles
<1>6. grid \in Nat \ {0}
  BY <1>1, <1>3, <1>5
<1> HIDE DEF grid
<1>7. /\ tile % grid \in 0 .. grid - 1 /\ tile \div grid \in Nat /\ tile \div grid <= tile
      /\ tile = (tile % grid) + (tile \div grid) * grid
  <2>1. tile % grid \in 0 .. grid - 1 /\ tile \div grid \in Nat
    BY <1>3, <1>6
  <2>2. tile = grid * (tile \div grid) + (tile % grid)
    BY <1>3, <1>6
  <2>3. (tile \div grid) * grid = grid * (tile \div grid) /\ tile \div grid <= grid * (tile \div grid)
    BY <2>1, <1>6
  <2> DEFINE a == grid * (tile \div grid)
             b == tile % grid
             q == tile \div grid
  <2>4. a \in Nat /\ b \in Nat /\ q \in Nat /\ tile = a + b /\ q <= a /\ q * grid = a
    BY <2>1, <2>2, <2>3, <1>6
  <2>5. b \in 0 .. grid - 1
    BY <2>1
  <2> HIDE DEF a, b, q
  <2>6. q <= tile /\ tile = b + q * grid
    BY <2>4, <1>3
  <2> QED
    BY <2>4, <2>5, <2>6 DEF b, q
<1>8. tile \div grid \in 0 .. tiles
  BY <1>3, <1>5, <1>7
<1>9. \E p \in 0 .. grid - 1 : \E turn \in 0 .. tiles : tile = p + turn * grid
  BY <1>7, <1>8
<1>10. i \in 0 .. rows - 1
  BY <1>2
<1> QED
  BY <1>9, <1>10 DEF ActivatedRows, rows, tiles, grid, tile

\* Rows of tokens by experts or of experts by tokens: each row gets the gamma of
\* its own token and expert, and is activated.
LEMMA GammaInPlace ==
  ASSUME TypeOK, CallInv, pc # "idle", NEW t \in Tokens, NEW s \in 0 .. Shared - 1
  PROVE  /\ FlatGamma(Place(RowLayout, t, s)) = gate.gammas[t][s]
         /\ Place(RowLayout, t, s) \in ActivatedRows
<1>1. /\ Cardinality(Tokens) \in Nat \ {0} /\ Shared \in Nat \ {0}
      /\ Tokens = 0 .. Cardinality(Tokens) - 1
  BY Batch
<1> DEFINE n == Cardinality(Tokens)
           i == Place(RowLayout, t, s)
<1>2. /\ i \in 0 .. n * Shared - 1
      /\ \A ts \in Tokens \X (0 .. Shared - 1) :
           Place(RowLayout, ts[1], ts[2]) = i => ts[1] = t /\ ts[2] = s
  <2>1. t \in 0 .. n - 1 /\ n \in Nat \ {0}
    BY <1>1
  <2>2. CASE RowLayout = "ts"
    <3>1. \A a, b : Place(RowLayout, a, b) = a * Shared + b
      BY <2>2 DEF Place
    <3> HIDE DEF n
    <3>2. /\ t * Shared + s \in 0 .. n * Shared - 1
          /\ \A c \in 0 .. n - 1 : \A d \in 0 .. Shared - 1 :
               c * Shared + d = t * Shared + s => c = t /\ d = s
      BY <1>1, <2>1, PlacesApart
    <3>3. Place(RowLayout, t, s) = t * Shared + s
      BY <3>1
    <3>4. ASSUME NEW ts \in Tokens \X (0 .. Shared - 1), Place(RowLayout, ts[1], ts[2]) = Place(RowLayout, t, s)
          PROVE  ts[1] = t /\ ts[2] = s
      <4>1. ts[1] \in 0 .. n - 1 /\ ts[2] \in 0 .. Shared - 1
        BY <1>1 DEF n
      <4>2. ts[1] * Shared + ts[2] = t * Shared + s
        BY <3>1, <3>4
      <4> QED
        BY <3>2, <4>1, <4>2
    <3> QED
      BY <3>2, <3>3, <3>4 DEF n
  <2>3. CASE RowLayout # "ts"
    <3>1. \A a, b : Place(RowLayout, a, b) = b * n + a
      BY <2>3 DEF Place
    <3> HIDE DEF n
    <3>2. /\ s * n + t \in 0 .. Shared * n - 1
          /\ \A d \in 0 .. Shared - 1 : \A c \in 0 .. n - 1 :
               d * n + c = s * n + t => d = s /\ c = t
      BY <1>1, <2>1, PlacesApart
    <3>3. Shared * n = n * Shared
      BY <1>1, <2>1
    <3> QED
      BY <1>1, <3>1, <3>2, <3>3 DEF n
  <2> QED
    BY <2>2, <2>3
<1>3. i \in ActivatedRows
  BY <1>2, GridComes
<1>4. GammaLayout = RowLayout
  BY DEF GammaLayout, RowLayout
<1>5. \A a, b : Place(GammaLayout, a, b) = Place(RowLayout, a, b)
  BY <1>4
<1> HIDE DEF i
<1> DEFINE ts == CHOOSE ts \in Tokens \X (0 .. Shared - 1) : Place(GammaLayout, ts[1], ts[2]) = i
<1>6. <<t, s>> \in Tokens \X (0 .. Shared - 1) /\ Place(GammaLayout, <<t, s>>[1], <<t, s>>[2]) = i
  BY <1>5 DEF i
<1>7. ts \in Tokens \X (0 .. Shared - 1) /\ Place(GammaLayout, ts[1], ts[2]) = i
  BY <1>6
<1>8. ts[1] = t /\ ts[2] = s
  BY <1>2, <1>5, <1>7
<1>9. FlatGamma(i) = gate.gammas[ts[1]][ts[2]]
  BY DEF FlatGamma
<1> QED
  BY <1>3, <1>8, <1>9 DEF i

\* The shared part of a rank has its slice of every shared expert for every
\* token, with that token's gamma.
LEMMA SharedGives ==
  ASSUME TypeOK, CallInv, pc \notin {"idle", "gate"}, Has, cfg.sink => gate.gammas # None,
         NEW r \in Rank
  PROVE  SharedPart(r) = SetToBag(Slices(r))
<1>1. CASE SharedKind = "dense"
  <2> DEFINE adds == [t \in Tokens |-> <<"shared", t, 0, 0, r>>]
  <2>1. SharedPart(r) = Tally(adds)
    BY <1>1 DEF SharedPart, SharedSlice
  <2>2. \A x, y \in DOMAIN adds : adds[x] = adds[y] => x = y
    OBVIOUS
  <2>3. {adds[x] : x \in DOMAIN adds} = Slices(r)
    BY <1>1 DEF Slices
  <2> HIDE DEF adds
  <2> QED
    BY <2>1, <2>2, <2>3, TallyOnce
<1>2. CASE SharedKind # "dense"
  <2>1. cfg.shared /\ cfg.sink
    BY <1>2 DEF Has, SharedKind
  <2>2. Shared \in Nat \ {0} /\ Experts \in Nat
    BY Batch
  <2>3. gate.gammas = SharedColumns
    BY <2>1 DEF CallInv, FusedGate, PlainGate
  <2>4. \A t \in Tokens : \A s \in 0 .. Shared - 1 : gate.gammas[t][s] = Weight[t][Experts + s]
    <3>1. GateShared = Shared /\ GateShared # 0
      BY <2>1, <2>2 DEF GateShared
    <3>2. \A s \in 0 .. Shared - 1 : (Experts + Shared) - Shared + s = Experts + s
      BY <2>2
    <3> QED
      BY <2>3, <3>1, <3>2 DEF SharedColumns
  <2> DEFINE all == Tokens \X (0 .. Shared - 1)
             adds == [ts \in all |-> <<"shared", ts[1], ts[2], Weight[ts[1]][Experts + ts[2]], r>>]
  <2>5. SharedPart(r) = Tally(adds)
    <3>1. CASE SharedKind = "fused"
      <4>1. SharedPart(r) =
              Tally([ts \in all |-> <<"shared", ts[1], ts[2], gate.gammas[ts[1]][ts[2]], r>>])
        BY <3>1 DEF SharedPart, SharedSlice
      <4>2. [ts \in all |-> <<"shared", ts[1], ts[2], gate.gammas[ts[1]][ts[2]], r>>] = adds
        BY <2>4
      <4> QED
        BY <4>1, <4>2
    <3>2. CASE SharedKind # "fused"
      <4>1. \A ts \in all :
              /\ FlatGamma(Place(RowLayout, ts[1], ts[2])) = Weight[ts[1]][Experts + ts[2]]
              /\ Place(RowLayout, ts[1], ts[2]) \in ActivatedRows
        BY <2>4, GammaInPlace
      <4> DEFINE come == {ts \in all : Place(RowLayout, ts[1], ts[2]) \in ActivatedRows}
      <4>2. SharedPart(r) =
              Tally([ts \in come |->
                       <<"shared", ts[1], ts[2], FlatGamma(Place(RowLayout, ts[1], ts[2])), r>>])
        BY <1>2, <3>2 DEF SharedPart, SharedSlice, Has
      <4>3. come = all
        BY <4>1
      <4> HIDE DEF come, all
      <4>4. [ts \in come |-> <<"shared", ts[1], ts[2], FlatGamma(Place(RowLayout, ts[1], ts[2])), r>>]
              = adds
        BY <4>1, <4>3
      <4> QED
        BY <4>2, <4>4
    <3> QED
      BY <3>1, <3>2
  <2>6. \A x, y \in DOMAIN adds : adds[x] = adds[y] => x = y
    OBVIOUS
  <2>7. {adds[x] : x \in DOMAIN adds} = Slices(r)
    BY <1>2 DEF Slices
  <2> HIDE DEF adds
  <2> QED
    BY <2>5, <2>6, <2>7, TallyOnce
<1> QED
  BY <1>1, <1>2

\* What a rank adds to the sum, and what both parts of it come to.
RankParts(r) == Chosen(r) \cup (IF Has THEN Slices(r) ELSE {})

\* A quotient without remainder.
LEMMA Divides ==
  ASSUME NEW a \in Nat \ {0}, NEW b \in Nat \ {0}, a % b = 0
  PROVE  a \div b \in Nat \ {0} /\ a = b * (a \div b)
<1>1. a \div b \in Nat /\ a = b * (a \div b) + (a % b)
  OBVIOUS
<1>2. b * (a \div b) \in Nat
  BY <1>1
<1>3. a = b * (a \div b)
  BY <1>1, <1>2
<1>4. a \div b # 0
  BY <1>3
<1> QED
  BY <1>1, <1>3, <1>4

\* A rank is known by its expert group and its slice, and every pair of those
\* has a rank.
LEMMA RankKnown ==
  ASSUME TypeOK, CallInv, pc # "idle"
  PROVE  /\ \A r \in Rank : TpSlice(r) \in 0 .. Ranks \div cfg.ep - 1
         /\ \A r, q \in Rank : EpRank(r) = EpRank(q) /\ TpSlice(r) = TpSlice(q) => r = q
         /\ \A e \in 0 .. Experts - 1 : \A l \in 0 .. Ranks \div cfg.ep - 1 :
              \E r \in Rank : EpRank(r) = e \div Local /\ TpSlice(r) = l
<1> DEFINE ep == cfg.ep
           T  == Ranks \div cfg.ep
<1>1. /\ Ranks \in Nat \ {0} /\ Experts \in Nat \ {0} /\ ep \in Nat \ {0}
      /\ Ranks % ep = 0 /\ Experts % ep = 0
  BY Batch
<1>2. T \in Nat \ {0} /\ Ranks = ep * T
  BY <1>1, Divides
<1>3. Local \in Nat \ {0} /\ Experts = ep * Local
  BY <1>1, Divides DEF Local
<1>4. \A r \in Rank : EpRank(r) = r \div T /\ TpSlice(r) = r % T
  BY DEF EpRank, TpSlice
<1> HIDE DEF ep, T
<1>5. \A r \in Rank : TpSlice(r) \in 0 .. T - 1
  BY <1>1, <1>2, <1>4 DEF Rank
<1>6. ASSUME NEW r \in Rank, NEW q \in Rank, EpRank(r) = EpRank(q), TpSlice(r) = TpSlice(q) PROVE r = q
  <2>1. r = T * (r \div T) + (r % T) /\ q = T * (q \div T) + (q % T)
    BY <1>1, <1>2 DEF Rank
  <2> QED
    BY <1>4, <1>6, <2>1
<1>7. ASSUME NEW e \in 0 .. Experts - 1, NEW l \in 0 .. T - 1
      PROVE  \E r \in Rank : EpRank(r) = e \div Local /\ TpSlice(r) = l
  <2> DEFINE g == e \div Local
  <2>1. g \in Nat /\ g < ep
    <3>1. g \in Nat /\ Local * g <= e
      BY <1>1, <1>3, Quotient
    <3> HIDE DEF g
    <3>2. Local * g < Local * ep
      <4>1. Local * g \in Nat /\ Local * ep = ep * Local
        BY <1>1, <1>3, <3>1
      <4> QED
        BY <1>1, <1>3, <3>1, <4>1
    <3> QED
      BY <1>1, <1>3, <3>1, <3>2, Scaled
  <2> HIDE DEF g
  <2>2. T * g + l \in Rank
    <3>1. T * g <= T * (ep - 1) /\ T * g \in Nat
      BY <1>1, <1>2, <2>1, Scaled
    <3>2. T * (ep - 1) = ep * T - T
      BY <1>1, <1>2
    <3> DEFINE x == T * g
               y == ep * T
    <3>3. x \in Nat /\ y = Ranks /\ x <= y - T
      BY <1>2, <3>1, <3>2
    <3> HIDE DEF x, y
    <3>4. x + l \in 0 .. Ranks - 1
      BY <1>1, <1>2, <3>3
    <3> QED
      BY <3>4 DEF x, Rank
  <2>3. (T * g + l) \div T = g /\ (T * g + l) % T = l
    <3>1. g \in Int
      BY <2>1
    <3> QED
      BY <1>2, <3>1, Remainder
  <2> QED
    BY <1>4, <2>2, <2>3 DEF g
<1> QED
  BY <1>5, <1>6, <1>7 DEF T

\* Together the ranks have all parts, and no part is with two of them.
LEMMA PartsShared ==
  ASSUME TypeOK, CallInv, pc # "idle"
  PROVE  /\ UNION {RankParts(r) : r \in Rank} = Wanted
         /\ \A r, q \in Rank : r # q => RankParts(r) \cap RankParts(q) = {}
         /\ UNION {Chosen(r) : r \in Rank} =
              {<<"routed", t, routing[t][k], Weight[t][routing[t][k]], l>> :
                 t \in Tokens, k \in Picks, l \in 0 .. Ranks \div cfg.ep - 1}
<1> DEFINE L    == 0 .. Ranks \div cfg.ep - 1
           C(t, k, l) == <<"routed", t, routing[t][k], Weight[t][routing[t][k]], l>>
<1>1. /\ \A r \in Rank : TpSlice(r) \in L
      /\ \A r, q \in Rank : EpRank(r) = EpRank(q) /\ TpSlice(r) = TpSlice(q) => r = q
      /\ \A e \in 0 .. Experts - 1 : \A l \in L :
           \E r \in Rank : EpRank(r) = e \div Local /\ TpSlice(r) = l
  BY RankKnown
<1>2. \A t \in Tokens : \A k \in Picks : routing[t][k] \in 0 .. Experts - 1
  BY Batch
<1> HIDE DEF L
<1>3. ASSUME NEW r \in Rank, NEW p
      PROVE  p \in Chosen(r) <=>
               \E t \in Tokens : \E k \in Picks :
                 routing[t][k] \div Local = EpRank(r) /\ p = C(t, k, TpSlice(r))
  <2>1. ASSUME NEW t \in Tokens, NEW k \in Picks, routing[t][k] \div Local = EpRank(r),
               p = C(t, k, TpSlice(r))
        PROVE  p \in Chosen(r)
    <3>1. <<t, k>> \in Tokens \X Picks /\ routing[<<t, k>>[1]][<<t, k>>[2]] \div Local = EpRank(r)
      BY <2>1
    <3> QED
      BY <2>1, <3>1 DEF Chosen
  <2>2. ASSUME p \in Chosen(r)
        PROVE  \E t \in Tokens : \E k \in Picks :
                 routing[t][k] \div Local = EpRank(r) /\ p = C(t, k, TpSlice(r))
    <3>1. PICK tk \in Tokens \X Picks :
            /\ routing[tk[1]][tk[2]] \div Local = EpRank(r)
            /\ p = C(tk[1], tk[2], TpSlice(r))
      BY <2>2 DEF Chosen
    <3>2. tk[1] \in Tokens /\ tk[2] \in Picks
      OBVIOUS
    <3> QED
      BY <3>1, <3>2
  <2> QED
    BY <2>1, <2>2
<1>4. UNION {Chosen(r) : r \in Rank} = {C(t, k, l) : t \in Tokens, k \in Picks, l \in L}
  <2>1. ASSUME NEW r \in Rank, NEW p \in Chosen(r)
        PROVE  p \in {C(t, k, l) : t \in Tokens, k \in Picks, l \in L}
    BY <1>1, <1>3
  <2>2. ASSUME NEW t \in Tokens, NEW k \in Picks, NEW l \in L
        PROVE  \E r \in Rank : C(t, k, l) \in Chosen(r)
    <3>1. PICK r \in Rank : EpRank(r) = routing[t][k] \div Local /\ TpSlice(r) = l
      BY <1>1, <1>2
    <3> QED
      BY <1>3, <3>1
  <2> QED
    BY <2>1, <2>2
<1>5. ASSUME NEW r \in Rank, NEW q \in Rank, NEW p \in Chosen(r), p \in Chosen(q) PROVE r = q
  <2>1. PICK t \in Tokens, k \in Picks : routing[t][k] \div Local = EpRank(r) /\ p = C(t, k, TpSlice(r))
    BY <1>3
  <2>2. PICK u \in Tokens, m \in Picks : routing[u][m] \div Local = EpRank(q) /\ p = C(u, m, TpSlice(q))
    BY <1>3, <1>5
  <2>3. routing[t][k] = routing[u][m] /\ TpSlice(r) = TpSlice(q)
    BY <2>1, <2>2
  <2> QED
    BY <1>1, <2>1, <2>2, <2>3
<1> DEFINE S == IF ~Has THEN {}
                ELSE IF SharedKind = "dense" THEN {<<"shared", t, 0, 0, r>> : t \in Tokens, r \in Rank}
                ELSE {<<"shared", t, s, Weight[t][Experts + s], r>> :
                        t \in Tokens, s \in 0 .. Shared - 1, r \in Rank}
<1>6. Has => UNION {Slices(r) : r \in Rank} = S
  <2>1. CASE SharedKind = "dense"
    BY <2>1 DEF Slices
  <2>2. CASE SharedKind # "dense"
    <3>1. \A r \in Rank : Slices(r) =
            {<<"shared", t, s, Weight[t][Experts + s], r>> : t \in Tokens, s \in 0 .. Shared - 1}
      <4> SUFFICES ASSUME NEW r \in Rank
                   PROVE  Slices(r) = {<<"shared", t, s, Weight[t][Experts + s], r>> :
                                         t \in Tokens, s \in 0 .. Shared - 1}
        OBVIOUS
      <4>1. \A t \in Tokens : \A s \in 0 .. Shared - 1 :
              \E ts \in Tokens \X (0 .. Shared - 1) : ts[1] = t /\ ts[2] = s
        <5> TAKE t \in Tokens
        <5> TAKE s \in 0 .. Shared - 1
        <5> WITNESS <<t, s>> \in Tokens \X (0 .. Shared - 1)
        <5> QED
          OBVIOUS
      <4>2. \A ts \in Tokens \X (0 .. Shared - 1) : ts[1] \in Tokens /\ ts[2] \in 0 .. Shared - 1
        OBVIOUS
      <4> QED
        BY <2>2, <4>1, <4>2 DEF Slices
    <3> QED
      BY <2>2, <3>1
  <2> QED
    BY <2>1, <2>2
<1>7. ASSUME NEW r \in Rank, NEW p \in Slices(r) PROVE p[1] = "shared" /\ p[5] = r
  <2>1. CASE SharedKind = "dense"
    BY <2>1, <1>7 DEF Slices
  <2>2. CASE SharedKind # "dense"
    BY <2>2, <1>7 DEF Slices
  <2> QED
    BY <2>1, <2>2
<1>8. ASSUME NEW r \in Rank, NEW p \in Chosen(r) PROVE p[1] = "routed"
  BY <1>3, <1>8
<1>9. Wanted = {C(t, k, l) : t \in Tokens, k \in Picks, l \in L} \cup S
  BY DEF Wanted, L
<1> HIDE DEF S, C
<1>10. UNION {RankParts(r) : r \in Rank} = Wanted
  <2>1. UNION {RankParts(r) : r \in Rank} =
          (UNION {Chosen(r) : r \in Rank}) \cup (IF Has THEN UNION {Slices(r) : r \in Rank} ELSE {})
    BY DEF RankParts
  <2>2. ~Has => S = {}
    BY DEF S
  <2> QED
    BY <1>4, <1>6, <1>9, <2>1, <2>2
<1>11. \A r, q \in Rank : r # q => RankParts(r) \cap RankParts(q) = {}
  BY <1>5, <1>7, <1>8 DEF RankParts
<1> QED
  BY <1>4, <1>10, <1>11 DEF C, L

\* Bags of parts that no two ranks share add up to one of each.
LEMMA AddsOnce ==
  ASSUME NEW P, NEW f, \A r \in Rank : f[r] = SetToBag(P[r]),
         \A r, q \in Rank : r # q => P[r] \cap P[q] = {}
  PROVE  OverRanks(f) = [part \in UNION {P[r] : r \in Rank} |-> 1]
<1>1. ASSUME NEW r \in Rank
      PROVE  DOMAIN f[r] = P[r] /\ \A part \in P[r] : f[r][part] = 1
  <2>1. f[r] = [part \in P[r] |-> 1]
    BY DEF SetToBag
  <2> QED
    BY <2>1
<1>2. UNION {DOMAIN f[r] : r \in Rank} = UNION {P[r] : r \in Rank}
  BY <1>1
<1> DEFINE Of(part) == {r \in Rank : part \in DOMAIN f[r]}
           All(part) == UNION {{r} \X (1 .. f[r][part]) : r \in Of(part)}
<1>3. ASSUME NEW part \in UNION {P[r] : r \in Rank}
      PROVE  Cardinality(All(part)) = 1
  <2>1. PICK q \in Rank : part \in P[q]
    OBVIOUS
  <2>2. Of(part) = {q} /\ f[q][part] = 1
    BY <1>1, <2>1
  <2>3. All(part) = {q} \X (1 .. 1)
    BY <2>2
  <2>4. {q} \X (1 .. 1) = {<<q, 1>>}
    BY SMT
  <2> QED
    BY <2>3, <2>4, FS_Singleton
<1>4. OverRanks(f) = [part \in UNION {DOMAIN f[r] : r \in Rank} |-> Cardinality(All(part))]
  BY DEF OverRanks
<1> HIDE DEF All
<1> QED
  BY <1>2, <1>3, <1>4

\* Two bags without a part in common.
LEMMA AddsApart ==
  ASSUME NEW A, NEW B, A \cap B = {}
  PROVE  SetToBag(A) (+) SetToBag(B) = SetToBag(A \cup B)
BY DEF SetToBag, (+)

\* What the ranks hand to the end of forward, and what it makes of it.
RoutedParts == [r \in Rank |-> SetToBag(Chosen(r))]
SharedParts == [r \in Rank |-> SetToBag(Slices(r))]
AllParts    == [r \in Rank |-> SetToBag(RankParts(r))]

RoutedDone == pc = "combine" \/ (pc = "shared" /\ ~TwoStreams)
SharedDone == Has /\ (pc = "combine" \/ (pc = "routed" /\ TwoStreams))
PartsInv ==
  /\ RoutedDone => "routed" \in DOMAIN parts /\ parts.routed = RoutedParts
  /\ SharedDone => "shared" \in DOMAIN parts /\ parts.shared = SharedParts
  /\ pc = "return" =>
       /\ stash = IF Folds THEN <<SharedParts>> ELSE <<>>
       /\ parts = [out |-> IF cfg.reduce THEN [r \in {0} |-> OverRanks(AllParts)]
                           ELSE IF Folds THEN RoutedParts ELSE AllParts]

\* They depend on the configuration and the batch only.
LEMMA SameParts ==
  ASSUME cfg' = cfg, routing' = routing
  PROVE  RoutedParts' = RoutedParts /\ SharedParts' = SharedParts /\ AllParts' = AllParts
         /\ Wanted' = Wanted /\ (Folds' <=> Folds) /\ (Has' <=> Has)
<1>1. SharedKind' = SharedKind /\ (Has' <=> Has)
  BY SameConfig
<1>2. \A r \in Rank : Chosen(r)' = Chosen(r)
  BY DEF Chosen, Tokens, Picks, TopK, Local, EpRank, TpSlice
<1>3. \A r \in Rank : Slices(r)' = Slices(r)
  BY <1>1 DEF Slices, Tokens
<1>4. \A r \in Rank : RankParts(r)' = RankParts(r)
  BY <1>1, <1>2, <1>3 DEF RankParts
<1>5. Wanted' = Wanted
  BY <1>1 DEF Wanted, Tokens, Picks, TopK
<1> QED
  BY <1>1, <1>2, <1>3, <1>4, <1>5 DEF RoutedParts, SharedParts, AllParts, Folds

\* Both parts of a rank put together.
LEMMA BothParts ==
  ASSUME NEW r \in Rank
  PROVE  (IF Has THEN RoutedParts[r] (+) SharedParts[r] ELSE RoutedParts[r]) = AllParts[r]
<1>1. Chosen(r) \cap Slices(r) = {}
  BY DEF Chosen, Slices
<1>2. SetToBag(Chosen(r)) (+) SetToBag(Slices(r)) = SetToBag(Chosen(r) \cup Slices(r))
  BY <1>1, AddsApart
<1>3. CASE Has
  BY <1>2, <1>3 DEF RoutedParts, SharedParts, AllParts, RankParts
<1>4. CASE ~Has
  BY <1>4 DEF RoutedParts, AllParts, RankParts
<1> QED
  BY <1>3, <1>4

\* Once over the ranks, it is all that was asked for, once.
LEMMA SumIsWanted ==
  ASSUME TypeOK, CallInv, pc # "idle"
  PROVE  OverRanks(AllParts) = [part \in Wanted |-> 1]
<1> DEFINE P == [r \in Rank |-> RankParts(r)]
<1>1. /\ UNION {P[r] : r \in Rank} = Wanted
      /\ \A r, q \in Rank : r # q => P[r] \cap P[q] = {}
  BY PartsShared
<1>2. \A r \in Rank : AllParts[r] = SetToBag(P[r])
  BY DEF AllParts
<1> HIDE DEF P
<1>3. OverRanks(AllParts) = [part \in UNION {P[r] : r \in Rank} |-> 1]
  <2> HIDE DEF AllParts, OverRanks, SetToBag
  <2> QED
    BY ONLY <1>1, <1>2, AddsOnce
<1> QED
  BY <1>1, <1>3

\* A call under way has a batch.
LEMMA BatchThere ==
  ASSUME TypeOK, CallInv, pc # "idle"
  PROVE  routing # None
<1>1. routing \in Routings[cfg] /\ cfg \in Configs
  BY DEF CallInv, TypeOK
<1>2. IsRouting(routing) /\ Experts \in Nat
  BY <1>1, LayerAssumption
<1>3. 0 .. Experts - 1 \subseteq Nat
  BY <1>2
<1>4. routing \in [DOMAIN routing -> [DOMAIN routing[0] -> 0 .. Experts - 1]]
  BY <1>2 DEF IsRouting
<1>5. routing \in [DOMAIN routing -> [DOMAIN routing[0] -> Nat]]
  BY <1>3, <1>4
<1> QED
  BY <1>5, Batch

\* A batch asks for something.
LEMMA WantsSome ==
  ASSUME TypeOK, CallInv, pc # "idle"
  PROVE  Wanted # {}
<1>1. 0 \in Tokens /\ 0 \in Picks
  BY Batch
<1>2. 0 \in 0 .. Ranks \div cfg.ep - 1
  BY Batch, Divides
<1> DEFINE L == 0 .. Ranks \div cfg.ep - 1
           C == {<<"routed", t, routing[t][k], Weight[t][routing[t][k]], l>> : t \in Tokens, k \in Picks, l \in L}
<1>3. <<"routed", 0, routing[0][0], Weight[0][routing[0][0]], 0>> \in C
  BY <1>1, <1>2
<1>4. C \subseteq Wanted
  BY DEF Wanted
<1> HIDE DEF C
<1> QED
  BY <1>3, <1>4

\* The experts put their parts where the end of forward finds them, and it
\* passes them on, added up or not.
LEMMA PartsStep ==
  ASSUME TypeOK, CallInv, PartsInv, Next
  PROVE  PartsInv'
<1>1. cfg' = cfg /\ (Has' <=> Has)
  BY KeepsConfig, SameConfig
<1>2. CASE pc' \in {"idle", "gate", "clone"}
  BY <1>2 DEF PartsInv, RoutedDone, SharedDone
<1>3. CASE Gate
  <2>1. mode' = mode /\ pc' \in {"routed", "clone", "shared"} /\ (pc' = "routed" <=> ~TwoStreams)
    BY <1>3 DEF Gate
  <2>2. TwoStreams' <=> TwoStreams
    BY <1>1, <2>1, SameConfig
  <2> QED
    BY <2>1, <2>2 DEF PartsInv, RoutedDone, SharedDone
<1>4. CASE Clone
  <2>1. mode' = mode /\ pc' = "shared" /\ TwoStreams
    BY <1>4 DEF Clone, CallInv
  <2>2. TwoStreams' <=> TwoStreams
    BY <1>1, <2>1, SameConfig
  <2> QED
    BY <2>1, <2>2 DEF PartsInv, RoutedDone, SharedDone
<1>5. CASE SharedExperts
  <2>1. /\ pc = "shared" /\ pc' = (IF TwoStreams THEN "routed" ELSE "combine") /\ UNCHANGED <<mode, routing>>
        /\ parts' = With(parts, "shared", [r \in Rank |-> SharedResult(r, TRUE)])
    BY <1>5 DEF SharedExperts
  <2>2. (TwoStreams' <=> TwoStreams) /\ RoutedParts' = RoutedParts /\ SharedParts' = SharedParts
    BY <1>1, <2>1, SameConfig, SameParts
  <2>3. [r \in Rank |-> SharedResult(r, TRUE)] = SharedParts
    <3>1. Has /\ (cfg.sink => gate.gammas # None)
      BY <1>5, <2>1 DEF CallInv, SharedExperts, Fails
    <3>2. \A r \in Rank : SharedPart(r) = SetToBag(Slices(r))
      BY <2>1, <3>1, SharedGives
    <3>3. \A r \in Rank : SharedResult(r, TRUE) = SharedPart(r)
      BY DEF SharedResult
    <3> QED
      BY <3>2, <3>3 DEF SharedParts
  <2>4. /\ "shared" \in DOMAIN parts' /\ parts'["shared"] = SharedParts
        /\ "routed" \in DOMAIN parts => "routed" \in DOMAIN parts' /\ parts'["routed"] = parts["routed"]
    BY <2>1, <2>3 DEF With
  <2> QED
    BY <2>1, <2>2, <2>4 DEF PartsInv, RoutedDone, SharedDone
<1>6. CASE RoutedExperts
  <2>1. /\ pc = "routed" /\ pc' = (IF Has /\ ~TwoStreams THEN "shared" ELSE "combine")
        /\ UNCHANGED <<mode, routing>>
        /\ parts' = With(parts, "routed", [r \in Rank |-> RoutedPart(r)])
    BY <1>6 DEF RoutedExperts
  <2>2. (TwoStreams' <=> TwoStreams) /\ RoutedParts' = RoutedParts /\ SharedParts' = SharedParts
    BY <1>1, <2>1, SameConfig, SameParts
  <2>3. [r \in Rank |-> RoutedPart(r)] = RoutedParts
    <3>1. \A r \in Rank : RoutedPart(r) = SetToBag(Chosen(r))
      BY <2>1, RoutedGives
    <3> QED
      BY <3>1 DEF RoutedParts
  <2>4. /\ "routed" \in DOMAIN parts' /\ parts'["routed"] = RoutedParts
        /\ "shared" \in DOMAIN parts => "shared" \in DOMAIN parts' /\ parts'["shared"] = parts["shared"]
    BY <2>1, <2>3 DEF With
  <2> QED
    BY <1>1, <2>1, <2>2, <2>4 DEF PartsInv, RoutedDone, SharedDone
<1>7. CASE Combine
  <2>1. /\ pc = "combine" /\ pc' = "return" /\ UNCHANGED routing
        /\ stash' = IF Folds THEN <<parts.shared>> ELSE <<>>
        /\ parts' = [out |-> IF cfg.reduce THEN [r \in {0} |-> OverRanks(Both)]
                             ELSE IF Folds THEN parts.routed ELSE Both]
    BY <1>7, Ends DEF Ending, Reduced
  <2>2. parts.routed = RoutedParts /\ (Has => parts.shared = SharedParts)
    BY <2>1 DEF PartsInv, RoutedDone, SharedDone
  <2>3. Both = AllParts
    <3>1. Both = [r \in Rank |-> IF Has THEN RoutedParts[r] (+) SharedParts[r] ELSE RoutedParts[r]]
      BY <2>2 DEF Both, Together, RoutedParts
    <3>2. Both = [r \in Rank |-> AllParts[r]]
      BY <3>1, BothParts
    <3> QED
      BY <3>2 DEF AllParts
  <2>4. /\ RoutedParts' = RoutedParts /\ SharedParts' = SharedParts /\ AllParts' = AllParts
        /\ (Folds' <=> Folds) /\ (Folds => Has)
    BY <1>1, <2>1, SameParts DEF Folds
  <2>5. stash' = IF Folds' THEN <<SharedParts'>> ELSE <<>>
    BY <2>1, <2>2, <2>4
  <2>6. parts' = [out |-> IF cfg'.reduce THEN [r \in {0} |-> OverRanks(AllParts')]
                          ELSE IF Folds' THEN RoutedParts' ELSE AllParts']
    BY <1>1, <2>1, <2>2, <2>3, <2>4
  <2>7. OverRanks(AllParts)' = OverRanks(AllParts')
    BY <2>4 DEF OverRanks, Rank
  <2> QED
    BY <2>1, <2>5, <2>6, <2>7 DEF PartsInv, RoutedDone, SharedDone
<1>8. CASE UNCHANGED <<pc, mode, routing, parts, stash>>
  <2>1. /\ (TwoStreams' <=> TwoStreams) /\ RoutedParts' = RoutedParts /\ SharedParts' = SharedParts
        /\ AllParts' = AllParts /\ (Folds' <=> Folds)
    BY <1>1, <1>8, SameConfig, SameParts
  <2>2. OverRanks(AllParts)' = OverRanks(AllParts)
    BY <2>1 DEF OverRanks, Rank
  <2> QED
    BY <1>1, <1>8, <2>1, <2>2 DEF PartsInv, RoutedDone, SharedDone
<1>9. Return => pc' = "idle"
  BY DEF Return
<1>10. \A m, i : Begin(m, i) => pc' = "gate"
  BY DEF Begin
<1>11. Replay \/ (\E l \in BOOLEAN : LoadSink(l)) \/ PostLoad \/ Resume \/ Finished
         => UNCHANGED <<pc, mode, routing, parts, stash>>
  BY DEF Replay, LoadSink, PostLoad, Resume, Finished, vars, layerVars
<1>12. UNCHANGED layerVars => UNCHANGED <<pc, mode, routing, parts, stash>>
  BY DEF layerVars
<1> QED
  BY <1>2, <1>3, <1>4, <1>5, <1>6, <1>7, <1>8, <1>9, <1>10, <1>11, <1>12 DEF Next

\* What the parts and the batch are, in every state of a call.
SumInv == TypeOK /\ CallInv /\ PartsInv /\ (pc # "idle" => routing # None /\ Wanted # {})

\* The parts follow the call, and a call has parts to add up.
LEMMA SumInvariant == Spec => []SumInv
<1>1. Init => PartsInv
  BY DEF Init, PartsInv, RoutedDone, SharedDone
<1>2. (TypeOK /\ CallInv) /\ PartsInv /\ [Next]_vars => PartsInv'
  <2> SUFFICES ASSUME TypeOK, CallInv, PartsInv, [Next]_vars PROVE PartsInv'
    OBVIOUS
  <2>1. CASE Next
    BY <2>1, PartsStep
  <2>2. CASE UNCHANGED vars
    <3>1. UNCHANGED <<cfg, pc, mode, routing, parts, stash>>
      BY <2>2 DEF vars, layerVars
    <3>2. /\ (TwoStreams' <=> TwoStreams) /\ RoutedParts' = RoutedParts /\ SharedParts' = SharedParts
          /\ AllParts' = AllParts /\ (Folds' <=> Folds) /\ (Has' <=> Has)
      BY <3>1, SameConfig, SameParts
    <3>3. OverRanks(AllParts)' = OverRanks(AllParts)
      BY <3>2 DEF OverRanks, Rank
    <3> QED
      BY <3>1, <3>2, <3>3 DEF PartsInv, RoutedDone, SharedDone
  <2> QED
    BY <2>1, <2>2
<1>3. Spec => []PartsInv
  BY <1>1, <1>2, CallCorrect, PTL DEF Spec
<1>4. TypeOK /\ CallInv => (pc # "idle" => routing # None /\ Wanted # {})
  BY BatchThere, WantsSome
<1>5. TypeOK /\ CallInv /\ PartsInv => SumInv
  BY <1>4 DEF SumInv
<1> QED
  BY <1>3, <1>5, CallCorrect, PTL

\* The tokens and experts of a set of parts.
TheirExperts(S) == {<<part[2], part[3]>> : part \in S}

\* Rollout replay: the ids handed to the trainer are those of the experts whose
\* work is in the routed part, whatever the gate's path and the runner, and over
\* however many expert groups ids were made local.
THEOREM RoutingIsCaptured == Spec => []RoutingCaptured
<1>1. SumInv => RoutingCaptured
  <2> SUFFICES ASSUME SumInv, pc = "combine", cfg.capturer
               PROVE  /\ captured # None
                      /\ {<<part[2], part[3]>> : part \in UNION {DOMAIN parts.routed[r] : r \in Rank}}
                           = {<<t, captured[t][k]>> : t \in Tokens, k \in Picks}
    BY DEF RoutingCaptured
  <2>1. TypeOK /\ CallInv /\ PartsInv
    BY DEF SumInv
  <2>2. captured = routing
    BY <2>1 DEF CallInv, Shortcut
  <2>3. routing # None
    BY <2>1, BatchThere
  <2>4. \A r \in Rank : DOMAIN parts.routed[r] = Chosen(r)
    BY <2>1 DEF PartsInv, RoutedDone, RoutedParts, SetToBag
  <2>5. UNION {DOMAIN parts.routed[r] : r \in Rank} = UNION {Chosen(r) : r \in Rank}
    BY <2>4
  <2> DEFINE L == 0 .. Ranks \div cfg.ep - 1
  <2>6. UNION {Chosen(r) : r \in Rank} =
          {<<"routed", t, routing[t][k], Weight[t][routing[t][k]], l>> : t \in Tokens, k \in Picks, l \in L}
    BY <2>1, PartsShared
  <2>7. 0 \in L
    BY <2>1, Batch, Divides
  <2> HIDE DEF L
  <2>8. TheirExperts(UNION {Chosen(r) : r \in Rank}) = {<<t, routing[t][k]>> : t \in Tokens, k \in Picks}
    <3> DEFINE V == UNION {Chosen(r) : r \in Rank}
    <3>1. V = {<<"routed", t, routing[t][k], Weight[t][routing[t][k]], l>> : t \in Tokens, k \in Picks, l \in L}
      BY <2>6
    <3> HIDE DEF V
    <3>2. ASSUME NEW part \in V
          PROVE  \E t \in Tokens : \E k \in Picks : <<part[2], part[3]>> = <<t, routing[t][k]>>
      BY <3>1
    <3>3. ASSUME NEW t \in Tokens, NEW k \in Picks
          PROVE  \E part \in V : <<part[2], part[3]>> = <<t, routing[t][k]>>
      <4>1. <<"routed", t, routing[t][k], Weight[t][routing[t][k]], 0>> \in V
        BY <2>7, <3>1
      <4> QED
        BY <4>1
    <3>4. \A x \in TheirExperts(V) : x \in {<<t, routing[t][k]>> : t \in Tokens, k \in Picks}
      BY <3>2 DEF TheirExperts
    <3>5. \A t \in Tokens : \A k \in Picks : <<t, routing[t][k]>> \in TheirExperts(V)
      BY <3>3 DEF TheirExperts
    <3>6. TheirExperts(V) = {<<t, routing[t][k]>> : t \in Tokens, k \in Picks}
      BY <3>4, <3>5
    <3> QED
      BY <3>6 DEF V
  <2>9. {<<t, captured[t][k]>> : t \in Tokens, k \in Picks} = {<<t, routing[t][k]>> : t \in Tokens, k \in Picks}
    BY <2>2
  <2>10. TheirExperts(UNION {DOMAIN parts.routed[r] : r \in Rank}) = {<<t, captured[t][k]>> : t \in Tokens, k \in Picks}
    BY <2>5, <2>8, <2>9
  <2> QED
    BY <2>2, <2>3, <2>10 DEF TheirExperts
<1> QED
  BY <1>1, SumInvariant, PTL

\* The layer implements its contract: the reduced sum of a call has each rank's
\* slice of each expert of each token once, with the token's own weight, on
\* every path through the gate, the experts and the reduction.
THEOREM LayerKeepsContract == Spec => KeepsLayerContract
<1> DEFINE asked == IF routing = None THEN {} ELSE Wanted
<1>1. Init => asked = {} /\ given = None
  BY DEF Init
<1>2. SumInv /\ SumInv' /\ [Next]_vars => [Contract!Next]_<<asked, given>>
  <2> SUFFICES ASSUME SumInv, SumInv', [Next]_vars
               PROVE  [Contract!Next]_<<asked, given>>
    OBVIOUS
  <2>1. /\ TypeOK /\ CallInv /\ PartsInv
        /\ IF pc = "idle" THEN routing = None ELSE routing # None /\ Wanted # {}
    BY DEF SumInv, CallInv
  <2>2. IF pc' = "idle" THEN routing' = None ELSE routing' # None /\ Wanted' # {}
    BY DEF SumInv, CallInv
  <2>3. ASSUME NEW m, NEW i, Begin(m, i)
        PROVE  Contract!Next
    <3>1. pc = "idle" /\ pc' = "gate" /\ given' = None
      BY <2>3 DEF Begin
    <3> QED
      BY <2>1, <2>2, <3>1 DEF Contract!Next, Contract!Ask
  <2>4. CASE Return
    <3>1. /\ pc = "return" /\ pc' = "idle"
          /\ given' = IF cfg.reduce THEN parts.out[0]
                      ELSE OverRanks(IF stash = <<>> THEN parts.out
                                     ELSE [r \in Rank |-> parts.out[r] (+) stash[1][r]])
      BY <2>4 DEF Return
    <3>2. /\ stash = IF Folds THEN <<SharedParts>> ELSE <<>>
          /\ parts.out = IF cfg.reduce THEN [r \in {0} |-> OverRanks(AllParts)]
                         ELSE IF Folds THEN RoutedParts ELSE AllParts
      BY <2>1, <3>1 DEF PartsInv
    <3>3. given' = OverRanks(AllParts)
      <4>1. CASE cfg.reduce
        BY <3>1, <3>2, <4>1
      <4>2. CASE ~cfg.reduce /\ Folds
        <5>1. [r \in Rank |-> parts.out[r] (+) stash[1][r]] = [r \in Rank |-> AllParts[r]]
          <6>1. Has /\ parts.out = RoutedParts /\ stash[1] = SharedParts
            BY <3>2, <4>2 DEF Folds
          <6> QED
            BY <6>1, BothParts
        <5>2. [r \in Rank |-> AllParts[r]] = AllParts
          BY DEF AllParts
        <5>3. stash # <<>>
          BY <3>2, <4>2
        <5> QED
          BY <3>1, <4>2, <5>1, <5>2, <5>3
      <4>3. CASE ~cfg.reduce /\ ~Folds
        BY <3>1, <3>2, <4>3
      <4> QED
        BY <4>1, <4>2, <4>3
    <3>4. given' = [part \in Wanted |-> 1]
      BY <2>1, <3>1, <3>3, SumIsWanted
    <3> QED
      BY <2>1, <2>2, <3>1, <3>4 DEF Contract!Next, Contract!Give
  <2>5. ASSUME UNCHANGED <<cfg, routing, given>>
        PROVE  UNCHANGED <<asked, given>>
    BY <2>5, SameParts
  <2>6. Gate \/ Clone \/ SharedExperts \/ RoutedExperts \/ Combine => UNCHANGED <<cfg, routing, given>>
    BY Ends DEF Gate, Clone, SharedExperts, RoutedExperts, Ending, Undisturbed
  <2>7. Replay \/ (\E l \in BOOLEAN : LoadSink(l)) \/ PostLoad \/ Resume \/ Finished
          => UNCHANGED <<cfg, routing, given>>
    BY DEF Replay, LoadSink, PostLoad, Resume, Finished, vars, layerVars
  <2>8. UNCHANGED layerVars \/ UNCHANGED vars => UNCHANGED <<cfg, routing, given>>
    BY DEF vars, layerVars
  <2> HIDE DEF asked
  <2> QED
    BY <2>3, <2>4, <2>5, <2>6, <2>7, <2>8 DEF Next
<1> QED
  BY <1>1, <1>2, SumInvariant, PTL DEF Spec, KeepsLayerContract, Contract!Spec, Contract!Init
=============================================================================
