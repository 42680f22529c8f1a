---------------------------- MODULE AnswerProofs ----------------------------
(***************************************************************************)
(* The two ends of a streamed answer: StreamScanner, which passes the      *)
(* upstream's chunks on to the client, and Playground, the client that     *)
(* puts the chunks into its messages.                                      *)
(***************************************************************************)
EXTENDS StreamScanner, Playground, TLAPS, SequenceTheorems

-----------------------------------------------------------------------------
(* StreamScannerHandler, for every number of lines and pings and every     *)
(* size of dataChan: the reason of the end, the wake-up of the caller, and *)
(* that no chunk is lost.                                                  *)

(* What the type invariant leaves out, and a line that was read counts. *)
StreamTypes ==
    /\ StreamTypeOK
    /\ line \in {"none", "data", "[DONE]"}
    /\ dataChan \in Seq(Nat) /\ handled \in Seq(Nat)
    /\ (scanner = "check" /\ line = "data") => received < MaxLines

(* Whatever makes another goroutine end comes after the reason. *)
ReasonInv ==
    /\ \/ stop > 0 \/ main # "wait" \/ stopClosed \/ ctxDone \/ dataClosed
       \/ scanner \in {"leave", "tell", "gone"}
       \/ handler \in {"leave", "tell", "gone"}
       => reason # "none"
    /\ dataClosed => scanner \in {"tell", "gone"}
    /\ stopClosed => main \in {"close", "returned"}

(* The scanner's stop value is there for the caller, for it is the last to *)
(* be sent before only the ping goroutine can take it.                     *)
ToldInv == (main = "wait" /\ scanner = "gone") => stop > 0 \/ stolen

(* The chunks 1 to n, in this order: those of h, then those of d. *)
InOrder(h, d, n) ==
    /\ Len(h) + Len(d) = n
    /\ \A i \in 1 .. Len(h) : h[i] = i
    /\ \A i \in 1 .. Len(d) : d[i] = Len(h) + i
Passed == InOrder(handled, dataChan, received)

(* Unless the handler has stopped: the chunks that were received have been *)
(* passed on, but for the one the scanner is about to push; the upstream's *)
(* end was seen by the scanner, which had no chunk left; and the handler   *)
(* has left after the last chunk.                                          *)
ChunkInv ==
    ~cut =>
      /\ scanner \in {"scan", "check"} => Passed
      /\ scanner = "push" => InOrder(handled, dataChan, received - 1)
      /\ reason \in {"done", "eof"} =>
           scanner \in {"leave", "tell", "gone"} /\ Passed
      /\ handler \in {"leave", "tell", "gone"} => dataChan = <<>> /\ dataClosed
      /\ handler \notin {"panic", "recover"}

(* Nobody was late, so the handler has left before the caller closes. *)
JoinInv ==
    (main \in {"close", "returned"} /\ ~late) => handler \in {"recover", "tell", "gone"}

StreamInv ==
    StreamTypes /\ ReasonInv /\ ToldInv /\ ChunkInv /\ JoinInv

(* The first state satisfies the invariant. *)
LEMMA StreamInvInit == StreamInit => StreamInv
  <1> SUFFICES ASSUME StreamInit PROVE StreamInv
    OBVIOUS
  <1>1. Len(dataChan) = 0 /\ DataCap \in Nat /\ MaxLines \in Nat /\ MaxPings \in Nat
    BY StreamAssumption DEF StreamInit
  <1>2. StreamTypes
    <2>1. dataChan \in Seq(Nat) /\ handled \in Seq(Nat)
      BY DEF StreamInit
    <2>2. stolen \in BOOLEAN
      BY Zenon DEF StreamInit
    <2>3. StreamTypeOK
      BY <1>1, <2>2 DEF StreamInit, StreamTypeOK, StopCap
    <2> QED BY <2>1, <2>3 DEF StreamInit, StreamTypes
  <1>3. ReasonInv /\ ToldInv /\ JoinInv
    BY DEF StreamInit, ReasonInv, ToldInv, JoinInv
  <1>4. Passed
    BY DEF StreamInit, Passed, InOrder
  <1>5. ChunkInv
    BY <1>4 DEF StreamInit, ChunkInv
  <1> QED BY <1>2, <1>3, <1>5 DEF StreamInv

-----------------------------------------------------------------------------
(* Pushing a chunk, and taking one, keep the chunks in order. *)
LEMMA PushKeepsOrder ==
    ASSUME NEW h \in Seq(Nat), NEW d \in Seq(Nat), NEW n \in Nat, InOrder(h, d, n - 1)
    PROVE  InOrder(h, Append(d, n), n)
  <1> DEFINE e == Append(d, n)
  <1>1. Len(d) \in Nat /\ Len(h) \in Nat /\ Len(h) + Len(d) = n - 1
    BY DEF InOrder
  <1>2. /\ Len(e) = Len(d) + 1
        /\ \A i \in 1 .. Len(d) : e[i] = d[i]
        /\ e[Len(d) + 1] = n
    BY <1>1
  <1> HIDE DEF e
  <1>3. ASSUME NEW i \in 1 .. Len(e) PROVE e[i] = Len(h) + i
    <2>1. CASE i = Len(d) + 1
      BY <1>1, <1>2, <2>1
    <2>2. CASE i # Len(d) + 1
      <3>1. i \in 1 .. Len(d)
        BY <1>1, <1>2, <2>2
      <3> QED BY <3>1, <1>2 DEF InOrder
    <2> QED BY <2>1, <2>2
  <1>4. InOrder(h, e, n)
    BY <1>1, <1>2, <1>3 DEF InOrder
  <1> QED BY <1>4 DEF e

(* A chunk that moves from the channel to the handled ones keeps its       *)
(* place.                                                                  *)
LEMMA TakeKeepsOrder ==
    ASSUME NEW h \in Seq(Nat), NEW d \in Seq(Nat), NEW n \in Nat, InOrder(h, d, n), d # <<>>
    PROVE  InOrder(Append(h, Head(d)), Tail(d), n)
  <1> DEFINE g == Append(h, Head(d))
             e == Tail(d)
  <1>1. /\ Len(d) > 0 /\ Len(d) \in Nat /\ Len(h) \in Nat
        /\ Head(d) = d[1]
    OBVIOUS
  <1>2. /\ Len(g) = Len(h) + 1
        /\ \A i \in 1 .. Len(h) : g[i] = h[i]
        /\ g[Len(h) + 1] = d[1]
    BY <1>1
  <1>3. /\ Len(e) = Len(d) - 1
        /\ \A i \in 1 .. Len(e) : e[i] = d[i + 1]
    BY <1>1
  <1>4. d[1] = Len(h) + 1
    BY <1>1 DEF InOrder
  <1> HIDE DEF g, e
  <1>5. ASSUME NEW i \in 1 .. Len(g) PROVE g[i] = i
    <2>1. CASE i = Len(h) + 1
      BY <1>2, <1>4, <2>1
    <2>2. CASE i # Len(h) + 1
      <3>1. i \in 1 .. Len(h)
        BY <1>1, <1>2, <2>2
      <3> QED BY <3>1, <1>2 DEF InOrder
    <2> QED BY <2>1, <2>2
  <1>6. ASSUME NEW i \in 1 .. Len(e) PROVE e[i] = Len(g) + i
    <2>1. i + 1 \in 1 .. Len(d) /\ i \in Nat
      BY <1>1, <1>3
    <2>2. d[i + 1] = Len(h) + (i + 1)
      BY <2>1 DEF InOrder
    <2> QED BY <1>1, <1>2, <1>3, <2>1, <2>2
  <1>7. InOrder(g, e, n)
    BY <1>1, <1>2, <1>3, <1>5, <1>6 DEF InOrder
  <1> QED BY <1>7 DEF g, e

-----------------------------------------------------------------------------
(* The types. *)
LEMMA TypesStep == ASSUME StreamInv, [StreamNext]_streamVars PROVE StreamTypes'
  <1> USE StreamAssumption DEF StreamInv, StreamTypes, StreamTypeOK, StopCap, chans,
      status, data, pinging
  <1>1. CASE ReadLine \/ ReadEOF \/ ReadError \/ ClientLeaves
    BY <1>1 DEF ReadLine, ReadEOF, ReadError, ReadEnd, ClientLeaves
  <1>2. CASE Scan
    <2>1. CASE Push
      <3>1. /\ received \in Nat /\ Len(dataChan) \in Nat /\ DataCap \in Nat
            /\ Len(Append(dataChan, received)) = Len(dataChan) + 1
            /\ Append(dataChan, received) \in Seq(Nat)
        OBVIOUS
      <3>2. dataChan' \in Seq(Nat) /\ Len(dataChan') <= DataCap
        <4>1. CASE Len(dataChan) < DataCap /\ dataChan' = Append(dataChan, received)
          BY <3>1, <4>1
        <4>2. CASE dataChan' = dataChan
          BY <4>2
        <4> QED BY <2>1, <4>1, <4>2 DEF Push
      <3> QED BY <2>1, <3>2 DEF Push, FromStop
    <2>2. CASE CheckStop \/ CheckLine \/ LeaveScanner \/ TellScanner
      BY <2>2 DEF CheckStop, CheckLine, LeaveScanner, TellScanner,
         FromStop, ToStop
    <2> QED BY <1>2, <2>1, <2>2 DEF Scan
  <1>3. CASE Handle
    <2>1. CASE Take
      <3>1. dataChan # <<>> => /\ Tail(dataChan) \in Seq(Nat) /\ Len(Tail(dataChan)) <= DataCap
                               /\ Append(handled, Head(dataChan)) \in Seq(Nat)
        OBVIOUS
      <3>2. dataChan' \in Seq(Nat) /\ Len(dataChan') <= DataCap /\ handled' \in Seq(Nat)
        BY <2>1, <3>1 DEF Take
      <3> QED BY <2>1, <3>2 DEF Take
    <2>2. CASE \/ Handled \/ HandlerStops \/ HandlerPanics
               \/ LeaveHandler \/ Recover \/ TellHandler
      BY <2>2 DEF Handled, HandlerStops, HandleEnds, HandlerPanics,
         LeaveHandler, Recover, TellHandler, ToStop
    <2> QED BY <1>3, <2>1, <2>2 DEF Handle
  <1>4. CASE Ping \/ Writer
    <2>1. stolen' \in BOOLEAN
      BY <1>4, Zenon DEF Ping, Writer, PingTick, PingTimeout,
         PingEnds, PingTooLong, WriterLocks, WriterEnds
    <2>2. CASE Ping
      BY <2>1, <2>2 DEF Ping, PingTick, PingTimeout, PingEnds,
         PingTooLong, FromStop
    <2>3. CASE Writer
      BY <2>3 DEF Writer, WriterLocks, WriterEnds
    <2> QED BY <1>4, <2>2, <2>3
  <1>5. CASE Main
    BY <1>5 DEF Main, WakeUp, TellMain, Join, Return,
       FromStop, ToStop
  <1>6. CASE UNCHANGED streamVars
    BY <1>6 DEF streamVars
  <1> QED BY <1>1, <1>2, <1>3, <1>4, <1>5, <1>6 DEF StreamNext

(* The reason comes first: a goroutine ends because of something that has  *)
(* a reason, or gives one.                                                 *)
LEMMA ReasonStep == ASSUME StreamInv, [StreamNext]_streamVars PROVE ReasonInv'
  <1> USE DEF StreamInv, ReasonInv, chans, status, data, pinging,
      SetEndReason, FirstReason, FromStop, ToStop
  <1>0. stop \in Nat
    BY DEF StreamTypes, StreamTypeOK, StopCap
  <1>1. CASE ReadLine \/ ReadEOF \/ ReadError \/ ClientLeaves
    BY <1>1 DEF ReadLine, ReadEOF, ReadError, ReadEnd, ClientLeaves
  <1>2. CASE Scan
    BY <1>0, <1>2 DEF Scan, Push, CheckStop, CheckLine,
       LeaveScanner, TellScanner
  <1>3. CASE Handle
    BY <1>0, <1>3 DEF Handle, Take, Handled, HandlerStops,
       HandleEnds, HandlerPanics, LeaveHandler, Recover,
       TellHandler
  <1>4. CASE Ping \/ Writer
    BY <1>0, <1>4 DEF Ping, Writer, PingTick, PingTimeout,
       PingEnds, PingTooLong, WriterLocks, WriterEnds
  <1>5. CASE Main
    BY <1>0, <1>5 DEF Main, WakeUp, TellMain, Join, Return
  <1>6. CASE UNCHANGED streamVars
    BY <1>6 DEF streamVars
  <1> QED BY <1>1, <1>2, <1>3, <1>4, <1>5, <1>6 DEF StreamNext

(* After the scanner's stop value only the ping goroutine takes one. *)
LEMMA ToldStep == ASSUME StreamInv, [StreamNext]_streamVars PROVE ToldInv'
  <1> USE DEF StreamInv, ToldInv, chans, status, data, pinging,
      FromStop, ToStop
  <1>0. stop \in Nat /\ (stopClosed => main # "wait")
    BY DEF StreamTypes, StreamTypeOK, StopCap, ReasonInv
  <1>1. CASE ReadLine \/ ReadEOF \/ ReadError \/ ClientLeaves
    BY <1>1 DEF ReadLine, ReadEOF, ReadError, ReadEnd, ClientLeaves
  <1>2. CASE Scan
    BY <1>0, <1>2 DEF Scan, Push, CheckStop, CheckLine,
       LeaveScanner, TellScanner
  <1>3. CASE Handle
    BY <1>0, <1>3 DEF Handle, Take, Handled, HandlerStops,
       HandleEnds, HandlerPanics, LeaveHandler, Recover,
       TellHandler
  <1>4. CASE Ping \/ Writer
    BY <1>0, <1>4 DEF Ping, Writer, PingTick, PingTimeout,
       PingEnds, PingTooLong, WriterLocks, WriterEnds
  <1>5. CASE Main
    BY <1>0, <1>5 DEF Main, WakeUp, TellMain, Join, Return
  <1>6. CASE UNCHANGED streamVars
    BY <1>6 DEF streamVars
  <1> QED BY <1>1, <1>2, <1>3, <1>4, <1>5, <1>6 DEF StreamNext

(* The caller joins the handler before it closes, and the handler does not *)
(* come back.                                                              *)
LEMMA JoinStep == ASSUME StreamInv, [StreamNext]_streamVars PROVE JoinInv'
  <1> USE DEF StreamInv, JoinInv, chans, status, data, pinging
  <1>1. CASE ReadLine \/ ReadEOF \/ ReadError \/ ClientLeaves
    BY <1>1 DEF ReadLine, ReadEOF, ReadError, ReadEnd, ClientLeaves
  <1>2. CASE Scan
    BY <1>2 DEF Scan, Push, CheckStop, CheckLine, LeaveScanner,
       TellScanner
  <1>3. CASE Handle
    BY <1>3 DEF Handle, Take, Handled, HandlerStops, HandleEnds,
       HandlerPanics, LeaveHandler, Recover,
       TellHandler
  <1>4. CASE Ping \/ Writer
    BY <1>4 DEF Ping, Writer, PingTick, PingTimeout, PingEnds,
       PingTooLong, WriterLocks, WriterEnds
  <1>5. CASE Main
    BY <1>5 DEF Main, WakeUp, TellMain, Join, AllDone, Return
  <1>6. CASE UNCHANGED streamVars
    BY <1>6 DEF streamVars
  <1> QED BY <1>1, <1>2, <1>3, <1>4, <1>5, <1>6 DEF StreamNext

(* The chunks go from the scanner through dataChan to the handler. *)
LEMMA ChunkStep == ASSUME StreamInv, [StreamNext]_streamVars PROVE ChunkInv'
  <1> USE DEF StreamInv, ChunkInv, Passed, chans, status, data,
      pinging, SetEndReason, FirstReason
  <1>0. received \in Nat /\ dataChan \in Seq(Nat) /\ handled \in Seq(Nat)
    BY StreamAssumption DEF StreamTypes, StreamTypeOK
  <1>1. CASE ReadLine \/ ReadEOF \/ ReadError \/ ClientLeaves
    BY <1>1 DEF ReadLine, ReadEOF, ReadError, ReadEnd, ClientLeaves
  <1>2. CASE Scan
    <2>1. CASE Push
      <3>1. CASE dataChan' = Append(dataChan, received) /\ scanner' = "scan"
        <4>1. ~cut => InOrder(handled, Append(dataChan, received), received)
          BY <1>0, <2>1, PushKeepsOrder DEF Push
        <4>2. UNCHANGED <<handled, received, reason, cut, handler, dataClosed>> /\ scanner = "push"
          BY <2>1 DEF Push
        <4>3. ~cut => Passed'
          BY <3>1, <4>1, <4>2
        <4>4. ~cut => handler \notin {"leave", "tell", "gone"}
          BY <4>2 DEF ReasonInv
        <4> QED BY <3>1, <4>2, <4>3, <4>4
      <3>2. CASE dataChan' = dataChan /\ scanner' = "leave"
        BY <2>1, <3>2 DEF Push
      <3> QED BY <2>1, <3>1, <3>2 DEF Push
    <2>2. CASE CheckLine
      <3>1. /\ scanner = "check" /\ UNCHANGED <<handled, dataChan, cut, handler, dataClosed>>
            /\ ~cut => Passed /\ reason \notin {"done", "eof"}
        BY <2>2 DEF CheckLine
      <3>2. CASE line = "data"
        <4>1. received' = received + 1 /\ scanner' = "push" /\ UNCHANGED reason
          BY <2>2, <3>2 DEF CheckLine
        <4>2. received' - 1 = received
          BY <1>0, <4>1
        <4>3. ~cut => InOrder(handled, dataChan, received' - 1)
          BY <3>1, <4>2
        <4> HIDE DEF Passed
        <4> QED BY <3>1, <4>1, <4>3
      <3>3. CASE line # "data"
        BY <2>2, <3>1, <3>3 DEF CheckLine
      <3> QED BY <3>2, <3>3
    <2>3. CASE CheckStop \/ LeaveScanner \/ TellScanner
      BY <2>3 DEF CheckStop, LeaveScanner, TellScanner
    <2> QED BY <1>2, <2>1, <2>2, <2>3 DEF Scan
  <1>3. CASE Handle
    <2>1. CASE Take
      <3>1. CASE dataChan # <<>> /\ handler' = "handle"
        <4>1. /\ handled' = Append(handled, Head(dataChan)) /\ dataChan' = Tail(dataChan)
              /\ UNCHANGED <<scanner, reason, cut, received>>
          BY <2>1, <3>1 DEF Take
        <4>2. Passed => InOrder(handled', dataChan', received)
          BY <1>0, <3>1, <4>1, TakeKeepsOrder
        <4>3. scanner = "push" /\ ~cut => InOrder(handled', dataChan', received - 1)
          <5>1. SUFFICES ASSUME InOrder(handled, dataChan, received - 1)
                         PROVE  InOrder(handled', dataChan', received - 1)
            OBVIOUS
          <5>2. received - 1 \in Nat
            BY <1>0, <5>1 DEF InOrder
          <5> QED BY <1>0, <3>1, <4>1, <5>1, <5>2, TakeKeepsOrder
        <4> QED BY <3>1, <4>1, <4>2, <4>3
      <3>2. CASE dataChan = <<>> /\ dataClosed
        BY <2>1, <3>2 DEF Take
      <3> QED BY <2>1, <3>1, <3>2 DEF Take
    <2>2. CASE Handled \/ HandlerStops
      BY <2>2 DEF Handled, HandlerStops, HandleEnds
    <2>3. CASE HandlerPanics \/ LeaveHandler \/ Recover \/ TellHandler
      BY <2>3 DEF HandlerPanics, LeaveHandler, Recover, TellHandler
    <2> QED BY <1>3, <2>1, <2>2, <2>3 DEF Handle
  <1>4. CASE Ping \/ Writer
    BY <1>4 DEF Ping, Writer, PingTick, PingTimeout, PingEnds,
       PingTooLong, WriterLocks, WriterEnds
  <1>5. CASE Main
    BY <1>5 DEF Main, WakeUp, TellMain, Join, Return
  <1>6. CASE UNCHANGED streamVars
    BY <1>6 DEF streamVars
  <1> QED BY <1>1, <1>2, <1>3, <1>4, <1>5, <1>6 DEF StreamNext

(* The invariant, for every behaviour. *)
LEMMA StreamInvariant == StreamSpec => []StreamInv
  <1>1. StreamInv /\ [StreamNext]_streamVars => StreamInv'
    BY TypesStep, ReasonStep, ToldStep, ChunkStep, JoinStep DEF StreamInv
  <1> QED BY <1>1, StreamInvInit, PTL DEF StreamSpec

-----------------------------------------------------------------------------
(* The caller never has to guess why the stream has ended: whoever wakes   *)
(* it through stopChan has called SetEndReason before.                     *)
THEOREM ReasonBeforeStopHolds == StreamSpec => []ReasonBeforeStop
  <1>1. StreamInv => ReasonBeforeStop
    BY DEF StreamInv, StreamTypes, ReasonInv, ReasonBeforeStop
  <1> QED BY <1>1, StreamInvariant, PTL

(* The goroutines of StreamScannerHandler never leave the caller without a *)
(* stop value, unless the ping goroutine has taken one.                    *)
THEOREM CallerIsToldHolds == StreamSpec => []CallerIsTold
  <1>1. StreamInv => CallerIsTold
    BY DEF StreamInv, ToldInv, CallerIsTold
  <1> QED BY <1>1, StreamInvariant, PTL

(* Every chunk of a stream that the upstream has ended reaches the client, *)
(* in order, whatever the size of dataChan.                                *)
THEOREM NothingLostHolds == StreamSpec => []NothingLost
  <1>1. StreamInv => NothingLost
    <2> SUFFICES ASSUME StreamInv, main = "returned", ~late, ~cut, reason \in {"done", "eof"}
                 PROVE  handled = [i \in 1 .. received |-> i]
      BY DEF NothingLost
    <2> USE DEF StreamInv
    <2>1. handler \in {"tell", "gone"} /\ dataChan = <<>>
      BY DEF JoinInv, ChunkInv
    <2>2. handled \in Seq(Nat) /\ InOrder(handled, <<>>, received)
      BY <2>1 DEF ChunkInv, StreamTypes, Passed
    <2>3. Len(handled) = received /\ \A i \in 1 .. received : handled[i] = i
      BY <2>2 DEF InOrder
    <2>4. handled = [i \in 1 .. Len(handled) |-> handled[i]]
      BY <2>2
    <2> QED BY <2>3, <2>4
  <1> QED BY <1>1, StreamInvariant, PTL

-----------------------------------------------------------------------------
(* The playground, for every number of requests, chunks, changes and       *)
(* reloads: the messages on the page agree with the request that is under  *)
(* way, and each answer is made of its own chunks.                         *)
(*                                                                         *)
(* In what follows q, x, n and l stand for requests, mixed, sent and       *)
(* loaded, s for a list of messages and m for a message.                   *)

(* The answers that are made of the chunks of their request, each chunk    *)
(* where its number says; and none that came is missing.                   *)
InPlace(m) == m.from = "assistant" /\ ~m.edited /\ m.status # "error"
Ordered(m) == InPlace(m) => \A j \in DOMAIN m.answer : m.answer[j] = <<m.request, j>>
Whole(m, n, l) == InPlace(m) /\ m.request > l => Len(m.answer) = n[m.request]

(* In any message: chunks that came, those of one request in their order. *)
Rising(m, n) ==
    \A j \in DOMAIN m.answer :
        /\ m.answer[j][2] <= n[m.answer[j][1]]
        /\ \A k \in DOMAIN m.answer :
             j < k /\ m.answer[j][1] = m.answer[k][1] => m.answer[j][2] < m.answer[k][2]

(* Lists of messages, the current one, the rendered one, the saved one and *)
(* the drafts: of the requests that are not mixed with others, only an     *)
(* answer at the end is unfinished, and nobody has edited it.              *)
MessageOK(m, q, x, n) == m.request <= q /\ Rising(m, n) /\ (m.request > x => Ordered(m))
ListOK(s, q, x, n) ==
    \A i \in DOMAIN s :
        /\ MessageOK(s[i], q, x, n)
        /\ s[i].request > x /\ Unfinished(s[i]) =>
             i = Len(s) /\ s[i].from = "assistant" /\ ~s[i].edited

(* The draft of a request ends with its unfinished answer, with all chunks *)
(* that came, or has only mixed answers.                                   *)
EndsWith(s, r, n) ==
    /\ s # <<>> /\ s[Len(s)].from = "assistant" /\ s[Len(s)].request = r
    /\ Unfinished(s[Len(s)]) /\ Len(s[Len(s)].answer) = n[r]
DraftOK(r, s, q, x, n) ==
    /\ ListOK(s, q, x, n)
    /\ r > x => EndsWith(s, r, n)
    /\ r <= x => \A i \in DOMAIN s : s[i].request <= x

(* The page, with its messages s, its rendering v, the sources and         *)
(* sseSourceRef f.                                                         *)
Agree(s, v, src, f, q, x, n, l) ==
    /\ \A i \in 1 .. Len(s) : s[i].request > x =>
         /\ Unfinished(s[i]) <=> i = Len(s) /\ f # Nobody
         /\ Whole(s[i], n, l)
         /\ s[i].from = "assistant" /\ s[i].request = f => i = Len(s)
    /\ f > x => Len(s) > 0 /\ s[Len(s)].from = "assistant" /\ s[Len(s)].request = f
    /\ \A r \in Requests : src[r] = "open" => f = r \/ q <= x
    /\ q > x /\ ~v.generating => v.messages = s /\ f = Nobody

(* Requests are numbered in the order in which they are sent. *)
Numbered ==
    /\ loaded <= requests /\ mixed <= requests
    /\ ref # Nobody => ref = requests /\ ref > loaded
    /\ \A r \in Requests :
         /\ r > requests => sent[r] = 0 /\ source[r] = "none"
         /\ source[r] = "left" => r <= loaded
         /\ draft[r] # {} => source[r] \in {"left", "closed"}

(* Nothing is left of a page that is not there. *)
Away == ~mounted =>
    /\ view = Rendered(<<>>, Nobody) /\ messages = <<>> /\ ref = Nobody
    /\ loaded = requests /\ \A r \in Requests : source[r] # "open"

Lists ==
    /\ ListOK(messages, requests, mixed, sent)
    /\ ListOK(view.messages, requests, mixed, sent)
    /\ ListOK(saved, requests, mixed, sent)
Drafts == \A r \in Requests : \A s \in draft[r] : DraftOK(r, s, requests, mixed, sent)

PageInv ==
    /\ TypeOK /\ Numbered /\ Away /\ Lists /\ Drafts
    /\ Agree(messages, view, source, ref, requests, mixed, sent, loaded)

-----------------------------------------------------------------------------
(* Messages and lists of messages. *)

(* A list is a function on the numbers up to its length. *)
LEMMA ListFacts ==
    ASSUME NEW s \in Seq(Messages)
    PROVE  /\ Len(s) \in Nat /\ DOMAIN s = 1 .. Len(s)
           /\ \A i \in 1 .. Len(s) : s[i] \in Messages
           /\ s # <<>> <=> Len(s) > 0
  BY LenProperties, EmptySeq, ElementOfSeq

(* What the handlers make of a message. *)
LEMMA MessageFacts ==
    ASSUME NEW m \in Messages
    PROVE  /\ Complete(m) \in Messages /\ ~Unfinished(Complete(m))
           /\ Complete(m).from = m.from /\ Complete(m).request = m.request
           /\ Complete(m).answer = m.answer /\ Complete(m).edited = m.edited
           /\ InPlace(Complete(m)) => InPlace(m)
           /\ WithError(m) \in Messages /\ ~Unfinished(WithError(m)) /\ ~InPlace(WithError(m))
           /\ WithError(m).from = m.from /\ WithError(m).request = m.request
  <1>1. <<>> \in Seq(Requests \X Nat)
    BY EmptySeq
  <1> QED
    BY <1>1 DEF Messages, Complete, WithError, Unfinished, InPlace

(* updateLastAssistantMessage changes the last message at most. *)
LEMMA UpdateLastFacts ==
    ASSUME NEW s \in Seq(Messages), NEW m,
           s # <<>> /\ s[Len(s)].from = "assistant" => m \in Messages
    PROVE  /\ UpdateLast(s, m) \in Seq(Messages) /\ Len(UpdateLast(s, m)) = Len(s)
           /\ \A i \in 1 .. Len(s) : UpdateLast(s, m)[i] =
                IF i = Len(s) /\ s[Len(s)].from = "assistant" THEN m ELSE s[i]
  <1>1. CASE s # <<>> /\ s[Len(s)].from = "assistant"
    <2>1. Len(s) \in 1 .. Len(s) /\ m \in Messages
      BY <1>1, ListFacts
    <2>2. UpdateLast(s, m) = [s EXCEPT ![Len(s)] = m]
      BY <1>1 DEF UpdateLast, Last
    <2>3. /\ [s EXCEPT ![Len(s)] = m] \in Seq(Messages)
          /\ Len([s EXCEPT ![Len(s)] = m]) = Len(s)
          /\ \A j \in 1 .. Len(s) : [s EXCEPT ![Len(s)] = m][j] = IF j = Len(s) THEN m ELSE s[j]
      BY <2>1, ExceptSeq
    <2> QED
      BY <1>1, <2>2, <2>3
  <1>2. CASE ~(s # <<>> /\ s[Len(s)].from = "assistant")
    <2>1. UpdateLast(s, m) = s
      BY <1>2 DEF UpdateLast, Last
    <2> QED
      BY <1>2, <2>1, ListFacts
  <1> QED
    BY <1>1, <1>2

(* Cutting, and taking one out. *)
LEMMA CutFacts ==
    ASSUME NEW s \in Seq(Messages), NEW n \in 0 .. Len(s)
    PROVE  /\ SubSeq(s, 1, n) \in Seq(Messages) /\ Len(SubSeq(s, 1, n)) = n
           /\ \A i \in 1 .. n : SubSeq(s, 1, n)[i] = s[i]
  <1>1. n \in Int /\ Len(s) \in Nat /\ \A i \in 1 .. n : s[i] \in Messages
    BY ListFacts
  <1>2. /\ SubSeq(s, 1, n) \in Seq(Messages)
        /\ Len(SubSeq(s, 1, n)) = IF 1 <= n THEN n - 1 + 1 ELSE 0
        /\ \A i \in 1 .. n - 1 + 1 : SubSeq(s, 1, n)[i] = s[1 + i - 1]
    BY <1>1, SubSeqProperties
  <1> QED
    BY <1>1, <1>2

(* The list without one message holds nothing that it did not hold. *)
LEMMA RemoveFacts ==
    ASSUME NEW s \in Seq(Messages), NEW i \in 1 .. Len(s)
    PROVE  /\ RemoveAt(s, i) \in Seq(Messages)
           /\ \A k \in 1 .. Len(RemoveAt(s, i)) :
                \E j \in 1 .. Len(s) : RemoveAt(s, i)[k] = s[j]
  <1>1. Len(s) \in Nat /\ \A j \in 1 .. Len(s) : s[j] \in Messages
    BY ListFacts
  <1>2. /\ SubSeq(s, 1, i - 1) \in Seq(Messages) /\ Len(SubSeq(s, 1, i - 1)) = i - 1
        /\ \A k \in 1 .. i - 1 : SubSeq(s, 1, i - 1)[k] = s[k]
    BY <1>1, CutFacts
  <1>3. /\ SubSeq(s, i + 1, Len(s)) \in Seq(Messages)
        /\ Len(SubSeq(s, i + 1, Len(s))) = IF i + 1 <= Len(s) THEN Len(s) - (i + 1) + 1 ELSE 0
        /\ \A k \in 1 .. Len(s) - (i + 1) + 1 : SubSeq(s, i + 1, Len(s))[k] = s[i + 1 + k - 1]
    BY <1>1, SubSeqProperties
  <1> DEFINE a == SubSeq(s, 1, i - 1)
             b == SubSeq(s, i + 1, Len(s))
  <1>4. /\ a \o b \in Seq(Messages) /\ Len(a \o b) = Len(a) + Len(b)
        /\ \A k \in 1 .. Len(a) + Len(b) : (a \o b)[k] = IF k <= Len(a) THEN a[k] ELSE b[k - Len(a)]
    BY <1>2, <1>3, ConcatProperties
  <1>5. Len(a) = i - 1 /\ Len(b) = Len(s) - i
    BY <1>1, <1>2, <1>3
  <1>6. ASSUME NEW k \in 1 .. Len(a \o b) PROVE \E j \in 1 .. Len(s) : (a \o b)[k] = s[j]
    <2>1. CASE k <= i - 1
      <3>1. (a \o b)[k] = s[k] /\ k \in 1 .. Len(s)
        BY <1>1, <1>2, <1>4, <1>5, <2>1
      <3> QED BY <3>1
    <2>2. CASE ~(k <= i - 1)
      <3>0. Len(a \o b) = Len(s) - 1
        <4> HIDE DEF a, b
        <4> QED BY <1>1, <1>4, <1>5
      <3>1. k - (i - 1) \in 1 .. Len(s) - (i + 1) + 1 /\ k + 1 \in 1 .. Len(s)
        <4> DEFINE n == Len(a \o b)
        <4>1. k \in 1 .. n /\ n = Len(s) - 1
          BY <3>0
        <4> HIDE DEF n, a, b
        <4> QED BY <1>1, <2>2, <4>1
      <3>2. (a \o b)[k] = b[k - (i - 1)]
        BY <1>1, <1>4, <1>5, <2>2
      <3>3. b[k - (i - 1)] = s[k + 1]
        BY <1>1, <1>3, <3>1
      <3> QED BY <3>1, <3>2, <3>3
    <2> QED BY <2>1, <2>2
  <1> QED
    BY <1>4, <1>6 DEF RemoveAt
-----------------------------------------------------------------------------
(* What stays true of lists. *)

Counts == [Requests -> Nat]

(* Parts of a message. *)
LEMMA PartFacts ==
    ASSUME NEW m \in Messages
    PROVE  /\ m.request \in Requests /\ m.request \in Nat /\ m.from \in {"user", "assistant"}
           /\ m.answer \in Seq(Requests \X Nat) /\ Len(m.answer) \in Nat
           /\ DOMAIN m.answer = 1 .. Len(m.answer)
           /\ \A j \in DOMAIN m.answer :
                m.answer[j][1] \in Requests /\ m.answer[j][2] \in Nat
  <1>1. m.request \in Requests /\ m.from \in {"user", "assistant"} /\ m.answer \in Seq(Requests \X Nat)
    BY DEF Messages
  <1>2. Len(m.answer) \in Nat /\ DOMAIN m.answer = 1 .. Len(m.answer)
        /\ \A j \in 1 .. Len(m.answer) : m.answer[j] \in Requests \X Nat
    BY <1>1, LenProperties, ElementOfSeq
  <1> QED
    BY <1>1, <1>2, PlaygroundAssumption DEF Requests

(* More requests, more mixed ones, more chunks. *)
LEMMA MessageGrows ==
    ASSUME NEW m \in Messages, NEW q \in Nat, NEW q2 \in Nat, NEW x \in Nat, NEW x2 \in Nat,
           NEW n \in Counts, NEW n2 \in Counts,
           q <= q2, x <= x2, \A r \in Requests : n[r] <= n2[r],
           MessageOK(m, q, x, n)
    PROVE  MessageOK(m, q2, x2, n2)
  <1>1. m.request <= q2 /\ (m.request > x2 => Ordered(m))
    BY PartFacts DEF MessageOK
  <1>2. Rising(m, n2)
    <2> SUFFICES ASSUME NEW j \in DOMAIN m.answer
                 PROVE  m.answer[j][2] <= n2[m.answer[j][1]]
      BY DEF MessageOK, Rising
    <2>1. m.answer[j][1] \in Requests /\ m.answer[j][2] \in Nat
          /\ m.answer[j][2] <= n[m.answer[j][1]]
      BY PartFacts DEF MessageOK, Rising
    <2>2. n[m.answer[j][1]] \in Nat /\ n2[m.answer[j][1]] \in Nat
          /\ n[m.answer[j][1]] <= n2[m.answer[j][1]]
      BY <2>1 DEF Counts
    <2> QED BY <2>1, <2>2
  <1> QED BY <1>1, <1>2 DEF MessageOK

(* The same for a list. *)
LEMMA ListGrows ==
    ASSUME NEW s \in Seq(Messages), NEW q \in Nat, NEW q2 \in Nat, NEW x \in Nat, NEW x2 \in Nat,
           NEW n \in Counts, NEW n2 \in Counts,
           q <= q2, x <= x2, \A r \in Requests : n[r] <= n2[r],
           ListOK(s, q, x, n)
    PROVE  ListOK(s, q2, x2, n2)
  <1> SUFFICES ASSUME NEW i \in DOMAIN s
               PROVE  /\ MessageOK(s[i], q2, x2, n2)
                      /\ s[i].request > x2 /\ Unfinished(s[i]) =>
                           i = Len(s) /\ s[i].from = "assistant" /\ ~s[i].edited
    BY DEF ListOK
  <1>1. s[i] \in Messages /\ MessageOK(s[i], q, x, n) /\ s[i].request \in Nat
    BY ListFacts, PartFacts DEF ListOK
  <1>2. MessageOK(s[i], q2, x2, n2)
    BY <1>1, MessageGrows
  <1> QED BY <1>1, <1>2 DEF ListOK

(* And for a draft, when no chunk of its request came or the request is    *)
(* mixed.  If more requests are mixed, then all that were sent.            *)
LEMMA DraftGrows ==
    ASSUME NEW s \in Seq(Messages), NEW q \in Nat, NEW q2 \in Nat, NEW x \in Nat, NEW x2 \in Nat,
           NEW n \in Counts, NEW n2 \in Counts, NEW r \in Requests,
           q <= q2, x <= x2, \A p \in Requests : n[p] <= n2[p],
           x2 = x \/ x2 >= q, r > x2 => n2[r] = n[r],
           DraftOK(r, s, q, x, n)
    PROVE  DraftOK(r, s, q2, x2, n2)
  <1>1. ListOK(s, q2, x2, n2)
    BY ListGrows DEF DraftOK
  <1>2. r \in Nat
    BY PlaygroundAssumption DEF Requests
  <1>3. r > x2 => EndsWith(s, r, n2)
    BY <1>2 DEF DraftOK, EndsWith
  <1>4. \A i \in DOMAIN s : s[i].request \in Nat /\ s[i].request <= q
    BY ListFacts, PartFacts DEF DraftOK, ListOK, MessageOK
  <1>5. r <= x2 => \A i \in DOMAIN s : s[i].request <= x2
    BY <1>2, <1>4 DEF DraftOK
  <1> QED BY <1>1, <1>3, <1>5 DEF DraftOK

(* A message that is finished, or has failed. *)
LEMMA FinishOK ==
    ASSUME NEW m \in Messages, NEW q \in Nat, NEW x \in Nat, NEW n \in Counts,
           MessageOK(m, q, x, n), NEW e \in {Complete(m), WithError(m)}
    PROVE  e \in Messages /\ MessageOK(e, q, x, n) /\ ~Unfinished(e)
           /\ e.request = m.request /\ e.from = m.from
           /\ \A l \in Nat : Whole(m, n, l) => Whole(e, n, l)
  <1>1. CASE e = Complete(m)
    BY <1>1, MessageFacts DEF MessageOK, Rising, Ordered, Whole
  <1>2. CASE e = WithError(m)
    <2>1. e.answer = <<>>
      BY <1>2 DEF WithError, Messages
    <2> QED BY <1>2, <2>1, MessageFacts DEF MessageOK, Rising, Ordered, Whole
  <1> QED BY <1>1, <1>2

(* handleStreamComplete, updateAssistantMessageWithError, stopGeneration:  *)
(* the last answer is finished.                                            *)
LEMMA FinishLastOK ==
    ASSUME NEW s \in Seq(Messages), NEW q \in Nat, NEW x \in Nat, NEW n \in Counts,
           ListOK(s, q, x, n), NEW e \in {Complete(Last(s)), WithError(Last(s))},
           NEW t, t = UpdateLast(s, e)
    PROVE  /\ t \in Seq(Messages) /\ Len(t) = Len(s)
           /\ ListOK(t, q, x, n)
           /\ \A i \in 1 .. Len(s) :
                /\ t[i].request = s[i].request
                /\ s[i].request > x => ~Unfinished(t[i])
                /\ \A l \in Nat : Whole(s[i], n, l) => Whole(t[i], n, l)
  <1> DEFINE k == Len(s)
  <1>1. k \in Nat /\ DOMAIN s = 1 .. k /\ (\A i \in 1 .. k : s[i] \in Messages) /\ (s # <<>> <=> k > 0)
    BY ListFacts
  <1>2. ASSUME s # <<>>
        PROVE  /\ e \in Messages /\ MessageOK(e, q, x, n) /\ ~Unfinished(e)
               /\ e.request = s[k].request /\ e.from = s[k].from
               /\ \A l \in Nat : Whole(s[k], n, l) => Whole(e, n, l)
    <2>1. s[k] \in Messages /\ MessageOK(s[k], q, x, n) /\ Last(s) = s[k]
      BY <1>1, <1>2 DEF ListOK, Last
    <2> QED BY <2>1, FinishOK
  <1>3. /\ t \in Seq(Messages) /\ Len(t) = k
        /\ \A i \in 1 .. k : t[i] = IF i = k /\ s[k].from = "assistant" THEN e ELSE s[i]
    BY <1>2, UpdateLastFacts
  <1>4. DOMAIN t = 1 .. k
    BY <1>3, ListFacts
  <1>5. ASSUME NEW i \in 1 .. k
        PROVE  /\ MessageOK(t[i], q, x, n) /\ t[i].request = s[i].request
               /\ s[i].request > x => ~Unfinished(t[i])
               /\ \A l \in Nat : Whole(s[i], n, l) => Whole(t[i], n, l)
    <2>1. CASE i = k /\ s[k].from = "assistant"
      <3>1. s # <<>> /\ t[i] = e /\ s[i] = s[k]
        <4>1. k > 0
          BY <1>1
        <4> HIDE DEF k
        <4> QED BY <1>1, <1>3, <2>1, <4>1
      <3> QED BY <1>2, <3>1
    <2>2. CASE ~(i = k /\ s[k].from = "assistant")
      <3>1. t[i] = s[i]
        BY <1>3, <2>2
      <3>2. MessageOK(s[i], q, x, n) /\ (s[i].request > x => ~Unfinished(s[i]))
        BY <1>1, <2>2 DEF ListOK
      <3> QED BY <3>1, <3>2
    <2> QED BY <2>1, <2>2
  <1>6. ListOK(t, q, x, n)
    BY <1>4, <1>5 DEF ListOK
  <1> QED BY <1>3, <1>5, <1>6

(* A message that the next chunk of a request may be added to. *)
Fits(m, r, x, n) == m.request > x => m.request = r /\ Len(m.answer) = n[r] /\ InPlace(m)
NextChunk(r, n) == <<r, n[r] + 1>>
Came(r, n) == [n EXCEPT ![r] = n[r] + 1]

(* A chunk that comes is later than those of its request that have come. *)
LEMMA ChunkOK ==
    ASSUME NEW m \in Messages, NEW q \in Nat, NEW x \in Nat, NEW n \in Counts, NEW n2 \in Counts,
           NEW r \in Requests, n2 = Came(r, n),
           MessageOK(m, q, x, n),
           Fits(m, r, x, n), NEW e, e = AddChunk(m, NextChunk(r, n))
    PROVE  /\ e \in Messages /\ MessageOK(e, q, x, n2)
           /\ e.request = m.request /\ e.from = m.from /\ e.edited = m.edited
           /\ m.status # "error" => /\ Unfinished(e) /\ Len(e.answer) = Len(m.answer) + 1
                                    /\ InPlace(m) => InPlace(e)
  <1> DEFINE c == <<r, n[r] + 1>>
             a == Append(m.answer, c)
             k == Len(m.answer)
  <1>0. e = AddChunk(m, c) /\ (m.request > x => m.request = r /\ Len(m.answer) = n[r] /\ InPlace(m))
    BY DEF NextChunk, Fits
  <1>1. (\A p \in Requests : n[p] \in Nat /\ n2[p] \in Nat /\ n[p] <= n2[p]) /\ q <= q /\ x <= x
    BY DEF Counts, Came
  <1>2. MessageOK(m, q, x, n2)
    BY <1>1, MessageGrows
  <1>3. CASE m.status = "error"
    <2>1. e = m
      BY <1>0, <1>3 DEF AddChunk
    <2> QED BY <1>2, <1>3, <2>1
  <1>4. CASE m.status # "error"
    <2>1. e = [m EXCEPT !.answer = a, !.status = "streaming"]
      BY <1>0, <1>4 DEF AddChunk
    <2>2. /\ m.answer \in Seq(Requests \X Nat) /\ c \in Requests \X Nat /\ k \in Nat
          /\ DOMAIN m.answer = 1 .. k
      BY <1>1, PartFacts
    <2>3. /\ a \in Seq(Requests \X Nat) /\ Len(a) = k + 1 /\ DOMAIN a = 1 .. k + 1
          /\ \A j \in 1 .. k : a[j] = m.answer[j]
          /\ a[k + 1] = c
      BY <2>2, AppendProperties, LenProperties
    <2> HIDE DEF a, k
    <2>4. /\ e \in Messages /\ e.answer = a /\ e.status = "streaming"
          /\ e.request = m.request /\ e.from = m.from /\ e.edited = m.edited
      BY <2>1, <2>3 DEF Messages
    <2>5. ASSUME NEW j \in 1 .. k + 1
          PROVE  /\ a[j][1] \in Requests /\ a[j][2] \in Nat /\ a[j][2] <= n2[a[j][1]]
                 /\ j <= k => a[j] = m.answer[j] /\ (a[j][1] = r => a[j][2] < n[r] + 1)
      <3>1. CASE j = k + 1
        BY <1>1, <2>2, <2>3, <3>1 DEF Counts, Came
      <3>2. CASE j # k + 1
        <4>1. j \in 1 .. k /\ a[j] = m.answer[j]
          BY <2>2, <2>3, <3>2
        <4>2. a[j][1] \in Requests /\ a[j][2] \in Nat /\ a[j][2] <= n[a[j][1]]
              /\ a[j][2] <= n2[a[j][1]]
          BY <1>2, <2>2, <4>1, PartFacts DEF MessageOK, Rising
        <4> QED BY <1>1, <4>1, <4>2
      <3> QED BY <3>1, <3>2
    <2>6. Rising(e, n2)
      <3> SUFFICES ASSUME NEW j \in 1 .. k + 1, NEW i \in 1 .. k + 1, j < i, a[j][1] = a[i][1]
                   PROVE  a[j][2] < a[i][2]
        BY <2>3, <2>4, <2>5 DEF Rising
      <3>1. CASE i = k + 1
        <4>1. a[i] = c /\ j <= k
          BY <2>2, <2>3, <3>1
        <4>2. a[i][1] = r /\ a[i][2] = n[r] + 1
          BY <4>1
        <4> QED BY <2>5, <4>1, <4>2
      <3>2. CASE i # k + 1
        <4>1. i \in 1 .. k /\ j \in 1 .. k
          BY <2>2, <3>2
        <4>2. a[i] = m.answer[i] /\ a[j] = m.answer[j]
          BY <2>3, <4>1
        <4> QED BY <1>2, <2>2, <4>1, <4>2 DEF MessageOK, Rising
      <3> QED BY <3>1, <3>2
    <2>7. e.request > x => Ordered(e)
      <3> SUFFICES ASSUME m.request > x, NEW j \in 1 .. k + 1 PROVE a[j] = <<m.request, j>>
        BY <1>0, <2>3, <2>4 DEF Ordered
      <3>1. CASE j = k + 1
        <4>1. m.request = r /\ k = n[r]
          BY <1>0 DEF k
        <4> QED BY <2>3, <3>1, <4>1
      <3>2. CASE j # k + 1
        <4>1. j \in 1 .. k
          BY <2>2, <3>2
        <4> QED BY <1>0, <2>2, <2>3, <4>1 DEF MessageOK, Ordered
      <3> QED BY <3>1, <3>2
    <2>8. MessageOK(e, q, x, n2)
      BY <1>2, <2>4, <2>6, <2>7 DEF MessageOK
    <2>9. Unfinished(e) /\ Len(e.answer) = Len(m.answer) + 1 /\ (InPlace(m) => InPlace(e))
      BY <2>3, <2>4 DEF Unfinished, InPlace, k
    <2> QED BY <2>4, <2>8, <2>9
  <1> QED BY <1>3, <1>4

(* handleStreamUpdate: the chunk goes to the last message, which belongs   *)
(* to its request or to a mixed one.                                       *)
LEMMA ChunkLastOK ==
    ASSUME NEW s \in Seq(Messages), NEW q \in Nat, NEW x \in Nat, NEW n \in Counts,
           NEW n2 \in Counts, NEW r \in Requests, n2 = Came(r, n),
           ListOK(s, q, x, n),
           r > x => EndsWith(s, r, n),
           r <= x => \A i \in DOMAIN s : s[i].request <= x,
           NEW t, t = UpdateLast(s, AddChunk(Last(s), <<r, n[r] + 1>>))
    PROVE  /\ t \in Seq(Messages) /\ Len(t) = Len(s) /\ ListOK(t, q, x, n2)
           /\ \A i \in 1 .. Len(s) : t[i].request = s[i].request /\ t[i].from = s[i].from
           /\ r > x => EndsWith(t, r, n2) /\ t # s
           /\ r > x => \A i \in 1 .. Len(s) : i # Len(s) => t[i] = s[i]
  <1> DEFINE e == AddChunk(Last(s), <<r, n[r] + 1>>)
             k == Len(s)
  <1>1. k \in Nat /\ DOMAIN s = 1 .. k /\ (\A i \in 1 .. k : s[i] \in Messages) /\ (s # <<>> <=> k > 0)
    BY ListFacts
  <1>2. x \in Nat /\ r \in Nat /\ \A i \in 1 .. k : s[i].request \in Nat
    BY <1>1, PartFacts, PlaygroundAssumption DEF Requests
  <1>3. (\A p \in Requests : n[p] \in Nat /\ n2[p] \in Nat /\ n[p] <= n2[p]) /\ q <= q /\ x <= x
    BY DEF Counts, Came
  <1>4. ListOK(s, q, x, n2)
    BY <1>3, ListGrows
  <1>5. ASSUME s # <<>>
        PROVE  /\ e \in Messages /\ MessageOK(e, q, x, n2)
               /\ e.request = s[k].request /\ e.from = s[k].from /\ e.edited = s[k].edited
               /\ r > x => Unfinished(e) /\ Len(e.answer) = Len(s[k].answer) + 1
    <2>1. k \in 1 .. k /\ Last(s) = s[k] /\ s[k] \in Messages /\ MessageOK(s[k], q, x, n)
      BY <1>1, <1>5 DEF ListOK, Last
    <2>2. r > x => /\ s[k].request = r /\ Len(s[k].answer) = n[r] /\ Unfinished(s[k])
                   /\ s[k].from = "assistant"
      BY DEF EndsWith
    <2>3. r > x => ~s[k].edited
      BY <1>1, <2>1, <2>2 DEF ListOK
    <2>4. r > x => InPlace(s[k]) /\ s[k].status # "error"
      BY <2>2, <2>3 DEF InPlace, Unfinished
    <2>5. s[k].request > x => r > x
      BY <1>1, <1>2, <2>1
    <2>6. PICK m \in Messages : m = s[k]
      BY <2>1
    <2>7. Fits(m, r, x, n)
      BY <2>2, <2>4, <2>5, <2>6 DEF Fits
    <2>8. /\ e \in Messages /\ MessageOK(e, q, x, n2)
          /\ e.request = m.request /\ e.from = m.from /\ e.edited = m.edited
          /\ m.status # "error" => Unfinished(e) /\ Len(e.answer) = Len(m.answer) + 1
      <3>1. e = AddChunk(m, <<r, n[r] + 1>>)
        BY <2>1, <2>6
      <3>2. MessageOK(m, q, x, n)
        BY <2>1, <2>6
      <3>3. PICK d : d = AddChunk(m, NextChunk(r, n))
        OBVIOUS
      <3>4. /\ d \in Messages /\ MessageOK(d, q, x, n2)
            /\ d.request = m.request /\ d.from = m.from /\ d.edited = m.edited
            /\ m.status # "error" => Unfinished(d) /\ Len(d.answer) = Len(m.answer) + 1
        <4> HIDE DEF e, k
        <4> QED BY <2>7, <3>2, <3>3, ChunkOK
      <3> QED BY <3>1, <3>3, <3>4 DEF NextChunk
    <2> HIDE DEF e
    <2> QED BY <2>4, <2>6, <2>8
  <1> HIDE DEF e
  <1>6. /\ t \in Seq(Messages) /\ Len(t) = k
        /\ \A i \in 1 .. k : t[i] = IF i = k /\ s[k].from = "assistant" THEN e ELSE s[i]
    <2>1. t = UpdateLast(s, e)
      BY DEF e
    <2>2. s # <<>> /\ s[Len(s)].from = "assistant" => e \in Messages
      BY <1>5
    <2>3. /\ UpdateLast(s, e) \in Seq(Messages) /\ Len(UpdateLast(s, e)) = Len(s)
          /\ \A i \in 1 .. Len(s) : UpdateLast(s, e)[i] =
               IF i = Len(s) /\ s[Len(s)].from = "assistant" THEN e ELSE s[i]
      BY <2>2, UpdateLastFacts
    <2> QED BY <2>1, <2>3
  <1>7. DOMAIN t = 1 .. k /\ (t # <<>> <=> k > 0)
    BY <1>6, ListFacts
  <1>8. ASSUME NEW i \in 1 .. k
        PROVE  /\ MessageOK(t[i], q, x, n2)
               /\ t[i].request = s[i].request /\ t[i].from = s[i].from
               /\ t[i].request > x /\ Unfinished(t[i]) =>
                    i = k /\ t[i].from = "assistant" /\ ~t[i].edited
    <2>1. s # <<>>
      BY <1>1
    <2>2. CASE i = k /\ s[k].from = "assistant"
      <3>1. t[i] = e
        BY <1>6, <2>2
      <3>2. s[k].request > x => r > x
        BY <1>1, <1>2
      <3>3. r > x => ~s[k].edited
        BY <1>1, <2>1, <2>2 DEF ListOK, EndsWith
      <3> QED BY <1>5, <2>1, <2>2, <3>1, <3>2, <3>3
    <2>3. CASE ~(i = k /\ s[k].from = "assistant")
      <3>1. t[i] = s[i]
        BY <1>6, <2>3
      <3> QED BY <1>1, <1>4, <3>1 DEF ListOK
    <2> QED BY <2>2, <2>3
  <1>9. ListOK(t, q, x, n2)
    BY <1>6, <1>7, <1>8 DEF ListOK
  <1>10. ASSUME r > x PROVE EndsWith(t, r, n2) /\ t # s
                           /\ \A i \in 1 .. k : i # k => t[i] = s[i]
    <2>1. s # <<>> /\ s[k].from = "assistant" /\ s[k].request = r /\ Len(s[k].answer) = n[r]
      BY <1>10 DEF EndsWith
    <2>2. k \in 1 .. k /\ t[k] = e
      <3>1. k > 0
        BY <1>1, <2>1
      <3> HIDE DEF k
      <3> QED BY <1>1, <1>6, <2>1, <3>1
    <2>3. n2[r] = n[r] + 1 /\ n[r] \in Nat
      BY <1>3 DEF Counts, Came
    <2>4. EndsWith(t, r, n2)
      <3>1. /\ t # <<>> /\ e.from = "assistant" /\ e.request = r
            /\ Unfinished(e) /\ Len(e.answer) = n2[r]
        BY <1>1, <1>5, <1>7, <1>10, <2>1, <2>3
      <3> QED BY <1>6, <2>2, <3>1 DEF EndsWith
    <2>5. t # s
      BY <1>5, <1>10, <2>1, <2>2, <2>3
    <2> QED BY <1>6, <2>4, <2>5
  <1> QED BY <1>6, <1>8, <1>9, <1>10

-----------------------------------------------------------------------------
(* The page. *)

(* Nothing is said of a page whose requests are all mixed. *)
LEMMA AgreeMixed ==
    ASSUME NEW s \in Seq(Messages), NEW v, NEW src, NEW f \in Nat,
           NEW q \in Nat, NEW x \in Nat, NEW n, NEW l,
           q <= x, f <= q, \A i \in 1 .. Len(s) : s[i].request <= q
    PROVE  Agree(s, v, src, f, q, x, n, l)
  <1>1. \A i \in 1 .. Len(s) : s[i].request \in Nat /\ ~(s[i].request > x)
    BY ListFacts, PartFacts
  <1> QED BY <1>1 DEF Agree

(* Nothing is under way, and the page shows it or still offers Stop. *)
LEMMA AgreeCalm ==
    ASSUME NEW s \in Seq(Messages), NEW v, NEW src, NEW q \in Nat, NEW x \in Nat, NEW n, NEW l,
           \A r \in Requests : src[r] # "open",
           \A i \in 1 .. Len(s) : s[i].request > x => ~Unfinished(s[i]) /\ Whole(s[i], n, l),
           v.generating \/ v.messages = s
    PROVE  Agree(s, v, src, Nobody, q, x, n, l)
  <1>1. \A i \in 1 .. Len(s) : s[i].request \in Nat /\ s[i].request # Nobody
    BY ListFacts, PartFacts DEF Requests, Nobody
  <1> QED BY <1>1 DEF Agree, Nobody

(* sanitizeMessagesOnLoad repairs the last message that is not finished,   *)
(* and of the requests that are not mixed there is no other.               *)
LEMMA SanitizedOK ==
    ASSUME NEW s \in Seq(Messages), NEW q \in Nat, NEW x \in Nat, NEW n \in Counts,
           ListOK(s, q, x, n), NEW u, u = Sanitized(s)
    PROVE  /\ u \in Seq(Messages) /\ ListOK(u, q, x, n)
           /\ \A i \in 1 .. Len(u) : u[i].request > x => ~Unfinished(u[i])
  <1>1. Len(s) \in Nat /\ DOMAIN s = 1 .. Len(s) /\ \A i \in 1 .. Len(s) : s[i] \in Messages
    BY ListFacts
  <1> DEFINE Repaired(m) == IF m.answer # <<>> \/ m.edited THEN [m EXCEPT !.status = "complete"]
                            ELSE WithError(m)
  <1>2. ASSUME NEW m \in Messages, Unfinished(m), MessageOK(m, q, x, n)
        PROVE  /\ Repaired(m) \in Messages /\ ~Unfinished(Repaired(m))
               /\ Repaired(m).request = m.request
               /\ MessageOK(Repaired(m), q, x, n)
    <2>1. Repaired(m) \in {Complete(m), WithError(m)}
      BY <1>2 DEF Complete
    <2> HIDE DEF Repaired
    <2> QED BY <1>2, <2>1, FinishOK
  <1>3. ASSUME NEW i \in 1 .. Len(s)
        PROVE  /\ u[i] = s[i] \/ (Unfinished(s[i]) /\ u[i] = Repaired(s[i]))
               /\ s[i].request > x /\ Unfinished(s[i]) => u[i] = Repaired(s[i])
    <2>1. s[i].request > x /\ Unfinished(s[i]) => \A j \in Stuck(s) : j <= i
      BY <1>1 DEF ListOK, Stuck
    <2>2. i \in Stuck(s) <=> Unfinished(s[i])
      BY <1>1 DEF Stuck
    <2>3. u[i] = IF i \in Stuck(s) /\ \A j \in Stuck(s) : j <= i THEN Repaired(s[i]) ELSE s[i]
      BY <1>1 DEF Sanitized
    <2> HIDE DEF Repaired
    <2> QED BY <2>1, <2>2, <2>3
  <1>4. DOMAIN u = 1 .. Len(s)
    BY <1>1 DEF Sanitized
  <1> HIDE DEF Repaired
  <1>5. ASSUME NEW i \in 1 .. Len(s)
        PROVE  /\ u[i] \in Messages /\ MessageOK(u[i], q, x, n)
               /\ u[i].request > x => ~Unfinished(u[i])
    <2>1. s[i] \in Messages /\ MessageOK(s[i], q, x, n)
      BY <1>1 DEF ListOK
    <2>2. CASE Unfinished(s[i]) /\ u[i] = Repaired(s[i])
      <3>1. Repaired(s[i]) \in Messages /\ ~Unfinished(Repaired(s[i])) /\ MessageOK(Repaired(s[i]), q, x, n)
        BY <1>2, <2>1, <2>2
      <3> QED BY <2>2, <3>1
    <2>3. CASE u[i] = s[i]
      <3>1. s[i].request > x => ~Unfinished(s[i])
        <4> SUFFICES ASSUME s[i].request > x, Unfinished(s[i]) PROVE FALSE
          OBVIOUS
        <4>1. u[i] = Repaired(s[i])
          BY <1>3
        <4> QED BY <1>2, <2>1, <2>3, <4>1
      <3> QED BY <2>1, <2>3, <3>1
    <2> QED BY <1>3, <2>2, <2>3
  <1>6. u \in [1 .. Len(s) -> Messages]
    <2>1. u = [i \in 1 .. Len(s) |-> u[i]]
      BY <1>1 DEF Sanitized
    <2> QED BY <1>5, <2>1
  <1>7. u \in Seq(Messages)
    BY <1>1, <1>6, SeqDef
  <1>8. Len(u) = Len(s)
    BY <1>1, <1>4, <1>7, ListFacts
  <1>9. ListOK(u, q, x, n)
    BY <1>4, <1>5 DEF ListOK
  <1> QED
    BY <1>5, <1>7, <1>8, <1>9

(* What the invariant says, for lists of numbers 1 to n. *)
LEMMA InvFacts ==
    ASSUME PageInv
    PROVE  /\ TypeOK /\ Numbered
           /\ messages \in Seq(Messages) /\ view.messages \in Seq(Messages) /\ saved \in Seq(Messages)
           /\ Len(messages) \in Nat /\ DOMAIN messages = 1 .. Len(messages)
           /\ Len(view.messages) \in Nat /\ DOMAIN view.messages = 1 .. Len(view.messages)
           /\ ref \in Nat /\ requests \in Nat /\ loaded \in Nat /\ mixed \in Nat /\ MaxRequests \in Nat
           /\ sent \in Counts
           /\ \A r \in Requests : r \in Nat /\ r # Nobody
           /\ \A i \in 1 .. Len(messages) : messages[i].request \in Nat /\ messages[i].request <= requests
           /\ ref <= requests
  <1>1. messages \in Seq(Messages) /\ view.messages \in Seq(Messages) /\ saved \in Seq(Messages)
    BY DEF PageInv, TypeOK
  <1>2. Len(messages) \in Nat /\ DOMAIN messages = 1 .. Len(messages)
        /\ Len(view.messages) \in Nat /\ DOMAIN view.messages = 1 .. Len(view.messages)
    BY <1>1, ListFacts
  <1>3. /\ ref \in Nat /\ requests \in Nat /\ loaded \in Nat /\ mixed \in Nat /\ MaxRequests \in Nat
        /\ sent \in Counts /\ \A r \in Requests : r \in Nat /\ r # Nobody
    <2>1. TypeOK
      BY DEF PageInv
    <2>2. ref \in Nat /\ requests \in Nat /\ loaded \in Nat /\ mixed \in Nat /\ MaxRequests \in Nat
      BY <2>1, PlaygroundAssumption DEF TypeOK, Requests, Nobody
    <2>3. sent \in Counts
      BY <2>1 DEF TypeOK, Counts
    <2>4. \A r \in Requests : r \in Nat /\ r # Nobody
      BY PlaygroundAssumption DEF Requests, Nobody
    <2> QED BY <2>2, <2>3, <2>4
  <1>4. \A i \in 1 .. Len(messages) : messages[i].request \in Nat /\ messages[i].request <= requests
    BY <1>1, <1>2, ListFacts, PartFacts DEF PageInv, Lists, ListOK, MessageOK
  <1>5. ref <= requests
    BY <1>3 DEF PageInv, Numbered, Nobody
  <1> QED
    BY <1>1, <1>2, <1>3, <1>4, <1>5 DEF PageInv

(* The messages of a page with an open source are what a draft should be:  *)
(* they end with the answer, which has all its chunks, or are all mixed.   *)
LEMMA OpenDraft ==
    ASSUME PageInv, NEW r \in Requests, source[r] = "open"
    PROVE  /\ DraftOK(r, messages, requests, mixed, sent)
           /\ mounted /\ r <= requests /\ draft[r] = {}
           /\ requests > mixed => ref = r /\ r > mixed /\ r = requests /\ r > loaded /\ view.generating
  <1>1. mounted /\ r <= requests /\ draft[r] = {} /\ r \in Nat
    BY InvFacts DEF PageInv, Away, Numbered
  <1>2. CASE requests > mixed
    <2>1. ref = r /\ r = requests /\ r > mixed /\ r > loaded /\ r # Nobody
      BY <1>1, <1>2, InvFacts DEF PageInv, Agree, Numbered
    <2> DEFINE k == Len(messages)
    <2>2. /\ k \in Nat /\ k > 0 /\ messages[k].from = "assistant" /\ messages[k].request = r
      BY <2>1, InvFacts DEF PageInv, Agree
    <2>3. k \in 1 .. k
      <3> HIDE DEF k
      <3> QED BY <2>2
    <2>4. Unfinished(messages[k]) /\ Whole(messages[k], sent, loaded)
      BY <2>1, <2>2, <2>3 DEF PageInv, Agree
    <2>5. ~messages[k].edited
      BY <2>1, <2>2, <2>3, <2>4, InvFacts DEF PageInv, Lists, ListOK
    <2>6. Len(messages[k].answer) = sent[r]
      BY <2>1, <2>2, <2>4, <2>5 DEF Whole, InPlace, Unfinished
    <2>7. messages # <<>>
      BY <2>2, InvFacts, ListFacts
    <2>8. EndsWith(messages, r, sent)
      BY <2>2, <2>4, <2>6, <2>7 DEF EndsWith
    <2>9. view.generating
      BY <1>2, <2>1, InvFacts DEF PageInv, Agree, TypeOK
    <2> QED BY <1>1, <2>1, <2>8, <2>9, InvFacts DEF DraftOK, PageInv, Lists
  <1>3. CASE ~(requests > mixed)
    <2>1. r <= mixed /\ \A i \in DOMAIN messages : messages[i].request <= mixed
      BY <1>1, <1>3, InvFacts
    <2> QED BY <1>1, <1>3, <2>1, InvFacts DEF DraftOK, PageInv, Lists
  <1> QED BY <1>2, <1>3

-----------------------------------------------------------------------------
(* The steps. *)

Editing == {NoKey} \cup ({"user", "assistant"} \X Requests)
SourceStates == {"none", "open", "left", "closed"}
Views == [messages : Seq(Messages), generating : BOOLEAN]

(* A rendering of messages is one. *)
LEMMA RenderedFacts ==
    ASSUME NEW s \in Seq(Messages), NEW f, NEW v, v = Rendered(s, f)
    PROVE  v \in Views /\ v.messages = s /\ (~v.generating <=> f = Nobody)
  BY DEF Rendered, Views

(* Lists and drafts that a step does not change, when no chunk came that   *)
(* is missing in a draft.                                                  *)
LEMMA SameLists ==
    ASSUME PageInv, requests' \in Nat, mixed' \in Nat, sent' \in Counts,
           requests <= requests', mixed <= mixed', \A r \in Requests : sent[r] <= sent'[r],
           NEW s \in {messages, view.messages, saved}
    PROVE  ListOK(s, requests', mixed', sent')
  <1>1. s \in Seq(Messages) /\ ListOK(s, requests, mixed, sent)
    BY InvFacts DEF PageInv, Lists
  <1>2. requests \in Nat /\ mixed \in Nat /\ sent \in Counts
    BY InvFacts
  <1> QED BY <1>1, <1>2, ListGrows

LEMMA SameDrafts ==
    ASSUME PageInv, requests' \in Nat, mixed' \in Nat, sent' \in Counts,
           requests <= requests', mixed <= mixed', \A p \in Requests : sent[p] <= sent'[p],
           mixed' = mixed \/ mixed' >= requests,
           NEW r \in Requests, r > mixed' => sent'[r] = sent[r], NEW s \in draft[r]
    PROVE  DraftOK(r, s, requests', mixed', sent')
  <1>1. s \in Seq(Messages) /\ DraftOK(r, s, requests, mixed, sent)
    BY InvFacts DEF PageInv, Drafts, TypeOK
  <1>2. requests \in Nat /\ mixed \in Nat /\ sent \in Counts
    BY InvFacts
  <1> QED BY <1>1, <1>2, DraftGrows

(* Steps that leave the messages alone. *)
LEMMA QuietLemma ==
    ASSUME PageInv,
           UNCHANGED <<messages, mounted, ref, complete, draft, requests, sent, loaded, mixed>>,
           changes' \in Nat, reloads' \in Nat, editing' \in Editing,
           source' \in [Requests -> SourceStates],
           \A r \in Requests : source'[r] = source[r] \/ (source[r] # "none" /\ source'[r] = "closed"),
           view' = view \/ view' = Rendered(messages, ref),
           saved' \in {saved, messages}
    PROVE  PageInv'
  <1>1. view' \in Views /\ view'.messages \in {view.messages, messages}
        /\ (~view'.generating => ~view.generating \/ (view'.messages = messages /\ ref = Nobody))
    BY InvFacts, RenderedFacts DEF TypeOK, Views
  <1>2. TypeOK'
    BY <1>1, InvFacts DEF TypeOK, Editing, SourceStates, Views
  <1>3. Numbered'
    BY InvFacts DEF Numbered
  <1>4. Away'
    BY DEF PageInv, Away
  <1>5. Lists'
    BY <1>1 DEF PageInv, Lists
  <1>6. Drafts'
    BY DEF PageInv, Drafts
  <1>7. Agree(messages, view, source, ref, requests, mixed, sent, loaded)'
    BY <1>1 DEF PageInv, Agree
  <1> QED BY <1>2, <1>3, <1>4, <1>5, <1>6, <1>7 DEF PageInv

(* handleStreamComplete, updateAssistantMessageWithError and               *)
(* stopGeneration: the last answer is finished, and of the requests that   *)
(* are not mixed nothing is under way.                                     *)
LEMMA FinishLemma ==
    ASSUME PageInv, mounted, NEW e \in {Complete(Last(messages)), WithError(Last(messages))},
           messages' = UpdateLast(messages, e), ref' = Nobody,
           source' \in [Requests -> SourceStates],
           \A r \in Requests : source'[r] = source[r] \/ (r <= requests /\ source'[r] = "closed"),
           requests > mixed => \A r \in Requests : source'[r] # "open",
           complete' \in BOOLEAN, UNCHANGED <<mounted, draft, editing, history>>,
           \/ view' = Rendered(messages', ref')
           \/ UNCHANGED view /\ (requests > mixed => view.generating),
           saved' \in {saved, messages'}
    PROVE  PageInv'
  <1>0. UNCHANGED <<requests, sent, changes, reloads, loaded, mixed>>
    BY DEF history
  <1>1. /\ messages' \in Seq(Messages) /\ Len(messages') = Len(messages)
        /\ ListOK(messages', requests, mixed, sent)
        /\ \A i \in 1 .. Len(messages) :
             /\ messages'[i].request = messages[i].request
             /\ messages[i].request > mixed => ~Unfinished(messages'[i])
             /\ \A l \in Nat : Whole(messages[i], sent, l) => Whole(messages'[i], sent, l)
    <2>1. messages \in Seq(Messages) /\ ListOK(messages, requests, mixed, sent)
          /\ requests \in Nat /\ mixed \in Nat /\ sent \in Counts
      BY InvFacts DEF PageInv, Lists
    <2> QED BY <2>1, FinishLastOK
  <1>2. view' \in Views /\ view'.messages \in {view.messages, messages'}
        /\ (requests > mixed => view'.generating \/ view'.messages = messages')
    <2>1. CASE view' = Rendered(messages', ref')
      BY <1>1, <2>1, RenderedFacts
    <2>2. CASE UNCHANGED view /\ (requests > mixed => view.generating)
      BY <2>2, InvFacts DEF TypeOK, Views
    <2> QED BY <2>1, <2>2
  <1>3. TypeOK'
    BY <1>0, <1>1, <1>2, InvFacts DEF TypeOK, SourceStates, Views
  <1>4. Numbered'
    BY <1>0, InvFacts DEF Numbered
  <1>5. Away'
    BY DEF Away
  <1>6. Lists'
    BY <1>0, <1>1, <1>2 DEF PageInv, Lists
  <1>7. Drafts'
    BY <1>0 DEF PageInv, Drafts
  <1>8. Agree(messages', view', source', Nobody, requests, mixed, sent, loaded)
    <2>1. CASE requests > mixed
      <3>1. \A i \in 1 .. Len(messages') : messages'[i].request > mixed =>
               ~Unfinished(messages'[i]) /\ Whole(messages'[i], sent, loaded)
        BY <1>1, InvFacts DEF PageInv, Agree
      <3> QED BY <1>1, <1>2, <2>1, <3>1, InvFacts, AgreeCalm
    <2>2. CASE ~(requests > mixed)
      <3>1. requests <= mixed /\ Nobody \in Nat /\ Nobody <= requests
            /\ \A i \in 1 .. Len(messages') : messages'[i].request <= requests
        BY <1>1, <2>2, InvFacts DEF Nobody
      <3> QED BY <1>1, <3>1, InvFacts, AgreeMixed
    <2> QED BY <2>1, <2>2
  <1> QED BY <1>0, <1>3, <1>4, <1>5, <1>6, <1>7, <1>8 DEF PageInv

(* One more chunk is counted. *)
LEMMA CameFacts ==
    ASSUME PageInv, NEW r \in Requests, sent' = [sent EXCEPT ![r] = @ + 1]
    PROVE  /\ sent' \in Counts /\ sent' = Came(r, sent)
           /\ \A p \in Requests : sent[p] <= sent'[p] /\ (p # r => sent'[p] = sent[p])
           /\ sent[r] \in Nat /\ sent'[r] = sent[r] + 1
  BY InvFacts DEF Counts, Came

(* handleStreamUpdate: the chunk belongs to the last answer, and is its    *)
(* next one, unless its request is mixed.                                  *)
LEMMA ChunkLemma ==
    ASSUME PageInv, NEW r \in Requests, Chunk(r)
    PROVE  PageInv'
  <1> DEFINE k == Len(messages)
  <1>0. /\ source[r] = "open" /\ sent' = [sent EXCEPT ![r] = @ + 1]
        /\ messages' = UpdateLast(messages, AddChunk(Last(messages), <<r, sent[r] + 1>>))
        /\ saved' \in {saved, messages'}
        /\ UNCHANGED <<view, mounted, source, ref, complete, draft, editing, requests, changes,
                       reloads, loaded, mixed>>
    BY DEF Chunk, Updated, stream
  <1>1. /\ DraftOK(r, messages, requests, mixed, sent) /\ mounted /\ r <= requests /\ draft[r] = {}
        /\ requests > mixed => ref = r /\ r > mixed /\ r = requests /\ r > loaded /\ view.generating
    BY <1>0, OpenDraft
  <1>2. /\ sent' \in Counts /\ sent' = Came(r, sent)
        /\ \A p \in Requests : sent[p] <= sent'[p] /\ (p # r => sent'[p] = sent[p])
        /\ sent[r] \in Nat /\ sent'[r] = sent[r] + 1
    BY <1>0, CameFacts
  <1>3. /\ messages' \in Seq(Messages) /\ Len(messages') = k /\ ListOK(messages', requests, mixed, sent')
        /\ \A i \in 1 .. k : messages'[i].request = messages[i].request
                             /\ messages'[i].from = messages[i].from
        /\ r > mixed => EndsWith(messages', r, sent')
        /\ r > mixed => \A i \in 1 .. k : i # k => messages'[i] = messages[i]
    <2>1. /\ messages \in Seq(Messages) /\ ListOK(messages, requests, mixed, sent)
          /\ requests \in Nat /\ mixed \in Nat /\ sent \in Counts
      BY InvFacts DEF PageInv, Lists
    <2>2. /\ r > mixed => EndsWith(messages, r, sent)
          /\ r <= mixed => \A i \in DOMAIN messages : messages[i].request <= mixed
      BY <1>1 DEF DraftOK
    <2>3. messages' = UpdateLast(messages, AddChunk(Last(messages), <<r, sent[r] + 1>>))
          /\ sent' \in Counts /\ sent' = Came(r, sent)
      BY <1>0, <1>2
    <2> QED BY <2>1, <2>2, <2>3, ChunkLastOK
  <1>4. TypeOK'
    BY <1>0, <1>2, <1>3, InvFacts DEF TypeOK, Counts
  <1>5. Numbered'
    BY <1>0, <1>1, <1>2, InvFacts DEF Numbered
  <1>6. Away'
    BY <1>0, <1>1 DEF Away
  <1>7. requests <= requests' /\ mixed <= mixed' /\ requests' \in Nat /\ mixed' \in Nat
    BY <1>0, InvFacts
  <1>8. Lists'
    <2>1. ListOK(view.messages, requests', mixed', sent') /\ ListOK(saved, requests', mixed', sent')
      BY <1>2, <1>7, SameLists
    <2> QED BY <1>0, <1>3, <2>1 DEF Lists
  <1>9. Drafts'
    <2> SUFFICES ASSUME NEW p \in Requests, NEW s \in draft[p]
                 PROVE  DraftOK(p, s, requests', mixed', sent')
      BY <1>0 DEF Drafts
    <2>1. p # r
      BY <1>1
    <2> QED BY <1>0, <1>2, <1>7, <2>1, SameDrafts
  <1>10. Agree(messages', view, source, ref, requests, mixed, sent', loaded)
    <2>1. CASE requests > mixed
      <3>1. ref = r /\ r > mixed /\ r # Nobody /\ view.generating
        BY <1>1, <2>1, InvFacts
      <3>2. k > 0 /\ messages'[k].from = "assistant" /\ messages'[k].request = r
            /\ Unfinished(messages'[k]) /\ Len(messages'[k].answer) = sent'[r]
        BY <1>3, <3>1, ListFacts DEF EndsWith
      <3>3. ASSUME NEW i \in 1 .. Len(messages'), messages'[i].request > mixed
            PROVE  /\ Unfinished(messages'[i]) <=> i = Len(messages')
                   /\ Whole(messages'[i], sent', loaded)
                   /\ messages'[i].from = "assistant" /\ messages'[i].request = r => i = Len(messages')
        <4>1. CASE i = k
          <5>1. messages'[i] = messages'[k]
            BY <4>1
          <5> QED BY <1>3, <3>2, <4>1, <5>1 DEF Whole
        <4>2. CASE i # k
          <5>1. i \in 1 .. k /\ messages'[i] = messages[i]
            BY <1>3, <3>1, <4>2
          <5>2. /\ ~Unfinished(messages[i]) /\ Whole(messages[i], sent, loaded)
                /\ ~(messages[i].from = "assistant" /\ messages[i].request = r)
            BY <3>1, <3>3, <4>2, <5>1 DEF PageInv, Agree
          <5>3. messages[i] \in Messages /\ messages[i].request \in Requests
            BY <5>1, InvFacts, ListFacts, PartFacts
          <5>4. Whole(messages[i], sent', loaded)
            BY <1>2, <5>2, <5>3 DEF Whole, InPlace
          <5> QED BY <1>3, <4>2, <5>1, <5>2, <5>4
        <4> QED BY <4>1, <4>2
      <3>4. \A p \in Requests : source[p] = "open" => ref = p \/ requests <= mixed
        BY DEF PageInv, Agree
      <3> HIDE DEF k
      <3> QED BY <1>3, <3>1, <3>2, <3>3, <3>4 DEF Agree
    <2>2. CASE ~(requests > mixed)
      <3>1. requests <= mixed /\ \A i \in 1 .. Len(messages') : messages'[i].request <= requests
        BY <1>3, <2>2, InvFacts
      <3> QED BY <1>3, <3>1, InvFacts, AgreeMixed
    <2> QED BY <2>1, <2>2
  <1> QED BY <1>0, <1>4, <1>5, <1>6, <1>8, <1>9, <1>10 DEF PageInv

(* A callback whose page is gone: the saved messages may be overwritten,   *)
(* and a draft is used once.                                               *)
LEMMA LateLemma ==
    ASSUME PageInv, NEW r \in Requests, source[r] = "left",
           source' = source \/ source' = [source EXCEPT ![r] = "closed"],
           sent' = sent \/ sent' = [sent EXCEPT ![r] = @ + 1],
           UNCHANGED <<messages, view, mounted, ref, complete, editing, requests, changes, reloads,
                       loaded, mixed>>,
           saved' \in Seq(Messages), ListOK(saved', requests, mixed, sent'),
           \/ UNCHANGED draft
           \/ draft' = [draft EXCEPT ![r] = {}],
           draft'[r] # {} /\ r > mixed => sent' = sent
    PROVE  PageInv'
  <1>1. r <= loaded /\ r \in Nat
    BY InvFacts DEF Numbered
  <1>2. /\ sent' \in Counts
        /\ \A p \in Requests : sent[p] <= sent'[p] /\ (p # r => sent'[p] = sent[p])
        /\ \A p \in Requests : p > requests => sent'[p] = 0
    <2>1. CASE sent' = sent
      BY <2>1, InvFacts DEF Counts, Numbered
    <2>2. CASE sent' = [sent EXCEPT ![r] = @ + 1]
      BY <1>1, <2>2, CameFacts, InvFacts DEF Numbered
    <2> QED BY <2>1, <2>2
  <1>3. /\ source' \in [Requests -> SourceStates]
        /\ \A p \in Requests : source'[p] = source[p] \/ (source[p] = "left" /\ source'[p] = "closed")
    BY InvFacts DEF TypeOK, SourceStates
  <1>4. draft' \in [Requests -> SUBSET Seq(Messages)]
        /\ \A p \in Requests : draft'[p] = draft[p] \/ (p = r /\ draft'[p] = {})
    BY InvFacts DEF TypeOK
  <1>5. TypeOK'
    BY <1>2, <1>3, <1>4, InvFacts DEF TypeOK, Counts, SourceStates
  <1>6. Numbered'
    BY <1>2, <1>3, <1>4, InvFacts DEF Numbered
  <1>7. Away'
    BY <1>3 DEF PageInv, Away
  <1>8. requests <= requests' /\ mixed <= mixed' /\ requests' \in Nat /\ mixed' \in Nat
    BY InvFacts
  <1>9. Lists'
    <2>1. ListOK(messages, requests', mixed', sent') /\ ListOK(view.messages, requests', mixed', sent')
      BY <1>2, <1>8, SameLists
    <2> QED BY <2>1 DEF Lists
  <1>10. Drafts'
    <2> SUFFICES ASSUME NEW p \in Requests, NEW s \in draft'[p]
                 PROVE  DraftOK(p, s, requests', mixed', sent')
      BY DEF Drafts
    <2>1. s \in draft[p] /\ (p > mixed' => sent'[p] = sent[p])
      BY <1>2, <1>4
    <2> QED BY <1>2, <1>8, <2>1, SameDrafts
  <1>11. Agree(messages, view, source', ref, requests, mixed, sent', loaded)
    <2>1. ASSUME NEW i \in 1 .. Len(messages), Whole(messages[i], sent, loaded)
          PROVE  Whole(messages[i], sent', loaded)
      <3>1. messages[i].request \in Requests /\ messages[i].request \in Nat
        BY InvFacts, ListFacts, PartFacts
      <3> QED BY <1>1, <1>2, <2>1, <3>1, InvFacts DEF Whole
    <2> QED BY <1>3, <2>1 DEF PageInv, Agree
  <1> QED BY <1>5, <1>6, <1>7, <1>9, <1>10, <1>11 DEF PageInv

(* A chunk, the end or an error that comes when the page is gone. *)
LEMMA LateCallbackLemma ==
    ASSUME PageInv, NEW r \in Requests, LateChunk(r) \/ LateEnd(r)
    PROVE  PageInv'
  <1>0. /\ saved \in Seq(Messages) /\ ListOK(saved, requests, mixed, sent)
        /\ requests \in Nat /\ mixed \in Nat /\ sent \in Counts /\ loaded \in Nat
    BY InvFacts DEF PageInv, Lists
  <1>1. CASE LateChunk(r)
    <2>1. /\ source[r] = "left" /\ sent' = [sent EXCEPT ![r] = @ + 1]
          /\ UNCHANGED <<messages, view, mounted, source, ref, complete, editing, requests, changes,
                         reloads, loaded, mixed>>
      BY <1>1 DEF LateChunk, stream
    <2>2. /\ sent' \in Counts /\ sent' = Came(r, sent)
          /\ \A p \in Requests : sent[p] <= sent'[p]
      BY <2>1, CameFacts
    <2>3. CASE UpdateDropped(r)
      <3>1. ListOK(saved, requests', mixed', sent')
        BY <1>0, <2>1, <2>2, SameLists
      <3> QED BY <1>0, <2>1, <2>3, <3>1, LateLemma DEF UpdateDropped
    <2>4. ASSUME NEW s \in draft[r], UpdateDraft(r, s, AddChunk(Last(s), <<r, sent[r] + 1>>))
          PROVE  PageInv'
      <3>1. s \in Seq(Messages) /\ DraftOK(r, s, requests, mixed, sent)
        BY InvFacts DEF PageInv, Drafts, TypeOK
      <3>2. saved' = UpdateLast(s, AddChunk(Last(s), <<r, sent[r] + 1>>))
            /\ draft' = [draft EXCEPT ![r] = IF saved' = s THEN @ ELSE {}]
        BY <2>4 DEF UpdateDraft
      <3>3. /\ saved' \in Seq(Messages) /\ ListOK(saved', requests, mixed, sent')
            /\ r > mixed => saved' # s
        <4>1. /\ ListOK(s, requests, mixed, sent) /\ (r > mixed => EndsWith(s, r, sent))
              /\ r <= mixed => \A i \in DOMAIN s : s[i].request <= mixed
          BY <3>1 DEF DraftOK
        <4> QED BY <1>0, <2>2, <3>1, <3>2, <4>1, ChunkLastOK
      <3>4. draft \in [Requests -> SUBSET Seq(Messages)]
        BY InvFacts DEF TypeOK
      <3>5. draft' = draft \/ draft' = [draft EXCEPT ![r] = {}]
        BY <3>2, <3>4
      <3>6. r > mixed => draft'[r] = {}
        BY <3>2, <3>3, <3>4
      <3> QED BY <2>1, <3>3, <3>5, <3>6, LateLemma
    <2> QED BY <1>1, <2>3, <2>4 DEF LateChunk
  <1>2. CASE LateEnd(r)
    <2>1. /\ source[r] = "left" /\ source' = [source EXCEPT ![r] = "closed"]
          /\ UNCHANGED <<messages, view, mounted, ref, complete, editing, requests, sent, changes,
                         reloads, loaded, mixed>>
      BY <1>2 DEF LateEnd, history
    <2>2. CASE UpdateDropped(r)
      <3> QED BY <1>0, <2>1, <2>2, LateLemma DEF UpdateDropped
    <2>3. ASSUME NEW s \in draft[r], NEW e \in {Complete(Last(s)), WithError(Last(s))},
                 UpdateDraft(r, s, e)
          PROVE  PageInv'
      <3>1. s \in Seq(Messages) /\ ListOK(s, requests, mixed, sent)
        BY InvFacts DEF PageInv, Drafts, TypeOK, DraftOK
      <3>2. saved' = UpdateLast(s, e) /\ draft' = [draft EXCEPT ![r] = IF saved' = s THEN @ ELSE {}]
        BY <2>3 DEF UpdateDraft
      <3>3. saved' \in Seq(Messages) /\ ListOK(saved', requests, mixed, sent)
        BY <1>0, <3>1, <3>2, FinishLastOK
      <3>4. draft \in [Requests -> SUBSET Seq(Messages)]
        BY InvFacts DEF TypeOK
      <3>5. draft' = draft \/ draft' = [draft EXCEPT ![r] = {}]
        BY <3>2, <3>4
      <3> QED BY <2>1, <3>3, <3>5, LateLemma
    <2> QED BY <1>2, <2>2, <2>3 DEF LateEnd
  <1> QED BY <1>1, <1>2

(* The messages that a button acts on: while the page does not offer Stop  *)
(* they are those of now, and finished; otherwise all requests so far      *)
(* become mixed.                                                           *)
Kept(m, q, x, n, l) == MessageOK(m, q, x, n) /\ (m.request > x => ~Unfinished(m) /\ Whole(m, n, l))

LEMMA Pressed ==
    ASSUME PageInv, NEW x \in Nat, mixed <= x, x >= requests \/ (x = mixed /\ ~view.generating),
           NEW i \in 1 .. Len(view.messages)
    PROVE  view.messages[i] \in Messages /\ Kept(view.messages[i], requests, x, sent, loaded)
  <1>1. /\ view.messages[i] \in Messages /\ view.messages[i].request \in Nat
        /\ MessageOK(view.messages[i], requests, mixed, sent)
    BY InvFacts, ListFacts, PartFacts DEF PageInv, Lists, ListOK
  <1>2. MessageOK(view.messages[i], requests, x, sent)
    BY <1>1, InvFacts DEF MessageOK
  <1>3. view.messages[i].request > x =>
          ~Unfinished(view.messages[i]) /\ Whole(view.messages[i], sent, loaded)
    <2> SUFFICES ASSUME view.messages[i].request > x
                 PROVE  ~Unfinished(view.messages[i]) /\ Whole(view.messages[i], sent, loaded)
      OBVIOUS
    <2>1. requests > mixed /\ ~view.generating /\ x = mixed
      BY <1>1, InvFacts DEF MessageOK
    <2>2. view.messages = messages /\ ref = Nobody
      BY <2>1 DEF PageInv, Agree
    <2> QED BY <2>1, <2>2 DEF PageInv, Agree
  <1> QED BY <1>1, <1>2, <1>3 DEF Kept

(* A page with a message is there. *)
LEMMA PageIsThere ==
    ASSUME PageInv, view.generating \/ \E i \in DOMAIN view.messages : TRUE
    PROVE  mounted
  <1> SUFFICES ASSUME ~mounted PROVE FALSE
    OBVIOUS
  <1>1. view = Rendered(<<>>, Nobody)
    BY DEF PageInv, Away
  <1>2. <<>> \in Seq(Messages)
    BY EmptySeq
  <1>3. ~view.generating /\ view.messages = <<>>
    BY <1>1 DEF Rendered
  <1>4. DOMAIN view.messages = {}
    BY <1>3
  <1> QED BY <1>3, <1>4

(* handleDeleteMessage and a changed text: what may stay is shown. *)
LEMMA ShowLemma ==
    ASSUME PageInv, mounted, NEW s \in Seq(Messages),
           \A i \in 1 .. Len(s) : Kept(s[i], requests, mixed', sent, loaded),
           UpdateMessages(s), editing' \in Editing, changes' \in Nat,
           (mixed' = mixed /\ ~view.generating) \/ mixed' = requests
    PROVE  PageInv'
  <1>0. /\ messages' = s /\ saved' = s /\ view' = Rendered(s, ref)
        /\ UNCHANGED <<mounted, source, ref, complete, draft, requests, sent, reloads, loaded>>
    BY DEF UpdateMessages, stream
  <1>1. mixed' \in Nat /\ mixed <= mixed' /\ mixed' <= requests /\ mixed' \in 0 .. MaxRequests
    BY InvFacts DEF Numbered, TypeOK
  <1>2. view' \in Views /\ view'.messages = s /\ (~view'.generating <=> ref = Nobody)
    BY <1>0, RenderedFacts
  <1>3. TypeOK'
    BY <1>0, <1>1, <1>2, InvFacts DEF TypeOK, Editing, Views
  <1>4. Numbered'
    BY <1>0, <1>1, InvFacts DEF Numbered
  <1>5. Away'
    BY <1>0 DEF Away
  <1>6. DOMAIN s = 1 .. Len(s) /\ \A i \in 1 .. Len(s) : s[i] \in Messages /\ s[i].request \in Nat
    BY ListFacts, PartFacts
  <1>7. ListOK(s, requests, mixed', sent)
    BY <1>6 DEF ListOK, Kept
  <1>8. Lists'
    BY <1>0, <1>2, <1>7 DEF Lists
  <1>9. Drafts'
    <2> SUFFICES ASSUME NEW p \in Requests, NEW d \in draft[p]
                 PROVE  DraftOK(p, d, requests', mixed', sent')
      BY <1>0 DEF Drafts
    <2>1. requests' \in Nat /\ requests <= requests' /\ sent' \in Counts /\ sent'[p] = sent[p]
          /\ \A r \in Requests : sent[r] <= sent'[r]
      BY <1>0, InvFacts DEF Counts
    <2>2. mixed' = mixed \/ mixed' >= requests
      BY InvFacts
    <2> QED BY <1>1, <2>1, <2>2, SameDrafts
  <1>10. Agree(s, view', source, ref, requests, mixed', sent, loaded)
    <2>1. CASE requests > mixed'
      <3>1. mixed' = mixed /\ ~view.generating /\ requests > mixed
        BY <2>1, InvFacts
      <3>2. ref = Nobody /\ \A r \in Requests : source[r] # "open"
        BY <3>1, InvFacts DEF PageInv, Agree
      <3>3. \A i \in 1 .. Len(s) : s[i].request > mixed' => ~Unfinished(s[i]) /\ Whole(s[i], sent, loaded)
        BY DEF Kept
      <3>4. Agree(s, view', source, Nobody, requests, mixed', sent, loaded)
        BY <1>1, <1>2, <3>2, <3>3, InvFacts, AgreeCalm
      <3> QED BY <3>2, <3>4
    <2>2. CASE ~(requests > mixed')
      <3>1. requests <= mixed' /\ \A i \in 1 .. Len(s) : s[i].request <= requests
        BY <1>1, <2>2, InvFacts DEF Kept, MessageOK
      <3> QED BY <1>1, <3>1, InvFacts, AgreeMixed
    <2> QED BY <2>1, <2>2
  <1> QED BY <1>0, <1>3, <1>4, <1>5, <1>8, <1>9, <1>10 DEF PageInv

(* A text that was changed, and one message taken out. *)
LEMMA ChangeLemma ==
    ASSUME PageInv, NEW i \in DOMAIN view.messages, Delete(i) \/ SaveEdit(i)
    PROVE  PageInv'
  <1> DEFINE s == view.messages
  <1>1. s \in Seq(Messages) /\ i \in 1 .. Len(s) /\ Len(s) \in Nat /\ mounted /\ changes \in Nat
    BY InvFacts, PageIsThere DEF TypeOK
  <1>2. mixed' \in Nat /\ mixed <= mixed' /\ ((mixed' = mixed /\ ~view.generating) \/ mixed' = requests)
    BY InvFacts DEF Delete, SaveEdit, Enabled, Numbered
  <1>3. mixed' >= requests \/ (mixed' = mixed /\ ~view.generating)
    BY <1>2, InvFacts
  <1>4. \A j \in 1 .. Len(s) : s[j] \in Messages /\ Kept(s[j], requests, mixed', sent, loaded)
    BY <1>2, <1>3, Pressed
  <1> HIDE DEF s
  <1>5. CASE Delete(i)
    <2>1. UpdateMessages(RemoveAt(s, i)) /\ editing' \in Editing /\ changes' \in Nat
      BY <1>1, <1>5, InvFacts DEF Delete, TypeOK, Editing, s
    <2>2. /\ RemoveAt(s, i) \in Seq(Messages)
          /\ \A k \in 1 .. Len(RemoveAt(s, i)) : \E j \in 1 .. Len(s) : RemoveAt(s, i)[k] = s[j]
      BY <1>1, RemoveFacts
    <2>3. \A k \in 1 .. Len(RemoveAt(s, i)) : Kept(RemoveAt(s, i)[k], requests, mixed', sent, loaded)
      BY <1>4, <2>2
    <2> QED BY <1>1, <1>2, <2>1, <2>2, <2>3, ShowLemma
  <1>6. CASE SaveEdit(i)
    <2> DEFINE e == [s[i] EXCEPT !.answer = <<>>, !.edited = TRUE]
               p == [s EXCEPT ![i] = e]
    <2>1. <<>> \in Seq(Requests \X Nat)
      BY EmptySeq
    <2>2. /\ e \in Messages /\ e.status = s[i].status /\ e.request = s[i].request
          /\ e.edited /\ e.answer = <<>>
      BY <1>1, <1>4, <2>1 DEF Messages
    <2>3. [s EXCEPT ![i].answer = <<>>, ![i].edited = TRUE] = p
      BY <1>1, <1>4, ListFacts DEF Messages
    <2>4. UpdateMessages(p) /\ editing' \in Editing /\ changes' \in Nat
      <3>1. /\ UpdateMessages([s EXCEPT ![i].answer = <<>>, ![i].edited = TRUE])
            /\ editing' = NoKey /\ changes' = changes
        BY <1>6 DEF SaveEdit, s
      <3> QED BY <1>1, <2>3, <3>1 DEF Editing
    <2> HIDE DEF e
    <2>5. /\ p \in Seq(Messages) /\ Len(p) = Len(s)
          /\ \A j \in 1 .. Len(s) : p[j] = IF j = i THEN e ELSE s[j]
      BY <1>1, <2>2, ExceptSeq
    <2> HIDE DEF p
    <2>6. Kept(e, requests, mixed', sent, loaded)
      BY <1>1, <1>4, <2>2 DEF Kept, MessageOK, Rising, Ordered, Whole, InPlace, Unfinished
    <2>7. \A j \in 1 .. Len(p) : Kept(p[j], requests, mixed', sent, loaded)
      BY <1>4, <2>5, <2>6
    <2> QED BY <1>1, <1>2, <2>4, <2>5, <2>7, ShowLemma
  <1> QED
    BY <1>5, <1>6

(* sendChat: a new answer at the end of what may stay, or an error. *)
LEMMA SendLemma ==
    ASSUME PageInv, mounted, NEW p \in Seq(Messages), NEW r \in Nat, r = requests + 1,
           \A i \in 1 .. Len(p) :
             /\ Kept(p[i], r, mixed', sent, loaded)
             /\ p[i].from = "assistant" => p[i].request <= requests,
           SendChat(Append(p, LoadingMessage(r)), r), editing' \in Editing
    PROVE  PageInv'
  <1> DEFINE k == Len(p) + 1
             m == LoadingMessage(r)
             list == Append(p, m)
  <1>0. /\ r \in Requests /\ r # Nobody /\ requests' = r /\ complete' = FALSE
        /\ view' = Rendered(messages', ref') /\ saved' = messages'
        /\ UNCHANGED <<mounted, draft, sent, changes, reloads, loaded>>
    BY InvFacts DEF SendChat, Nobody
  <1>1. /\ mixed' \in Nat /\ mixed <= mixed' /\ mixed' <= r /\ mixed' \in 0 .. MaxRequests
        /\ requests' \in 0 .. MaxRequests
        /\ mixed' = mixed \/ mixed' >= requests
        /\ r > mixed' => \A p1 \in Requests : source[p1] # "open"
    <2>1. mixed' = IF \E p1 \in Requests : source[p1] = "open" THEN r
                   ELSE IF view.generating THEN r - 1 ELSE mixed
      BY DEF SendChat
    <2>2. r \in 0 .. MaxRequests /\ requests \in 0 .. MaxRequests /\ mixed \in 0 .. MaxRequests
          /\ mixed <= requests
      BY <1>0, InvFacts DEF TypeOK, Requests, Numbered
    <2> QED BY <1>0, <2>1, <2>2, InvFacts
  <1>2. /\ m \in Messages /\ Unfinished(m) /\ ~m.edited /\ m.from = "assistant"
        /\ m.request = r /\ m.answer = <<>> /\ Len(m.answer) = 0
    <2>1. <<>> \in Seq(Requests \X Nat)
      BY EmptySeq
    <2> QED
      BY <1>0, <2>1 DEF LoadingMessage, Messages, Unfinished
  <1>3. sent[r] = 0 /\ r > loaded /\ source[r] = "none" /\ draft[r] = {}
    BY <1>0, InvFacts DEF Numbered
  <1>4. MessageOK(m, r, mixed', sent) /\ Whole(m, sent, loaded)
    BY <1>2, <1>3 DEF MessageOK, Rising, Ordered, Whole
  <1>5. /\ list \in Seq(Messages) /\ Len(list) = k /\ k \in Nat /\ k > 0
        /\ \A i \in 1 .. k : list[i] = IF i = k THEN m ELSE p[i]
    <2> HIDE DEF m
    <2> QED BY <1>2, AppendProperties, ListFacts
  <1>6. SendChat(list, r)
    OBVIOUS
  <1> HIDE DEF m, list
  <1>7. ASSUME NEW i \in 1 .. k, i # k
        PROVE  /\ Kept(list[i], r, mixed', sent, loaded)
               /\ list[i].from = "assistant" => list[i].request # r
    <2>1. i \in 1 .. Len(p) /\ list[i] = p[i]
      BY <1>5, <1>7, ListFacts
    <2>2. p[i].request \in Nat
      BY <2>1, ListFacts, PartFacts
    <2> QED BY <2>1, <2>2, InvFacts
  <1>8. DOMAIN list = 1 .. k
    BY <1>5, ListFacts
  <1>9. ListOK(list, r, mixed', sent)
    <2> SUFFICES ASSUME NEW i \in 1 .. k
                 PROVE  /\ MessageOK(list[i], r, mixed', sent)
                        /\ list[i].request > mixed' /\ Unfinished(list[i]) =>
                             i = k /\ list[i].from = "assistant" /\ ~list[i].edited
      BY <1>5, <1>8 DEF ListOK
    <2>1. CASE i = k
      <3>1. list[i] = m
        BY <1>5, <2>1
      <3> QED BY <1>2, <1>4, <2>1, <3>1
    <2>2. CASE i # k
      BY <1>7, <2>2 DEF Kept
    <2> QED BY <2>1, <2>2
  <1>10. \A i \in 1 .. k : list[i].request <= r /\ list[i].request \in Nat
    BY <1>5, <1>8, <1>9, ListFacts, PartFacts DEF ListOK, MessageOK
  <1>11. Away'
    BY <1>0 DEF Away
  <1>12. Drafts'
    <2> SUFFICES ASSUME NEW a \in Requests, NEW d \in draft[a]
                 PROVE  DraftOK(a, d, requests', mixed', sent')
      BY <1>0 DEF Drafts
    <2>1. requests' \in Nat /\ requests <= requests' /\ sent' \in Counts /\ sent'[a] = sent[a]
          /\ \A b \in Requests : sent[b] <= sent'[b]
      BY <1>0, InvFacts DEF Counts
    <2> QED BY <1>1, <2>1, SameDrafts
  <1>13. CASE source' = [source EXCEPT ![r] = "open"] /\ ref' = r /\ messages' = list
    <2>1. view' \in Views /\ view'.messages = list /\ view'.generating
      BY <1>0, <1>5, <1>13, RenderedFacts DEF Views
    <2>2. source' \in [Requests -> SourceStates] /\ source'[r] = "open"
          /\ \A a \in Requests : a # r => source'[a] = source[a]
      BY <1>0, <1>13, InvFacts DEF TypeOK, SourceStates
    <2>3. TypeOK'
      <3>1. messages' \in Seq(Messages) /\ saved' \in Seq(Messages) /\ ref' \in Requests \cup {Nobody}
        BY <1>0, <1>5, <1>13
      <3> QED BY <1>0, <1>1, <2>1, <2>2, <3>1, InvFacts DEF TypeOK, Editing, SourceStates, Views
    <2>4. Numbered'
      <3>1. loaded' <= requests' /\ mixed' <= requests' /\ ref' = requests' /\ ref' > loaded'
        BY <1>0, <1>1, <1>3, <1>13, InvFacts DEF Numbered
      <3>2. ASSUME NEW a \in Requests
            PROVE  /\ a > requests' => sent'[a] = 0 /\ source'[a] = "none"
                   /\ source'[a] = "left" => a <= loaded'
                   /\ draft'[a] # {} => source'[a] \in {"left", "closed"}
        <4>1. CASE a = r
          <5>1. ~(a > requests') /\ source'[a] = "open" /\ draft'[a] = {}
            BY <1>0, <1>3, <2>2, <4>1
          <5> QED BY <5>1
        <4>2. CASE a # r
          <5>1. a \in Nat /\ (a > requests' => a > requests)
            BY <1>0, InvFacts
          <5>2. source'[a] = source[a] /\ sent' = sent /\ draft' = draft /\ loaded' = loaded /\ Numbered
            BY <1>0, <2>2, <4>2, InvFacts
          <5> QED BY <5>1, <5>2 DEF Numbered
        <4> QED BY <4>1, <4>2
      <3> QED BY <3>1, <3>2 DEF Numbered
    <2>5. Lists'
      BY <1>0, <1>9, <1>13, <2>1 DEF Lists
    <2>6. Agree(list, view', source', r, r, mixed', sent, loaded)
      <3>1. CASE r > mixed'
        <4>1. ASSUME NEW i \in 1 .. Len(list), list[i].request > mixed'
              PROVE  /\ Unfinished(list[i]) <=> i = Len(list)
                     /\ Whole(list[i], sent, loaded)
                     /\ list[i].from = "assistant" /\ list[i].request = r => i = Len(list)
          <5>1. CASE i = k
            <6>1. list[i] = m
              BY <1>5, <5>1
            <6> QED BY <1>2, <1>4, <1>5, <5>1, <6>1
          <5>2. CASE i # k
            <6>1. i \in 1 .. k
              BY <1>5
            <6> QED BY <1>5, <1>7, <4>1, <5>2, <6>1 DEF Kept
          <5> QED BY <5>1, <5>2
        <4>2. Len(list) > 0 /\ list[Len(list)].from = "assistant" /\ list[Len(list)].request = r
          <5>1. list[Len(list)] = m
            BY <1>5
          <5> QED BY <1>2, <1>5, <5>1
        <4>3. \A a \in Requests : source'[a] = "open" => r = a
          BY <1>1, <2>2, <3>1
        <4> QED BY <1>0, <2>1, <4>1, <4>2, <4>3 DEF Agree
      <3>2. CASE ~(r > mixed')
        <4>1. r <= mixed' /\ r <= r /\ \A i \in 1 .. Len(list) : list[i].request <= r
          BY <1>1, <1>5, <1>10, <3>2
        <4> QED BY <1>1, <1>5, <4>1, AgreeMixed
      <3> QED BY <3>1, <3>2
    <2> QED BY <1>0, <1>11, <1>12, <1>13, <2>3, <2>4, <2>5, <2>6 DEF PageInv
  <1>14. CASE /\ source' = [source EXCEPT ![r] = "closed"] /\ ref' = Nobody
             /\ messages' = UpdateLast(list, WithError(Last(list)))
    <2>1. /\ messages' \in Seq(Messages) /\ Len(messages') = k
          /\ ListOK(messages', r, mixed', sent)
          /\ \A i \in 1 .. k :
               /\ messages'[i].request = list[i].request
               /\ list[i].request > mixed' => ~Unfinished(messages'[i])
               /\ \A l \in Nat : Whole(list[i], sent, l) => Whole(messages'[i], sent, l)
      <3>1. PICK e \in {Complete(Last(list)), WithError(Last(list))} : e = WithError(Last(list))
        OBVIOUS
      <3>2. messages' = UpdateLast(list, e)
        BY <1>14, <3>1
      <3>3. list \in Seq(Messages) /\ sent \in Counts /\ mixed' \in Nat
        BY <1>1, <1>5, InvFacts
      <3>4. /\ messages' \in Seq(Messages) /\ Len(messages') = Len(list)
            /\ ListOK(messages', r, mixed', sent)
            /\ \A i \in 1 .. Len(list) :
                 /\ messages'[i].request = list[i].request
                 /\ list[i].request > mixed' => ~Unfinished(messages'[i])
                 /\ \A l \in Nat : Whole(list[i], sent, l) => Whole(messages'[i], sent, l)
        <4> HIDE DEF k
        <4> QED BY <1>9, <3>2, <3>3, FinishLastOK
      <3> QED BY <1>5, <3>4
    <2>2. view' \in Views /\ view'.messages = messages'
      BY <1>0, <2>1, RenderedFacts
    <2>3. source' \in [Requests -> SourceStates] /\ source'[r] = "closed"
          /\ \A a \in Requests : a # r => source'[a] = source[a]
      BY <1>0, <1>14, InvFacts DEF TypeOK, SourceStates
    <2>4. TypeOK'
      <3>1. messages' \in Seq(Messages) /\ saved' \in Seq(Messages) /\ ref' \in Requests \cup {Nobody}
        BY <1>0, <1>14, <2>1
      <3> QED BY <1>0, <1>1, <2>2, <2>3, <3>1, InvFacts DEF TypeOK, Editing, SourceStates, Views
    <2>5. Numbered'
      BY <1>0, <1>1, <1>3, <1>14, <2>3, InvFacts DEF Numbered
    <2>6. Lists'
      BY <1>0, <2>1, <2>2 DEF Lists
    <2>7. Agree(messages', view', source', Nobody, r, mixed', sent, loaded)
      <3>1. CASE r > mixed'
        <4>1. \A a \in Requests : source'[a] # "open"
          BY <1>1, <2>3, <3>1
        <4>2. \A i \in 1 .. Len(messages') : messages'[i].request > mixed' =>
                 ~Unfinished(messages'[i]) /\ Whole(messages'[i], sent, loaded)
          <5> SUFFICES ASSUME NEW i \in 1 .. k, messages'[i].request > mixed'
                       PROVE  ~Unfinished(messages'[i]) /\ Whole(messages'[i], sent, loaded)
            BY <2>1
          <5>1. Whole(list[i], sent, loaded)
            <6>1. CASE i = k
              BY <1>4, <1>5, <6>1
            <6>2. CASE i # k
              BY <1>7, <2>1, <6>2 DEF Kept
            <6> QED BY <6>1, <6>2
          <5> QED BY <2>1, <5>1, InvFacts
        <4> QED BY <1>1, <2>1, <2>2, <4>1, <4>2, AgreeCalm
      <3>2. CASE ~(r > mixed')
        <4>1. r <= mixed' /\ Nobody \in Nat /\ Nobody <= r
              /\ \A i \in 1 .. Len(messages') : messages'[i].request <= r
          BY <1>1, <1>10, <2>1, <3>2 DEF Nobody
        <4> QED BY <1>1, <2>1, <4>1, AgreeMixed
      <3> QED BY <3>1, <3>2
    <2> QED BY <1>0, <1>11, <1>12, <1>14, <2>4, <2>5, <2>6, <2>7 DEF PageInv
  <1> QED
    BY <1>6, <1>13, <1>14 DEF SendChat

(* What may stay for the requests so far may stay for one more. *)
LEMMA KeptGrows ==
    ASSUME NEW m \in Messages, NEW q \in Nat, NEW x \in Nat, NEW n, NEW l, Kept(m, q, x, n, l)
    PROVE  Kept(m, q + 1, x, n, l) /\ m.request <= q
  BY PartFacts DEF Kept, MessageOK

(* handleSendMessage, handleRegenerateMessage and a question that is asked *)
(* again: the messages before the new answer.                              *)
LEMMA AskLemma ==
    ASSUME PageInv,
           \/ Send
           \/ \E i \in DOMAIN view.messages : Regenerate(i) \/ SubmitEdit(i)
    PROVE  PageInv'
  <1> DEFINE s == view.messages
  <1>0. PICK r \in Nat : r = requests + 1
    BY InvFacts
  <1>1. s \in Seq(Messages) /\ Len(s) \in Nat /\ DOMAIN s = 1 .. Len(s)
        /\ mounted /\ editing \in Editing
    BY InvFacts, PageIsThere DEF TypeOK, Editing, Send
  <1>2. r \in Requests
        /\ mixed' = IF \E p \in Requests : source[p] = "open" THEN r
                    ELSE IF view.generating THEN r - 1 ELSE mixed
    BY <1>0 DEF Send, Regenerate, SubmitEdit, SendChat
  <1>3. mixed' \in Nat /\ mixed <= mixed' /\ (mixed' >= requests \/ (mixed' = mixed /\ ~view.generating))
    BY <1>0, <1>2, InvFacts DEF Numbered
  <1>4. ASSUME NEW j \in 1 .. Len(s)
        PROVE  s[j] \in Messages /\ Kept(s[j], r, mixed', sent, loaded) /\ s[j].request <= requests
    <2>1. s[j] \in Messages /\ Kept(s[j], requests, mixed', sent, loaded)
      BY <1>3, Pressed
    <2>2. Kept(s[j], requests + 1, mixed', sent, loaded) /\ s[j].request <= requests
      BY <1>3, <2>1, InvFacts, KeptGrows
    <2> QED BY <1>0, <2>1, <2>2
  <1> HIDE DEF s
  <1>5. CASE Send
    <2> DEFINE a == UserMessage(r)
               m == LoadingMessage(r)
               p == Append(s, a)
    <2>1. /\ a \in Messages /\ m \in Messages /\ a.from = "user" /\ a.request = r /\ ~Unfinished(a)
          /\ a.answer = <<>>
      <3>1. <<>> \in Seq(Requests \X Nat)
        BY EmptySeq
      <3> QED BY <1>2, <3>1 DEF UserMessage, LoadingMessage, Messages, Unfinished
    <2>2. editing' \in Editing /\ SendChat(s \o <<a, m>>, r)
      BY <1>0, <1>1, <1>5 DEF Send, s
    <2> HIDE DEF a, m
    <2>3. /\ p \in Seq(Messages) /\ Len(p) = Len(s) + 1
          /\ \A i \in 1 .. Len(s) : p[i] = s[i]
          /\ p[Len(s) + 1] = a
      BY <1>1, <2>1, AppendProperties
    <2>4. s \o <<a, m>> = Append(p, m)
      <3>1. <<a>> \in Seq(Messages) /\ <<m>> \in Seq(Messages)
        BY <2>1
      <3>2. Append(<<a>>, m) = <<a>> \o <<m>>
        BY <2>1, <3>1, AppendIsConcat
      <3>3. /\ Append(<<a>>, m) \in Seq(Messages) /\ <<a, m>> \in Seq(Messages)
            /\ Len(Append(<<a>>, m)) = 2 /\ Len(<<a, m>>) = 2
            /\ Append(<<a>>, m)[1] = a /\ Append(<<a>>, m)[2] = m
        BY <2>1, <3>1
      <3>4. \A i \in 1 .. 2 : Append(<<a>>, m)[i] = <<a, m>>[i]
        BY <3>3
      <3>5. Append(<<a>>, m) = <<a, m>>
        BY <3>3, <3>4, SeqEqual
      <3>6. p = s \o <<a>> /\ Append(p, m) = p \o <<m>>
        BY <1>1, <2>1, <2>3, AppendIsConcat
      <3>7. (s \o <<a>>) \o <<m>> = s \o (<<a>> \o <<m>>)
        BY <1>1, <3>1, ConcatAssociative
      <3> QED BY <3>2, <3>5, <3>6, <3>7
    <2> HIDE DEF p
    <2>5. Kept(a, r, mixed', sent, loaded)
      BY <1>0, <2>1 DEF Kept, MessageOK, Rising, Ordered, Whole, InPlace
    <2>6. ASSUME NEW i \in 1 .. Len(p)
          PROVE  /\ Kept(p[i], r, mixed', sent, loaded)
                 /\ p[i].from = "assistant" => p[i].request <= requests
      <3>1. CASE i = Len(s) + 1
        BY <2>1, <2>3, <2>5, <3>1
      <3>2. CASE i # Len(s) + 1
        <4>1. i \in 1 .. Len(s) /\ p[i] = s[i]
          BY <1>1, <2>3, <3>2
        <4> QED BY <1>4, <4>1
      <3> QED BY <3>1, <3>2
    <2>7. SendChat(Append(p, LoadingMessage(r)), r)
      BY <2>2, <2>4 DEF m
    <2> QED BY <1>0, <1>1, <2>2, <2>3, <2>6, <2>7, SendLemma
  <1>6. ASSUME NEW i \in DOMAIN s, Regenerate(i) PROVE PageInv'
    <2> DEFINE p == SubSeq(s, 1, i - 1)
    <2>1. p \in Seq(Messages) /\ Len(p) = i - 1 /\ \A j \in 1 .. i - 1 : p[j] = s[j]
      <3>1. i - 1 \in 0 .. Len(s)
        BY <1>1
      <3> QED BY <1>1, <3>1, CutFacts
    <2>2. SendChat(Append(p, LoadingMessage(r)), r) /\ editing' \in Editing
      BY <1>0, <1>1, <1>6 DEF Regenerate, s
    <2> HIDE DEF p
    <2>3. \A j \in 1 .. Len(p) : /\ Kept(p[j], r, mixed', sent, loaded)
                                 /\ p[j].from = "assistant" => p[j].request <= requests
      BY <1>1, <1>4, <2>1
    <2> QED BY <1>0, <1>1, <2>1, <2>2, <2>3, SendLemma
  <1>7. ASSUME NEW i \in DOMAIN s, SubmitEdit(i) PROVE PageInv'
    <2> DEFINE c == SubSeq(s, 1, i)
               e == [s[i] EXCEPT !.edited = TRUE]
               p == [c EXCEPT ![i] = e]
    <2>0. i \in 1 .. Len(s) /\ s[i] \in Messages
      BY <1>1, <1>4
    <2>1. c \in Seq(Messages) /\ Len(c) = i /\ \A j \in 1 .. i : c[j] = s[j]
      BY <1>1, <2>0, CutFacts
    <2>2. /\ e \in Messages /\ e.status = s[i].status /\ e.request = s[i].request
          /\ e.answer = s[i].answer /\ e.edited /\ e.from = s[i].from
      BY <2>0 DEF Messages
    <2>3. i \in 1 .. Len(c) /\ c[i] = s[i]
      BY <1>1, <2>0, <2>1
    <2>4. [c EXCEPT ![i].edited = TRUE] = p
      BY <2>3
    <2>5. SendChat(Append(p, LoadingMessage(r)), r) /\ editing' \in Editing
      <3>1. SendChat(Append([c EXCEPT ![i].edited = TRUE], LoadingMessage(r)), r) /\ editing' = NoKey
        BY <1>0, <1>7 DEF SubmitEdit, s
      <3> QED BY <2>4, <3>1 DEF Editing
    <2> HIDE DEF e, c
    <2>6. p \in Seq(Messages) /\ Len(p) = i /\ \A j \in 1 .. i : p[j] = IF j = i THEN e ELSE s[j]
      BY <2>1, <2>2, <2>3, ExceptSeq
    <2> HIDE DEF p
    <2>7. Kept(e, r, mixed', sent, loaded) /\ e.request <= requests
      BY <1>4, <2>0, <2>2 DEF Kept, MessageOK, Rising, Ordered, Whole, InPlace, Unfinished
    <2>8. ASSUME NEW j \in 1 .. Len(p)
          PROVE  /\ Kept(p[j], r, mixed', sent, loaded)
                 /\ p[j].from = "assistant" => p[j].request <= requests
      <3>1. j \in 1 .. i /\ j \in 1 .. Len(s)
        BY <1>1, <2>0, <2>6
      <3> QED BY <1>4, <2>6, <2>7, <3>1
    <2> QED BY <1>0, <1>1, <2>5, <2>6, <2>8, SendLemma
  <1> QED
    BY <1>5, <1>6, <1>7 DEF s

(* The page goes: what is left are drafts. *)
LEMMA UnmountLemma ==
    ASSUME PageInv, Unmount,
           source' \in [Requests -> SourceStates],
           \A r \in Requests :
             /\ source'[r] # "open"
             /\ source'[r] = "left" => source[r] \in {"open", "left"}
             /\ source[r] = "none" => source'[r] = "none",
           draft' \in [Requests -> SUBSET Seq(Messages)],
           \A r \in Requests :
             /\ draft'[r] # {} => source'[r] \in {"left", "closed"}
             /\ \A s \in draft'[r] : s \in draft[r] \/ (s = messages /\ source[r] = "open")
    PROVE  PageInv'
  <1>0. /\ ~mounted' /\ messages' = <<>> /\ view' = Rendered(<<>>, Nobody) /\ ref' = Nobody
        /\ complete' = FALSE /\ editing' = NoKey /\ loaded' = requests /\ reloads' = reloads + 1
        /\ UNCHANGED <<saved, requests, sent, changes, mixed>> /\ mounted' = FALSE
    BY DEF Unmount
  <1>1. <<>> \in Seq(Messages) /\ Len(<<>>) = 0 /\ DOMAIN <<>> = 1 .. Len(<<>>)
    BY EmptySeq
  <1>2. view' \in Views /\ view'.messages = <<>>
    BY <1>0, <1>1, RenderedFacts
  <1>3. TypeOK'
    <2>1. /\ saved' \in Seq(Messages) /\ requests' \in 0 .. MaxRequests /\ sent' \in [Requests -> Nat]
          /\ changes' \in Nat /\ reloads' \in Nat /\ loaded' \in 0 .. MaxRequests
          /\ mixed' \in 0 .. MaxRequests
      BY <1>0, InvFacts DEF TypeOK
    <2>2. messages' \in Seq(Messages) /\ mounted' \in BOOLEAN /\ ref' \in Requests \cup {Nobody}
          /\ complete' \in BOOLEAN /\ editing' \in Editing
      BY <1>0, <1>1 DEF Editing
    <2> QED BY <1>2, <2>1, <2>2 DEF TypeOK, SourceStates, Views, Editing
  <1>4. Numbered'
    <2>1. \A r \in Requests : source[r] \in {"open", "left"} => r <= requests
      BY InvFacts DEF Numbered
    <2> QED BY <1>0, <2>1, InvFacts DEF Numbered
  <1>5. Away'
    BY <1>0 DEF Away
  <1>6. ListOK(<<>>, requests, mixed, sent)
    BY <1>1 DEF ListOK
  <1>7. Lists'
    BY <1>0, <1>2, <1>6 DEF PageInv, Lists
  <1>8. Drafts'
    <2> SUFFICES ASSUME NEW r \in Requests, NEW s \in draft'[r]
                 PROVE  DraftOK(r, s, requests, mixed, sent)
      BY <1>0 DEF Drafts
    <2>1. CASE s \in draft[r]
      BY <2>1 DEF PageInv, Drafts
    <2>2. CASE s = messages /\ source[r] = "open"
      BY <2>2, OpenDraft
    <2> QED BY <2>1, <2>2
  <1>9. Agree(<<>>, view', source', Nobody, requests, mixed, sent, requests)
    <2>1. \A i \in 1 .. Len(<<>>) : <<>>[i].request > mixed =>
             ~Unfinished(<<>>[i]) /\ Whole(<<>>[i], sent, requests)
      BY <1>1
    <2> QED BY <1>1, <1>2, <2>1, InvFacts, AgreeCalm
  <1> QED BY <1>0, <1>3, <1>4, <1>5, <1>7, <1>8, <1>9 DEF PageInv

(* Another route, the browser's reload, and the page again. *)
LEMMA PageLemma ==
    ASSUME PageInv, Leave \/ Reload \/ Mount
    PROVE  PageInv'
  <1>0. /\ source \in [Requests -> SourceStates] /\ draft \in [Requests -> SUBSET Seq(Messages)]
        /\ messages \in Seq(Messages) /\ Numbered
    BY InvFacts DEF TypeOK, SourceStates
  <1>1. CASE Leave
    <2>1. Unmount /\ source' = [r \in Requests |-> IF source[r] = "open" THEN "left" ELSE source[r]]
      BY <1>1 DEF Leave
    <2>2. PICK drafts \in {{}, {messages}} :
             draft' = [r \in Requests |-> IF source[r] = "open" THEN drafts ELSE draft[r]]
      BY <1>1 DEF Leave
    <2>3. source' \in [Requests -> SourceStates] /\ draft' \in [Requests -> SUBSET Seq(Messages)]
      BY <1>0, <2>1, <2>2 DEF SourceStates
    <2>4. ASSUME NEW r \in Requests
          PROVE  /\ source'[r] # "open"
                 /\ source'[r] = "left" => source[r] \in {"open", "left"}
                 /\ source[r] = "none" => source'[r] = "none"
                 /\ draft'[r] # {} => source'[r] \in {"left", "closed"}
                 /\ \A s \in draft'[r] : s \in draft[r] \/ (s = messages /\ source[r] = "open")
      BY <1>0, <2>1, <2>2 DEF Numbered
    <2> QED BY <2>1, <2>3, <2>4, UnmountLemma
  <1>2. CASE Reload
    <2>1. Unmount /\ source' = [r \in Requests |-> IF source[r] = "none" THEN "none" ELSE "closed"]
          /\ draft' = [r \in Requests |-> {}]
      BY <1>2 DEF Reload
    <2>2. source' \in [Requests -> SourceStates] /\ draft' \in [Requests -> SUBSET Seq(Messages)]
      BY <2>1 DEF SourceStates
    <2> QED BY <2>1, <2>2, UnmountLemma
  <1>3. CASE Mount
    <2>1. /\ ~mounted /\ mounted' = TRUE /\ messages' = Sanitized(saved) /\ saved' = messages'
          /\ view' = Rendered(messages', ref)
          /\ UNCHANGED <<source, ref, complete, draft, editing, requests, sent, changes, reloads,
                         loaded, mixed>>
      BY <1>3 DEF Mount, stream, history
    <2>2. /\ messages' \in Seq(Messages) /\ ListOK(messages', requests, mixed, sent)
          /\ \A i \in 1 .. Len(messages') : messages'[i].request > mixed => ~Unfinished(messages'[i])
      <3>1. saved \in Seq(Messages) /\ ListOK(saved, requests, mixed, sent)
            /\ requests \in Nat /\ mixed \in Nat /\ sent \in Counts
        BY InvFacts DEF PageInv, Lists
      <3> QED BY <2>1, <3>1, SanitizedOK
    <2>3. ref = Nobody /\ loaded = requests /\ \A r \in Requests : source[r] # "open"
      BY <2>1 DEF PageInv, Away
    <2>4. view' \in Views /\ view'.messages = messages'
      BY <2>1, <2>2, RenderedFacts
    <2>5. TypeOK'
      BY <2>1, <2>2, <2>4, InvFacts DEF TypeOK, Views
    <2>6. Numbered'
      BY <1>0, <2>1 DEF Numbered
    <2>7. Away'
      BY <2>1 DEF Away
    <2>8. Lists' /\ Drafts'
      BY <2>1, <2>2, <2>4 DEF PageInv, Lists, Drafts
    <2>9. \A i \in 1 .. Len(messages') : Whole(messages'[i], sent, loaded)
      <3> SUFFICES ASSUME NEW i \in 1 .. Len(messages') PROVE ~(messages'[i].request > loaded)
        BY DEF Whole
      <3>1. messages'[i].request \in Nat /\ messages'[i].request <= requests
        BY <2>2, ListFacts, PartFacts DEF ListOK, MessageOK
      <3> QED BY <2>3, <3>1, InvFacts
    <2>10. Agree(messages', view', source, Nobody, requests, mixed, sent, loaded)
      BY <2>2, <2>3, <2>4, <2>9, InvFacts, AgreeCalm
    <2> QED BY <2>1, <2>3, <2>5, <2>6, <2>7, <2>8, <2>10 DEF PageInv
  <1> QED BY <1>1, <1>2, <1>3

(* The callbacks of a stream. *)
LEMMA CallbackLemma ==
    ASSUME PageInv, NEW r \in Requests, Callback(r)
    PROVE  PageInv'
  <1>0. /\ source \in [Requests -> SourceStates] /\ editing \in Editing /\ complete \in BOOLEAN
        /\ changes \in Nat /\ reloads \in Nat
    BY InvFacts DEF TypeOK, SourceStates, Editing
  <1>1. CASE Chunk(r)
    BY <1>1, ChunkLemma
  <1>2. CASE LateChunk(r) \/ LateEnd(r)
    BY <1>2, LateCallbackLemma
  <1>3. CASE EndSilently(r)
    <2>1. /\ source[r] # "none" /\ source' = [source EXCEPT ![r] = "closed"]
          /\ UNCHANGED <<messages, view, mounted, saved, ref, complete, draft, editing, requests, sent,
                         changes, reloads, loaded, mixed>>
      BY <1>3 DEF EndSilently, history
    <2>2. /\ source' \in [Requests -> SourceStates]
          /\ \A p \in Requests : source'[p] = source[p] \/ (source[p] # "none" /\ source'[p] = "closed")
      BY <1>0, <2>1 DEF SourceStates
    <2> QED BY <1>0, <2>1, <2>2, QuietLemma
  <1>4. CASE Done(r) \/ Fail(r)
    <2>1. /\ source[r] = "open" /\ source' = [source EXCEPT ![r] = "closed"] /\ ref' = Nobody
          /\ complete' \in BOOLEAN /\ UNCHANGED <<view, mounted, draft, editing, history>>
          /\ saved' \in {saved, messages'}
      BY <1>0, <1>4 DEF Done, Fail, CloseSource, Updated
    <2>2. /\ source' \in [Requests -> SourceStates]
          /\ \A p \in Requests : source'[p] = source[p] \/ (p = r /\ source'[p] = "closed")
      BY <1>0, <2>1 DEF SourceStates
    <2>3. mounted /\ r <= requests /\ (requests > mixed => ref = r /\ view.generating)
      BY <2>1, OpenDraft
    <2>4. requests > mixed => \A p \in Requests : source'[p] # "open"
      <3> SUFFICES ASSUME requests > mixed, NEW p \in Requests, source'[p] = "open" PROVE FALSE
        OBVIOUS
      <3>1. p # r /\ source[p] = "open"
        BY <1>0, <2>1
      <3>2. ref = p
        BY <3>1, OpenDraft
      <3> QED BY <2>3, <3>1, <3>2
    <2>5. PICK e \in {Complete(Last(messages)), WithError(Last(messages))} :
             messages' = UpdateLast(messages, e)
      BY <1>4 DEF Done, Fail, Updated
    <2> QED BY <2>1, <2>2, <2>3, <2>4, <2>5, FinishLemma
  <1> QED
    BY <1>1, <1>2, <1>3, <1>4 DEF Callback

(* Stop, a rendering, and opening or closing an edit. *)
LEMMA OtherLemma ==
    ASSUME PageInv,
           \/ Stop \/ Render \/ CancelEdit \/ UNCHANGED vars
           \/ \E i \in DOMAIN view.messages : Edit(i)
    PROVE  PageInv'
  <1>0. /\ source \in [Requests -> SourceStates] /\ editing \in Editing /\ complete \in BOOLEAN
        /\ changes \in Nat /\ reloads \in Nat
    BY InvFacts DEF TypeOK, SourceStates, Editing
  <1>1. CASE Stop
    <2>1. /\ source' = [r \in Requests |-> IF r = ref THEN "closed" ELSE source[r]] /\ ref' = Nobody
          /\ view' = Rendered(messages', ref') /\ saved' = messages' /\ view.generating
          /\ complete' \in BOOLEAN /\ UNCHANGED <<mounted, draft, editing, history>>
      BY <1>0, <1>1 DEF Stop, StopStream
    <2>2. /\ source' \in [Requests -> SourceStates]
          /\ \A r \in Requests : source'[r] = source[r] \/ (r <= requests /\ source'[r] = "closed")
      BY <1>0, <2>1, InvFacts DEF SourceStates
    <2>3. requests > mixed => \A r \in Requests : source'[r] # "open"
      <3> SUFFICES ASSUME requests > mixed, NEW r \in Requests, source'[r] = "open" PROVE FALSE
        OBVIOUS
      <3>1. r # ref /\ source[r] = "open"
        BY <2>1
      <3> QED BY <3>1, OpenDraft
    <2>4. PICK e \in {Complete(Last(messages)), WithError(Last(messages))} :
             messages' = UpdateLast(messages, e)
      BY <1>1 DEF Stop
    <2>5. mounted
      BY <2>1, PageIsThere
    <2> QED BY <2>1, <2>2, <2>3, <2>4, <2>5, FinishLemma
  <1>2. CASE Render \/ CancelEdit \/ UNCHANGED vars
    <2>1. /\ editing' \in Editing
          /\ UNCHANGED <<messages, mounted, source, ref, complete, draft, requests, sent, changes,
                         reloads, loaded, mixed>>
          /\ view' = view \/ view' = Rendered(messages, ref)
          /\ saved' \in {saved, messages}
      BY <1>0, <1>2 DEF Render, CancelEdit, vars, stream, history, Editing
    <2> QED BY <1>0, <2>1, QuietLemma
  <1>3. ASSUME NEW i \in DOMAIN view.messages, Edit(i) PROVE PageInv'
    <2>1. view.messages[i] \in Messages
      BY InvFacts, ListFacts
    <2>2. editing' \in Editing
      BY <1>3, <2>1 DEF Edit, Key, Editing, Messages
    <2>3. /\ UNCHANGED <<messages, view, mounted, saved, source, ref, complete, draft, requests, sent,
                         reloads, loaded, mixed>>
          /\ changes' \in Nat
      BY <1>0, <1>3 DEF Edit, stream
    <2> QED BY <1>0, <2>2, <2>3, QuietLemma
  <1> QED
    BY <1>1, <1>2, <1>3

(* At the start there is nothing. *)
LEMMA PageInit == Init => PageInv
  <1> SUFFICES ASSUME Init PROVE PageInv
    OBVIOUS
  <1>1. /\ messages = <<>> /\ saved = <<>> /\ view.messages = <<>> /\ ~view.generating /\ ref = Nobody
        /\ mounted /\ <<>> \in Seq(Messages) /\ DOMAIN <<>> = {} /\ Len(<<>>) = 0
    BY EmptySeq DEF Init
  <1>2. TypeOK
    <2>1. view \in [messages : Seq(Messages), generating : BOOLEAN]
      BY <1>1 DEF Init
    <2>2. requests \in 0 .. MaxRequests /\ loaded \in 0 .. MaxRequests /\ mixed \in 0 .. MaxRequests
      BY PlaygroundAssumption DEF Init
    <2> QED BY <1>1, <2>1, <2>2 DEF Init, TypeOK, Nobody
  <1>3. Numbered
    BY PlaygroundAssumption DEF Init, Numbered, Nobody
  <1>4. ListOK(<<>>, requests, mixed, sent)
    BY <1>1 DEF ListOK
  <1>5. Lists /\ Drafts /\ Away
    BY <1>1, <1>4 DEF Init, Lists, Drafts, Away
  <1>6. Agree(messages, view, source, ref, requests, mixed, sent, loaded)
    <2>1. requests = 0 /\ mixed = 0 /\ Len(messages) = 0 /\ \A r \in Requests : source[r] = "none"
      BY <1>1 DEF Init
    <2> QED BY <1>1, <2>1 DEF Agree, Nobody
  <1> QED BY <1>2, <1>3, <1>5, <1>6 DEF PageInv

(* Every step keeps the invariant. *)
LEMMA PageNext ==
    ASSUME PageInv, [Next]_vars
    PROVE  PageInv'
  BY CallbackLemma, AskLemma, ChangeLemma, OtherLemma, PageLemma DEF Next, Button

(* The invariant, for every behaviour. *)
LEMMA PageInvariant == Spec => []PageInv
  <1>1. PageInv /\ [Next]_vars => PageInv'
    BY PageNext
  <1> QED BY <1>1, PageInit, PTL DEF Spec

(* However chunks, failures, renderings, reloads, route changes and        *)
(* buttons interleave, and whatever happened to the requests that were     *)
(* mixed with others: of the later ones, the list shows an unfinished      *)
(* answer just while sseSourceRef holds its request, no other source is    *)
(* open, and buttons act on current messages.                              *)
THEOREM PageAgreesHolds == Spec => []PageAgrees
  <1>1. ASSUME PageInv PROVE PageAgrees
    <2>1. ASSUME NEW i \in DOMAIN messages, messages[i].request > mixed
          PROVE  Unfinished(messages[i]) = (i = Len(messages) /\ ref # Nobody)
      <3>1. Unfinished(messages[i]) <=> (i = Len(messages) /\ ref # Nobody)
        BY <1>1, <2>1, InvFacts DEF PageInv, Agree
      <3> QED BY <3>1 DEF Unfinished
    <2>2. ref > mixed => messages # <<>> /\ Key(Last(messages)) = <<"assistant", ref>>
      <3> SUFFICES ASSUME ref > mixed
                   PROVE  messages # <<>> /\ Key(Last(messages)) = <<"assistant", ref>>
        OBVIOUS
      <3>1. Len(messages) > 0 /\ messages[Len(messages)].from = "assistant"
            /\ messages[Len(messages)].request = ref
        BY <1>1 DEF PageInv, Agree
      <3>2. messages # <<>>
        BY <1>1, <3>1, InvFacts, ListFacts
      <3> QED BY <3>1, <3>2 DEF Key, Last
    <2>3. \A r \in Requests : source[r] = "open" /\ r > mixed => ref = r
      <3> SUFFICES ASSUME NEW r \in Requests, source[r] = "open", r > mixed PROVE ref = r
        OBVIOUS
      <3>1. r <= requests /\ (requests > mixed => ref = r)
        BY <1>1, OpenDraft
      <3> QED BY <1>1, <3>1, InvFacts
    <2>4. requests > mixed /\ ~view.generating => view = Rendered(messages, ref)
      <3> SUFFICES ASSUME requests > mixed, ~view.generating PROVE view = Rendered(messages, ref)
        OBVIOUS
      <3>1. view.messages = messages /\ ref = Nobody
        BY <1>1 DEF PageInv, Agree
      <3>2. view \in [messages : Seq(Messages), generating : BOOLEAN]
        BY <1>1, InvFacts DEF TypeOK
      <3> QED BY <3>1, <3>2 DEF Rendered
    <2> QED BY <1>1, <2>1, <2>2, <2>3, <2>4 DEF PageAgrees, PageInv
  <1> QED BY <1>1, PageInvariant, PTL

(* updateLastAssistantMessage, which knows a message by its position only, *)
(* never mixes the answer to such a request with another, doubles one of   *)
(* its chunks or drops one; and in no answer at all are the chunks of one  *)
(* request out of their order.                                             *)
THEOREM AnswersInPlaceHolds == Spec => []AnswersInPlace
  <1>1. ASSUME PageInv PROVE AnswersInPlace
    <2> SUFFICES ASSUME NEW i \in 1 .. Len(messages)
                 PROVE  /\ messages[i].request > mixed /\ InPlace(messages[i]) =>
                             /\ \A j \in DOMAIN messages[i].answer :
                                  messages[i].answer[j] = <<messages[i].request, j>>
                             /\ messages[i].request > loaded =>
                                  Len(messages[i].answer) = sent[messages[i].request]
                        /\ \A j, k \in DOMAIN messages[i].answer :
                             j < k /\ messages[i].answer[j][1] = messages[i].answer[k][1] =>
                               messages[i].answer[j][2] < messages[i].answer[k][2]
      BY <1>1, InvFacts DEF AnswersInPlace, InPlace
    <2>1. MessageOK(messages[i], requests, mixed, sent)
      BY <1>1, InvFacts DEF PageInv, Lists, ListOK
    <2>2. messages[i].request > mixed => Whole(messages[i], sent, loaded)
      BY <1>1 DEF PageInv, Agree
    <2> QED BY <2>1, <2>2 DEF MessageOK, Rising, Ordered, Whole
  <1> QED BY <1>1, PageInvariant, PTL

=============================================================================
