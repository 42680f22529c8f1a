---------------------------- MODULE StreamScanner ----------------------------
(***************************************************************************)
(* StreamScannerHandler (relay/helper/stream_scanner.go) with StreamStatus *)
(* (relay/common/stream_status.go) and SafeSendBool (common/go-channel.go):*)
(* a scanner reads the lines of the upstream's answer into dataChan, a     *)
(* handler passes them on to the client, a third goroutine sends pings,    *)
(* and the caller waits for the end, for a silence that is too long or for *)
(* the client to leave.  All of them can receive from stopChan.            *)
(*                                                                         *)
(* Time is not modelled: a timeout may fire whenever it is armed.          *)
(***************************************************************************)
EXTENDS Naturals, Sequences

CONSTANTS
    MaxLines,       \* bound on the data lines of the upstream
    DataCap,        \* the buffer of dataChan
    MaxPings        \* bound on the pings

ASSUME StreamAssumption ==
    MaxLines \in Nat /\ DataCap \in Nat \ {0} /\ MaxPings \in Nat

StopCap == 3

VARIABLES
    main, scanner, handler, ping,   \* where each goroutine is
    writer,         \* the goroutine that writes a ping
    mutex,          \* the holder of writeMutex
    stop,           \* number of values in stopChan
    stopClosed, ctxDone, bodyClosed, dataClosed,
    clientGone,     \* the client's connection is closed
    line,           \* the line that was read
    received,       \* ReceivedResponseCount
    dataChan,       \* the chunks in the channel, by number
    handled,        \* history: the chunks the handler has dealt with
    reason,         \* StreamStatus.EndReason
    late,           \* history: the caller did not wait for all goroutines
    cut,            \* history: the handler stopped or panicked
    stolen,         \* history: the ping goroutine took a stop value
    pings

chans == <<stop, stopClosed, ctxDone, bodyClosed, dataChan, dataClosed>>
status == <<reason, cut, late>>
data == <<line, received, handled>>
pinging == <<ping, writer, stolen, pings>>
streamVars == <<main, scanner, handler, pinging, mutex, chans, clientGone, data, status>>

StreamInit ==
    /\ main = "wait" /\ scanner = "scan" /\ handler = "take"
    /\ ping \in {"loop", "gone"} /\ writer = "gone" /\ pings = 0 /\ stolen = FALSE
    /\ mutex = "free"
    /\ stop = 0 /\ stopClosed = FALSE /\ ctxDone = FALSE /\ bodyClosed = FALSE
    /\ dataChan = <<>> /\ dataClosed = FALSE
    /\ clientGone = FALSE
    /\ line = "none" /\ received = 0 /\ handled = <<>>
    /\ reason = "none" /\ late = FALSE /\ cut = FALSE

(* SetEndReason *)
FirstReason(r) == IF reason = "none" THEN r ELSE reason
SetEndReason(r) == reason' = FirstReason(r)

(* A receive from stopChan, and SafeSendBool: a send to the closed channel *)
(* panics and is recovered.  The bug: the channel has room for one value.  *)
FromStop ==
    /\ stop > 0 \/ stopClosed
    /\ stop' = IF stop > 0 THEN stop - 1 ELSE stop
ToStopOne ==
    /\ stop < 1 \/ stopClosed
    /\ stop' = IF stopClosed THEN stop ELSE stop + 1
ToStop ==
    /\ stop < StopCap \/ stopClosed
    /\ stop' = IF stopClosed THEN stop ELSE stop + 1

-----------------------------------------------------------------------------
(* The scanner goroutine. *)

(* scanner.Scan returns a line of data, or [DONE]. *)
ReadLine ==
    /\ scanner = "scan"
    /\ \/ received < MaxLines /\ line' = "data"
       \/ line' = "[DONE]"
    /\ scanner' = "check"
    /\ UNCHANGED <<main, handler, pinging, mutex, chans, clientGone, received, handled, status>>

(* It returns false: the answer has ended, or reading failed. *)
ReadEnd(r) ==
    /\ scanner = "scan"
    /\ SetEndReason(r)
    /\ scanner' = "leave"
    /\ UNCHANGED <<main, handler, pinging, mutex, chans, clientGone, data, cut, late>>

ReadEOF == ~bodyClosed /\ ReadEnd("eof")
ReadError == ReadEnd("scanner_error")

(* The select before a line is used: one of the cases that are ready, or   *)
(* the default.                                                            *)
CheckStop ==
    /\ scanner = "check"
    /\ \/ FromStop /\ UNCHANGED reason
       \/ ctxDone /\ UNCHANGED <<stop, reason>>
       \/ clientGone /\ SetEndReason("client_gone") /\ UNCHANGED stop
    /\ scanner' = "leave"
    /\ UNCHANGED <<main, handler, pinging, mutex, stopClosed, ctxDone, bodyClosed, dataChan,
                   dataClosed, clientGone, data, cut, late>>

(* The bug: [DONE] ends the loop without a reason. *)
CheckLineSilent ==
    /\ scanner = "check" /\ stop = 0 /\ ~stopClosed /\ ~ctxDone /\ ~clientGone
    /\ IF line = "data"
       THEN received' = received + 1 /\ scanner' = "push"
       ELSE scanner' = "leave" /\ UNCHANGED received
    /\ UNCHANGED <<main, handler, pinging, mutex, chans, clientGone, line, handled, status>>
CheckLine ==
    /\ scanner = "check" /\ stop = 0 /\ ~stopClosed /\ ~ctxDone /\ ~clientGone
    /\ IF line = "data"
       THEN received' = received + 1 /\ scanner' = "push" /\ UNCHANGED reason
       ELSE SetEndReason("done") /\ scanner' = "leave" /\ UNCHANGED received
    /\ UNCHANGED <<main, handler, pinging, mutex, chans, clientGone, line, handled, cut, late>>

Push ==
    /\ scanner = "push"
    /\ \/ /\ Len(dataChan) < DataCap
          /\ dataChan' = Append(dataChan, received)
          /\ scanner' = "scan" /\ UNCHANGED stop
       \/ ctxDone /\ scanner' = "leave" /\ UNCHANGED <<dataChan, stop>>
       \/ FromStop /\ scanner' = "leave" /\ UNCHANGED dataChan
    /\ UNCHANGED <<main, handler, pinging, mutex, stopClosed, ctxDone, bodyClosed, dataClosed,
                   clientGone, data, status>>

(* The deferred function: close(dataChan), wg.Done, and a stop value.  The *)
(* bug: no stop value when the handler has stopped the stream.             *)
LeaveScanner ==
    /\ scanner = "leave"
    /\ dataClosed' = TRUE
    /\ scanner' = "tell"
    /\ UNCHANGED <<main, handler, pinging, mutex, stop, stopClosed, ctxDone, bodyClosed, dataChan,
                   clientGone, data, status>>

TellScannerSilent ==
    /\ scanner = "tell"
    /\ IF reason = "handler_stop" THEN UNCHANGED stop ELSE ToStop
    /\ scanner' = "gone"
    /\ UNCHANGED <<main, handler, pinging, mutex, stopClosed, ctxDone, bodyClosed, dataChan, dataClosed,
                   clientGone, data, status>>
TellScanner ==
    /\ scanner = "tell" /\ ToStop
    /\ scanner' = "gone"
    /\ UNCHANGED <<main, handler, pinging, mutex, stopClosed, ctxDone, bodyClosed, dataChan, dataClosed,
                   clientGone, data, status>>

-----------------------------------------------------------------------------
(* The data handler goroutine. *)

(* The next chunk, together with the lock it is handled under; the closed  *)
(* channel is emptied first.                                               *)
Take ==
    /\ handler = "take"
    /\ \/ /\ dataChan # <<>> /\ mutex = "free"
          /\ handler' = "handle" /\ mutex' = "handler"
          /\ handled' = Append(handled, Head(dataChan)) /\ dataChan' = Tail(dataChan)
       \/ /\ dataChan = <<>> /\ dataClosed
          /\ handler' = "leave" /\ UNCHANGED <<mutex, handled, dataChan>>
    /\ UNCHANGED <<main, scanner, pinging, stop, stopClosed, ctxDone, bodyClosed, dataClosed,
                   clientGone, line, received, status>>

(* dataHandler returns: the chunk was passed on, or it calls Stop or Done. *)
HandleEnds(next, r) ==
    /\ handler = "handle"
    /\ mutex' = "free"
    /\ handler' = next
    /\ cut' = (cut \/ next = "leave")
    /\ reason' = IF r = "none" THEN reason ELSE FirstReason(r)
    /\ UNCHANGED <<main, scanner, pinging, chans, clientGone, data, late>>

Handled == HandleEnds("take", "none")
HandlerStops == \E r \in {"handler_stop", "done"} : HandleEnds("leave", r)

(* A panic leaves writeMutex locked; the reason is set in the deferred     *)
(* function, after wg.Done.                                                *)
HandlerPanics ==
    /\ handler = "handle"
    /\ handler' = "panic" /\ cut' = TRUE
    /\ UNCHANGED <<main, scanner, pinging, mutex, chans, clientGone, data, reason, late>>

(* wg.Done *)
LeaveHandler ==
    /\ handler \in {"leave", "panic"}
    /\ handler' = IF handler = "panic" THEN "recover" ELSE "tell"
    /\ UNCHANGED <<main, scanner, pinging, mutex, chans, clientGone, data, status>>

Recover ==
    /\ handler = "recover"
    /\ SetEndReason("panic")
    /\ handler' = "tell"
    /\ UNCHANGED <<main, scanner, pinging, mutex, chans, clientGone, data, cut, late>>

TellHandler ==
    /\ handler = "tell" /\ ToStop
    /\ handler' = "gone"
    /\ UNCHANGED <<main, scanner, pinging, mutex, stopClosed, ctxDone, bodyClosed, dataChan, dataClosed,
                   clientGone, data, status>>

-----------------------------------------------------------------------------
(* The ping goroutine, and the goroutine it starts for each ping. *)

PingTick ==
    /\ ping = "loop" /\ writer = "gone" /\ pings < MaxPings
    /\ pings' = pings + 1
    /\ ping' = "await" /\ writer' = "lock"
    /\ UNCHANGED <<main, scanner, handler, stolen, mutex, chans, clientGone, data, status>>

WriterLocks ==
    /\ writer = "lock" /\ mutex = "free"
    /\ mutex' = "writer" /\ writer' = "write"
    /\ UNCHANGED <<main, scanner, handler, ping, stolen, pings, chans, clientGone, data, status>>

(* PingData: the result goes to the ping goroutine if that still waits. *)
WriterEnds ==
    /\ writer = "write"
    /\ mutex' = "free" /\ writer' = "gone"
    /\ \/ ping' = (IF ping = "await" THEN "loop" ELSE ping) /\ UNCHANGED reason
       \/ /\ ping' = (IF ping = "await" THEN "gone" ELSE ping)
          /\ reason' = IF ping = "await" THEN FirstReason("ping_fail") ELSE reason
    /\ UNCHANGED <<main, scanner, handler, stolen, pings, chans, clientGone, data, cut, late>>

PingTimeout ==
    /\ ping = "await"
    /\ SetEndReason("ping_fail")
    /\ ping' = "gone"
    /\ UNCHANGED <<main, scanner, handler, writer, stolen, pings, mutex, chans, clientGone, data, cut, late>>

(* It ends with the context, with a stop value, which it takes away, with  *)
(* the client, or after 30 minutes.                                        *)
PingEnds ==
    /\ ping \in {"loop", "await"}
    /\ \/ ctxDone /\ UNCHANGED <<stop, stolen>>
       \/ FromStop /\ stolen' = TRUE
       \/ ping = "loop" /\ clientGone /\ UNCHANGED <<stop, stolen>>
    /\ ping' = "gone"
    /\ UNCHANGED <<main, scanner, handler, writer, pings, mutex, stopClosed, ctxDone, bodyClosed,
                   dataChan, dataClosed, clientGone, data, status>>

PingTooLong ==
    /\ ping = "loop"
    /\ ping' = "gone"
    /\ UNCHANGED <<main, scanner, handler, writer, stolen, pings, mutex, chans, clientGone, data, status>>

-----------------------------------------------------------------------------
(* The caller, and its deferred functions in their order. *)

ClientLeaves ==
    /\ ~clientGone /\ main = "wait"
    /\ clientGone' = TRUE
    /\ UNCHANGED <<main, scanner, handler, pinging, mutex, chans, data, status>>

(* The select; then cancel. *)
WakeUp ==
    /\ main = "wait"
    /\ \/ SetEndReason("timeout") /\ UNCHANGED stop
       \/ FromStop /\ UNCHANGED reason
       \/ clientGone /\ SetEndReason("client_gone") /\ UNCHANGED stop
    /\ ctxDone' = TRUE
    /\ main' = "tell"
    /\ UNCHANGED <<scanner, handler, pinging, mutex, stopClosed, bodyClosed, dataChan, dataClosed,
                   clientGone, data, cut, late>>

TellMain ==
    /\ main = "tell" /\ ToStop
    /\ main' = "join"
    /\ UNCHANGED <<scanner, handler, pinging, mutex, stopClosed, ctxDone, bodyClosed, dataChan,
                   dataClosed, clientGone, data, status>>

(* wg.Wait: the goroutine that writes a ping is not counted. *)
AllDone ==
    /\ scanner \in {"tell", "gone"}
    /\ handler \in {"recover", "tell", "gone"}
    /\ ping = "gone"

(* All are done, or five seconds have passed; then close(stopChan).  The   *)
(* bug: the handler is not counted.                                        *)
JoinEarly ==
    /\ main = "join"
    /\ late' = ~(scanner \in {"tell", "gone"} /\ ping = "gone")
    /\ stopClosed' = TRUE
    /\ main' = "close"
    /\ UNCHANGED <<scanner, handler, pinging, mutex, stop, ctxDone, bodyClosed, dataChan, dataClosed,
                   clientGone, data, reason, cut>>
Join ==
    /\ main = "join"
    /\ late' = ~AllDone
    /\ stopClosed' = TRUE
    /\ main' = "close"
    /\ UNCHANGED <<scanner, handler, pinging, mutex, stop, ctxDone, bodyClosed, dataChan, dataClosed,
                   clientGone, data, reason, cut>>

(* resp.Body.Close, without which a silent upstream keeps the scanner. *)
Return ==
    /\ main = "close"
    /\ bodyClosed' = TRUE
    /\ main' = "returned"
    /\ UNCHANGED <<scanner, handler, pinging, mutex, stop, stopClosed, ctxDone, dataChan, dataClosed,
                   clientGone, data, status>>

-----------------------------------------------------------------------------
Scan == CheckStop \/ CheckLine \/ Push \/ LeaveScanner \/ TellScanner
Handle == Take \/ Handled \/ HandlerStops \/ HandlerPanics \/ LeaveHandler \/ Recover \/ TellHandler
Ping == PingTick \/ PingTimeout \/ PingEnds \/ PingTooLong
Writer == WriterLocks \/ WriterEnds
Main == WakeUp \/ TellMain \/ Join \/ Return

StreamNext ==
    \/ ReadLine \/ ReadEOF \/ ReadError
    \/ Scan \/ Handle \/ Ping \/ Writer \/ Main
    \/ ClientLeaves

StreamSpec == StreamInit /\ [][StreamNext]_streamVars

(* Goroutines keep running and writes to the client end.  The upstream may *)
(* fall silent, but a read from a closed body returns.                     *)
FairSpec ==
    /\ StreamSpec
    /\ WF_streamVars(Scan) /\ WF_streamVars(bodyClosed /\ ReadError)
    /\ WF_streamVars(Handle) /\ WF_streamVars(PingTimeout \/ PingEnds)
    /\ WF_streamVars(Writer) /\ WF_streamVars(Main)

-----------------------------------------------------------------------------
(* The variables keep to their types; stopChan and dataChan keep to their  *)
(* buffers.                                                                *)
StreamTypeOK ==
    /\ main \in {"wait", "tell", "join", "close", "returned"}
    /\ scanner \in {"scan", "check", "push", "leave", "tell", "gone"}
    /\ handler \in {"take", "handle", "leave", "panic", "recover", "tell", "gone"}
    /\ ping \in {"loop", "await", "gone"} /\ writer \in {"lock", "write", "gone"}
    /\ mutex \in {"free", "handler", "writer"}
    /\ stop \in 0..StopCap
    /\ received \in 0..MaxLines /\ Len(dataChan) <= DataCap
    /\ stolen \in BOOLEAN /\ pings \in 0..MaxPings

(* Whoever wakes the caller through stopChan has set the reason before, so *)
(* that the caller need not: the comment "EndReason already set by the     *)
(* goroutine that triggered stopChan".                                     *)
ReasonBeforeStop ==
    /\ StreamTypeOK
    /\ (stop > 0 \/ main # "wait") => reason # "none"

(* When the upstream ended the stream and the handler did not, every chunk *)
(* was handled, in order, before the return, although the caller may be    *)
(* woken while chunks are still in dataChan.                               *)
NothingLost ==
    (main = "returned" /\ ~late /\ ~cut /\ reason \in {"done", "eof"}) =>
        handled = [i \in 1..received |-> i]

(* When scanner and handler have ended, a stop value is waiting for the    *)
(* caller: their own receives never leave it without one.  Only the ping   *)
(* goroutine may have taken the last one.                                  *)
CallerIsTold ==
    (main = "wait" /\ scanner = "gone" /\ handler = "gone") => stop > 0 \/ stolen

(* The caller returns and no goroutine is left behind, even if the         *)
(* upstream is silent for ever; only a writer of a ping can wait for ever  *)
(* for the lock a panic has left locked.                                   *)
EverythingEnds ==
    <>[](/\ main = "returned" /\ scanner = "gone" /\ handler = "gone" /\ ping = "gone"
         /\ writer = "gone" \/ (writer = "lock" /\ mutex = "handler"))
=============================================================================
