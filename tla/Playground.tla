----------------------------- MODULE Playground -----------------------------
(***************************************************************************)
(* The chat of the web console's playground                                *)
(* (web/default/src/features/playground): the list of messages that React  *)
(* keeps and that is saved in the browser (use-playground-state.ts,        *)
(* storage.ts, message-utils.ts), the requests whose answers arrive in     *)
(* chunks (use-stream-request.ts, use-chat-handler.ts), and the buttons    *)
(* (index.tsx, playground-input.tsx, message-actions.tsx).                 *)
(*                                                                         *)
(* A callback of a request knows nothing of its message: it changes the    *)
(* last one, if that is an answer.  Buttons act on the messages of the     *)
(* last rendering.  React renders before the next event when a button was  *)
(* pressed, and some time later when a chunk has arrived.                  *)
(*                                                                         *)
(* Nothing closes a source when its page is left for another route.  What  *)
(* its callbacks still ask for reaches no page; React may run the first    *)
(* such update, which then overwrites the saved messages.                  *)
(*                                                                         *)
(* The text of a message is abstracted to the chunks it is made of.        *)
(* Requests are streamed: no control switches config.stream off.           *)
(***************************************************************************)
EXTENDS Naturals, SequencesExt

CONSTANTS
    MaxRequests,    \* bound on the requests
    MaxChunks,      \* bound on the chunks of all answers together
    MaxChanges,     \* bound on the messages that are deleted or edited
    MaxReloads      \* bound on how often the page is left or loaded again

ASSUME PlaygroundAssumption ==
    MaxRequests \in Nat /\ MaxChunks \in Nat /\ MaxChanges \in Nat /\ MaxReloads \in Nat

Requests == 1 .. MaxRequests
Nobody == 0

VARIABLES
    messages,   \* the messages, with all updates that were asked for
    view,       \* the messages and isGenerating of the last rendering
    mounted,    \* whether the page is there
    saved,      \* the messages in localStorage
    source,     \* of each request: its SSE object
    ref,        \* sseSourceRef
    complete,   \* isStreamCompleteRef
    draft,      \* of a source whose page is gone: the messages that its
                \* first update starts from, if React runs it
    editing,    \* editingMessageKey
    requests,   \* number of requests so far
    sent,       \* history: the number of chunks each request has got
    changes,    \* number of messages that were deleted or edited
    reloads,    \* number of times the page was left or loaded again
    loaded,     \* history: the number of requests before that
    mixed       \* history: up to this request, another one was sent or an
                \* edit was saved during its generation

stream == <<source, ref, complete>>
history == <<requests, sent, changes, reloads, loaded, mixed>>
vars == <<messages, view, mounted, saved, stream, draft, editing, history>>

(* createUserMessage and createLoadingAssistantMessage; the key of a       *)
(* message is its side and the request it was created for.                 *)
UserMessage(r) == [from |-> "user", request |-> r, status |-> "complete", answer |-> <<>>, edited |-> FALSE]
LoadingMessage(r) == [from |-> "assistant", request |-> r, status |-> "loading", answer |-> <<>>, edited |-> FALSE]
Key(m) == <<m.from, m.request>>
NoKey == <<"none", 0>>

Init ==
    /\ messages = <<>> /\ view = [messages |-> <<>>, generating |-> FALSE]
    /\ mounted = TRUE /\ saved = <<>>
    /\ source = [r \in Requests |-> "none"] /\ ref = Nobody /\ complete = FALSE
    /\ draft = [r \in Requests |-> {}]
    /\ editing = NoKey
    /\ requests = 0 /\ sent = [r \in Requests |-> 0]
    /\ changes = 0 /\ reloads = 0 /\ loaded = 0 /\ mixed = 0

(* A rendering reads the messages and the reference, and runs the updates  *)
(* of the messages that wait: updateMessages saves them.                   *)
Rendered(s, r) == [messages |-> s, generating |-> r # Nobody]
Render ==
    /\ view # Rendered(messages, ref)
    /\ view' = Rendered(messages, ref)
    /\ saved' = IF view.messages # messages THEN messages ELSE saved
    /\ UNCHANGED <<messages, mounted, stream, draft, editing, history>>

(* An update that a callback asks for runs when React renders, or at once  *)
(* if no other waits.                                                      *)
Updated(s) ==
    /\ messages' = s
    /\ saved' = saved \/ (saved' = s /\ view.messages = messages)

Unfinished(m) == m.status \in {"loading", "streaming"}

-----------------------------------------------------------------------------
(* The callbacks. *)

(* updateLastAssistantMessage: m is what becomes of the last message. *)
UpdateLast(s, m) ==
    IF s # <<>> /\ Last(s).from = "assistant" THEN [s EXCEPT ![Len(s)] = m] ELSE s

(* handleStreamUpdate, handleStreamComplete and stopGeneration, and        *)
(* updateAssistantMessageWithError, which replaces the text.               *)
AddChunk(m, c) ==
    IF m.status = "error" THEN m ELSE [m EXCEPT !.answer = Append(@, c), !.status = "streaming"]
Complete(m) == IF Unfinished(m) THEN [m EXCEPT !.status = "complete"] ELSE m
WithError(m) == [m EXCEPT !.status = "error", !.answer = <<>>, !.edited = FALSE]

(* The listener for messages: a chunk of the answer.  The bug: it is added *)
(* to the message of the last rendering.                                   *)
ChunkOfView(r) ==
    /\ source[r] = "open" /\ FoldFunction(+, 0, sent) < MaxChunks
    /\ sent' = [sent EXCEPT ![r] = @ + 1]
    /\ Updated(UpdateLast(view.messages, AddChunk(Last(view.messages), <<r, sent[r] + 1>>)))
    /\ UNCHANGED <<view, mounted, stream, draft, editing, requests, changes, reloads, loaded, mixed>>
Chunk(r) ==
    /\ source[r] = "open" /\ FoldFunction(+, 0, sent) < MaxChunks
    /\ sent' = [sent EXCEPT ![r] = @ + 1]
    /\ Updated(UpdateLast(messages, AddChunk(Last(messages), <<r, sent[r] + 1>>)))
    /\ UNCHANGED <<view, mounted, stream, draft, editing, requests, changes, reloads, loaded, mixed>>

(* closeSource: the reference is dropped, whatever it refers to. *)
CloseSource(r) ==
    /\ source' = [source EXCEPT ![r] = "closed"]
    /\ ref' = Nobody

(* The listener for messages: [DONE]. *)
Done(r) ==
    /\ source[r] = "open"
    /\ complete' = TRUE
    /\ CloseSource(r)
    /\ Updated(UpdateLast(messages, Complete(Last(messages))))
    /\ UNCHANGED <<view, mounted, draft, editing, history>>

(* A message that cannot be parsed, the listener for errors, and the one   *)
(* for a bad status: handleError, unless a stream is complete.             *)
Fail(r) ==
    /\ source[r] = "open" /\ ~complete
    /\ Updated(UpdateLast(messages, WithError(Last(messages))))
    /\ CloseSource(r)
    /\ UNCHANGED <<view, mounted, complete, draft, editing, history>>

(* The connection ends without [DONE], or with an error that is not        *)
(* handled: nobody is told.                                                *)
EndSilently(r) ==
    /\ source[r] \in {"open", "left"}
    /\ source' = [source EXCEPT ![r] = "closed"]
    /\ UNCHANGED <<messages, view, mounted, saved, ref, complete, draft, editing, history>>

(* The same callbacks of a source whose page is gone: m is what the update *)
(* makes of the last message of the draft s.  An update that changes       *)
(* nothing leaves the draft for the next one.                              *)
UpdateDropped(r) == draft[r] = {} /\ UNCHANGED <<saved, draft>>
UpdateDraft(r, s, m) ==
    /\ saved' = UpdateLast(s, m)
    /\ draft' = [draft EXCEPT ![r] = IF saved' = s THEN @ ELSE {}]

LateChunk(r) ==
    /\ source[r] = "left" /\ FoldFunction(+, 0, sent) < MaxChunks
    /\ sent' = [sent EXCEPT ![r] = @ + 1]
    /\ \/ UpdateDropped(r)
       \/ \E s \in draft[r] : UpdateDraft(r, s, AddChunk(Last(s), <<r, sent[r] + 1>>))
    /\ UNCHANGED <<messages, view, mounted, stream, editing, requests, changes, reloads, loaded, mixed>>

LateEnd(r) ==
    /\ source[r] = "left"
    /\ source' = [source EXCEPT ![r] = "closed"]
    /\ \/ UpdateDropped(r)
       \/ \E s \in draft[r] :
            UpdateDraft(r, s, Complete(Last(s))) \/ UpdateDraft(r, s, WithError(Last(s)))
    /\ UNCHANGED <<messages, view, mounted, ref, complete, editing, history>>

-----------------------------------------------------------------------------
(* The buttons. *)

(* sendChat after updateMessages, and the rendering that follows; the      *)
(* source may fail to start.                                               *)
SendChat(s, r) ==
    /\ r \in Requests /\ requests' = r
    /\ complete' = FALSE
    /\ \/ /\ source' = [source EXCEPT ![r] = "open"] /\ ref' = r
          /\ messages' = s
       \/ /\ source' = [source EXCEPT ![r] = "closed"] /\ ref' = Nobody
          /\ messages' = UpdateLast(s, WithError(Last(s)))
    /\ view' = Rendered(messages', ref') /\ saved' = messages'
    /\ mixed' = IF \E q \in Requests : source[q] = "open" THEN r
                ELSE IF view.generating THEN r - 1 ELSE mixed
    /\ UNCHANGED <<mounted, draft, sent, changes, reloads, loaded>>

(* handleSendMessage: of handleSubmit, which is disabled during a          *)
(* generation, and of a suggestion, which is not.                          *)
Send ==
    /\ mounted
    /\ LET r == requests + 1
       IN SendChat(view.messages \o <<UserMessage(r), LoadingMessage(r)>>, r)
    /\ UNCHANGED editing

(* The buttons of a message are shown with its text, and guardAction       *)
(* blocks them during a generation.                                        *)
Shown(m) == m.from = "user" \/ m.status = "error" \/ m.answer # <<>> \/ m.edited
Enabled(i) == ~view.generating /\ Shown(view.messages[i])

(* handleRegenerateMessage: only the messages before this one stay. *)
Regenerate(i) ==
    /\ Enabled(i) /\ view.messages[i].from = "assistant" /\ ~Unfinished(view.messages[i])
    /\ LET r == requests + 1
       IN SendChat(Append(SubSeq(view.messages, 1, i - 1), LoadingMessage(r)), r)
    /\ UNCHANGED editing

(* updateMessages, and the rendering that follows. *)
UpdateMessages(s) ==
    /\ messages' = s /\ saved' = s
    /\ view' = Rendered(s, ref)
    /\ UNCHANGED <<mounted, stream, draft, requests, sent, reloads, loaded>>

(* handleDeleteMessage *)
Delete(i) ==
    /\ Enabled(i)
    /\ changes < MaxChanges /\ changes' = changes + 1
    /\ UpdateMessages(RemoveAt(view.messages, i))
    /\ UNCHANGED <<editing, mixed>>

(* handleEditMessage and handleEditOpenChange *)
Edit(i) ==
    /\ Enabled(i)
    /\ changes < MaxChanges /\ changes' = changes + 1
    /\ editing' = Key(view.messages[i])
    /\ UNCHANGED <<messages, view, mounted, saved, stream, draft, requests, sent, reloads, loaded, mixed>>

CancelEdit ==
    /\ editing # NoKey
    /\ editing' = NoKey
    /\ UNCHANGED <<messages, view, mounted, saved, stream, draft, history>>

(* applyEdit, which is not guarded: the text is replaced, and a question   *)
(* may be asked again.                                                     *)
SaveEdit(i) ==
    /\ Key(view.messages[i]) = editing
    /\ UpdateMessages([view.messages EXCEPT ![i].answer = <<>>, ![i].edited = TRUE])
    /\ mixed' = IF view.generating THEN requests ELSE mixed
    /\ editing' = NoKey
    /\ UNCHANGED changes

SubmitEdit(i) ==
    /\ Key(view.messages[i]) = editing /\ view.messages[i].from = "user"
    /\ LET r == requests + 1
           s == SubSeq(view.messages, 1, i)
       IN SendChat(Append([s EXCEPT ![i].edited = TRUE], LoadingMessage(r)), r)
    /\ editing' = NoKey

(* stopGeneration, from the button that is shown during a generation.  To  *)
(* close a source that has got a bad status is an error.                   *)
StopStream ==
    /\ source' = [r \in Requests |-> IF r = ref THEN "closed" ELSE source[r]]
    /\ ref' = Nobody

Stop ==
    /\ view.generating
    /\ StopStream
    /\ \/ messages' = UpdateLast(messages, Complete(Last(messages)))
       \/ ref # Nobody /\ ~complete /\ messages' = UpdateLast(messages, WithError(Last(messages)))
    /\ view' = Rendered(messages', ref') /\ saved' = messages'
    /\ UNCHANGED <<mounted, complete, draft, editing, history>>

-----------------------------------------------------------------------------
(* The page is loaded again. *)

(* sanitizeMessagesOnLoad: the last message that was not finished.  The    *)
(* bug: a message that was only loading is not looked for.                 *)
StuckStreaming(s) == {i \in DOMAIN s : s[i].status = "streaming"}
Stuck(s) == {i \in DOMAIN s : Unfinished(s[i])}

Sanitized(s) ==
    [i \in DOMAIN s |->
        IF i \in Stuck(s) /\ \A j \in Stuck(s) : j <= i
          THEN IF s[i].answer # <<>> \/ s[i].edited THEN [s[i] EXCEPT !.status = "complete"] ELSE WithError(s[i])
          ELSE s[i]]

(* The page goes, and its state with it. *)
Unmount ==
    /\ reloads < MaxReloads /\ reloads' = reloads + 1
    /\ mounted' = FALSE
    /\ messages' = <<>> /\ view' = Rendered(<<>>, Nobody)
    /\ ref' = Nobody /\ complete' = FALSE
    /\ editing' = NoKey
    /\ loaded' = requests
    /\ UNCHANGED <<saved, requests, sent, changes, mixed>>

(* Another route is shown, which closes no source.  React may run an       *)
(* update of a page that is gone if none was waiting.                      *)
Leave ==
    /\ mounted /\ Unmount
    /\ source' = [r \in Requests |-> IF source[r] = "open" THEN "left" ELSE source[r]]
    /\ \E drafts \in {{}, {messages}} :
          /\ drafts # {} => view.messages = messages
          /\ draft' = [r \in Requests |-> IF source[r] = "open" THEN drafts ELSE draft[r]]

(* The browser loads the page again, which closes them all. *)
Reload ==
    /\ Unmount
    /\ source' = [r \in Requests |-> IF source[r] = "none" THEN "none" ELSE "closed"]
    /\ draft' = [r \in Requests |-> {}]

(* loadMessages, in the first rendering. *)
Mount ==
    /\ ~mounted /\ mounted' = TRUE
    /\ messages' = Sanitized(saved) /\ saved' = messages'
    /\ view' = Rendered(messages', ref)
    /\ UNCHANGED <<stream, draft, editing, history>>

Callback(r) == Chunk(r) \/ Done(r) \/ Fail(r) \/ EndSilently(r) \/ LateChunk(r) \/ LateEnd(r)
Button ==
    \/ Send \/ Stop \/ CancelEdit
    \/ \E i \in DOMAIN view.messages :
          Regenerate(i) \/ Delete(i) \/ Edit(i) \/ SaveEdit(i) \/ SubmitEdit(i)

Next ==
    \/ \E r \in Requests : Callback(r)
    \/ Render
    \/ Button
    \/ Leave \/ Reload \/ Mount

Spec == Init /\ [][Next]_vars

-----------------------------------------------------------------------------
(* Properties. *)

Messages == [from : {"user", "assistant"}, request : Requests,
             status : {"loading", "streaming", "complete", "error"},
             answer : Seq(Requests \X Nat), edited : BOOLEAN]

TypeOK ==
    /\ messages \in Seq(Messages) /\ saved \in Seq(Messages)
    /\ view \in [messages : Seq(Messages), generating : BOOLEAN]
    /\ mounted \in BOOLEAN
    /\ source \in [Requests -> {"none", "open", "left", "closed"}]
    /\ ref \in Requests \cup {Nobody} /\ complete \in BOOLEAN
    /\ draft \in [Requests -> SUBSET Seq(Messages)]
    /\ editing \in {NoKey} \cup ({"user", "assistant"} \X Requests)
    /\ requests \in 0 .. MaxRequests /\ sent \in [Requests -> Nat]
    /\ changes \in Nat /\ reloads \in Nat /\ loaded \in 0 .. MaxRequests /\ mixed \in 0 .. MaxRequests

(* The page and its requests agree on every request that was sent while no *)
(* other was open, whatever happened to earlier ones: a message of such a  *)
(* request is unfinished just while sseSourceRef holds a request, and is   *)
(* the answer to it and the last one then; its source, while open, is the  *)
(* one referred to, so that stopStream reaches it; and while the page      *)
(* offers buttons rather than Stop, it shows the messages as they are, so  *)
(* that no handler puts back old ones.                                     *)
PageAgrees ==
    /\ TypeOK
    /\ \A i \in DOMAIN messages : messages[i].request > mixed =>
          Unfinished(messages[i]) = (i = Len(messages) /\ ref # Nobody)
    /\ ref > mixed => messages # <<>> /\ Key(Last(messages)) = <<"assistant", ref>>
    /\ \A r \in Requests : source[r] = "open" /\ r > mixed => ref = r
    /\ requests > mixed /\ ~view.generating => view = Rendered(messages, ref)

(* Although updateLastAssistantMessage goes by position, the answer to     *)
(* such a request is made of its own chunks, in their order, and none of   *)
(* those that came is missing, but for those that came as its page went or *)
(* later.  In no answer at all is a chunk there twice, or before an        *)
(* earlier one of the same request.                                        *)
AnswersInPlace ==
    \A i \in DOMAIN messages :
      LET m == messages[i]
      IN /\ (m.request > mixed /\ m.from = "assistant" /\ ~m.edited /\ m.status # "error") =>
              /\ \A j \in DOMAIN m.answer : m.answer[j] = <<m.request, j>>
              /\ m.request > loaded => Len(m.answer) = sent[m.request]
         /\ \A j, k \in DOMAIN m.answer :
              j < k /\ m.answer[j][1] = m.answer[k][1] => m.answer[j][2] < m.answer[k][2]
=============================================================================
