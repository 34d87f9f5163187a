--------------------------- MODULE StreamingSpeech ---------------------------
(***************************************************************************)
(* One stream of StreamingTTSService in tts-service: the session state of  *)
(* a Socket.IO connection and the handlers of its events.  Socket.IO runs  *)
(* every event in a task of its own; handlers interleave at their awaits,  *)
(* which are the emits to the client.  Streams share nothing: states are   *)
(* kept by connection, and connections are not reused.                     *)
(***************************************************************************)
EXTENDS Naturals

CONSTANTS
  Handlers,   \* data events that may be in progress at once
  MaxEvents,  \* bound: data and start events of the client
  MaxFaults   \* bound: inferences that fail

ASSUME BoundsAssumption == MaxEvents \in Nat /\ MaxFaults \in Nat

VARIABLES
  stage,    \* "new", "open": in client_states, "terminated" by the client's
            \* request, "dropped" because the connection was lost
  link,     \* the connection: "up", "down", "dropping": lost, with the task that
            \* deletes the session still to run
  texts,    \* texts the client has sent, numbered 1..texts
  buffer,   \* text_buffer: the texts in it
  tasks,    \* the data events in progress
  said,     \* said[t]: how often t has been synthesized and sent
  exposed,  \* history variable: texts added while another data event was in
            \* progress, discarded by a start, or left by a last synthesis that failed
  shared,   \* history variable: texts taken for synthesis while another data
            \* event was in progress, or by a synthesis that failed
  events, faults

vars == <<stage, link, texts, buffer, tasks, said, exposed, shared, events, faults>>

-----------------------------------------------------------------------------
Texts == 1..MaxEvents

\* A data event: between chunks, with the closing response sent, or with the
\* error sent; the texts it took, those it has still to say, disconnect_stream.
Tasks == {q \in [pc : {"idle", "speaking", "closing", "failing"},
                 took : SUBSET Texts, todo : SUBSET Texts, disc : BOOLEAN] :
            q.todo \subseteq q.took /\ (q.pc # "speaking" => q.todo = {})}

Idle == [pc |-> "idle", took |-> {}, todo |-> {}, disc |-> FALSE]

InProgress == \E h \in Handlers : tasks[h].pc # "idle"

\* Mutant of Chunks: from the end.
ChunksBackwards(todo) == {{t \in todo : t >= first} : first \in todo}

\* get_text_chunks cuts the buffer into chunks of up to 400 characters: the next
\* chunk is some beginning of what is left.
Chunks(todo) == {{t \in todo : t <= last} : last \in todo}

Say(chunk) == said' = [t \in Texts |-> said[t] + IF t \in chunk THEN 1 ELSE 0]

-----------------------------------------------------------------------------
Connect ==
  /\ stage = "new" /\ link = "up"
  /\ stage' = "open"
  /\ UNCHANGED <<link, texts, buffer, tasks, said, exposed, shared, events, faults>>

\* start: the buffer is reset.
StartStream ==
  /\ stage = "open" /\ link = "up"
  /\ events < MaxEvents /\ events' = events + 1
  /\ buffer' = {}
  /\ exposed' = exposed \cup buffer
  /\ UNCHANGED <<stage, link, texts, tasks, said, shared, faults>>

\* delete_session_state.
Delete(how) == stage' = IF stage = "open" THEN how ELSE stage

\* A data event adds its text, if it has any; left is what it leaves unsaid for good.
New(hasText) == IF hasText THEN {texts + 1} ELSE {}

Add(hasText, left) ==
  /\ stage = "open" /\ link = "up"
  /\ events < MaxEvents /\ events' = events + 1
  /\ texts' = IF hasText THEN texts + 1 ELSE texts
  /\ buffer' = buffer \cup New(hasText)
  /\ exposed' = exposed \cup left \cup (IF InProgress THEN New(hasText) ELSE {})

\* Neither is_final nor disconnect_stream: the text waits in the buffer.
DataWaits ==
  /\ Add(TRUE, {})
  /\ UNCHANGED <<stage, link, tasks, said, shared, faults>>

\* Mutant of DataEmpty: disconnect_stream alone does not synthesize.
DataEmptyAlways ==
  /\ Add(FALSE, {})
  /\ Delete("terminated")
  /\ UNCHANGED <<link, tasks, said, shared, faults>>

\* Nothing to say: a final event does nothing, disconnect_stream ends the stream.
DataEmpty ==
  /\ buffer = {} /\ Add(FALSE, {})
  /\ Delete("terminated")
  /\ UNCHANGED <<link, tasks, said, shared, faults>>

\* synthesize_and_emit takes the whole buffer and, without an await, says its
\* first chunk.
DataSpeaks(h, hasText, disc) ==
  LET heard == buffer \cup New(hasText)
  IN /\ tasks[h].pc = "idle"
     /\ Add(hasText, {})
     /\ \E chunk \in Chunks(heard) :
          /\ Say(chunk)
          /\ tasks' = [tasks EXCEPT ![h] =
               [pc |-> "speaking", took |-> heard, todo |-> heard \ chunk, disc |-> disc]]
     /\ shared' = IF InProgress THEN shared \cup heard ELSE shared
     /\ UNCHANGED <<stage, link, faults>>

\* An exception in the inference: an error is sent, the text stays in the buffer.
Failed(h, took, disc) ==
  /\ faults < MaxFaults /\ faults' = faults + 1
  /\ tasks' = [tasks EXCEPT ![h] =
       [pc |-> "failing", took |-> took, todo |-> {}, disc |-> disc]]
  /\ shared' = shared \cup took

DataFails(h, hasText, disc) ==
  LET heard == buffer \cup New(hasText)
  IN /\ tasks[h].pc = "idle" /\ heard # {}
     /\ Add(hasText, IF disc THEN heard ELSE {})
     /\ Failed(h, heard, disc)
     /\ UNCHANGED <<stage, link, said>>

\* The next chunk.
Speak(h) ==
  /\ tasks[h].pc = "speaking"
  /\ \E chunk \in Chunks(tasks[h].todo) :
       Say(chunk) /\ tasks' = [tasks EXCEPT ![h].todo = @ \ chunk]
  /\ UNCHANGED <<stage, link, texts, buffer, exposed, shared, events, faults>>

SpeakFails(h) ==
  /\ tasks[h].pc = "speaking" /\ tasks[h].todo # {}
  /\ Failed(h, tasks[h].took, tasks[h].disc)
  /\ exposed' = IF tasks[h].disc THEN exposed \cup tasks[h].todo ELSE exposed
  /\ UNCHANGED <<stage, link, texts, buffer, said, events>>

\* Mutant of Close: it does not wait for the last chunk.
CloseEarly(h) ==
  /\ tasks[h].pc = "speaking"
  /\ tasks' = [tasks EXCEPT ![h].pc = "closing"]
  /\ UNCHANGED <<stage, link, texts, buffer, said, exposed, shared, events, faults>>

\* After the last chunk a closing response is sent, with the total duration.
Close(h) ==
  /\ tasks[h].pc = "speaking" /\ tasks[h].todo = {}
  /\ tasks' = [tasks EXCEPT ![h].pc = "closing"]
  /\ UNCHANGED <<stage, link, texts, buffer, said, exposed, shared, events, faults>>

\* The end of a data event: disconnect_stream deletes the session.
Finish(h) ==
  /\ tasks' = [tasks EXCEPT ![h] = Idle]
  /\ IF tasks[h].disc THEN Delete("terminated") ELSE stage' = stage

\* Mutant of Reset: the buffer is not reset.
ResetNever(h) ==
  /\ tasks[h].pc = "closing"
  /\ Finish(h)
  /\ UNCHANGED <<link, texts, buffer, said, exposed, shared, events, faults>>

\* The closing response is out: the buffer is reset.
Reset(h) ==
  /\ tasks[h].pc = "closing"
  /\ buffer' = {}
  /\ Finish(h)
  /\ UNCHANGED <<link, texts, said, exposed, shared, events, faults>>

\* Mutant of Recover: the exception ends the event.
RecoverOnly(h) ==
  /\ tasks[h].pc = "failing"
  /\ tasks' = [tasks EXCEPT ![h] = Idle]
  /\ UNCHANGED <<stage, link, texts, buffer, said, exposed, shared, events, faults>>

\* The error is out.
Recover(h) ==
  /\ tasks[h].pc = "failing"
  /\ Finish(h)
  /\ UNCHANGED <<link, texts, buffer, said, exposed, shared, events, faults>>

\* disconnect: the deletion is a task of its own.
Disconnect ==
  /\ link = "up"
  /\ link' = IF stage = "open" THEN "dropping" ELSE "down"
  /\ UNCHANGED <<stage, texts, buffer, tasks, said, exposed, shared, events, faults>>

Drop ==
  /\ link = "dropping"
  /\ link' = "down"
  /\ Delete("dropped")
  /\ UNCHANGED <<texts, buffer, tasks, said, exposed, shared, events, faults>>

-----------------------------------------------------------------------------
Init ==
  /\ stage = "new" /\ link = "up"
  /\ texts = 0 /\ buffer = {}
  /\ tasks = [h \in Handlers |-> Idle]
  /\ said = [t \in Texts |-> 0]
  /\ exposed = {} /\ shared = {}
  /\ events = 0 /\ faults = 0

Step(h) == Speak(h) \/ Close(h) \/ Reset(h) \/ Recover(h)

Next ==
  \/ Connect \/ StartStream \/ DataWaits \/ DataEmpty \/ Disconnect \/ Drop
  \/ \E h \in Handlers :
       \/ \E hasText, disc \in BOOLEAN :
            DataSpeaks(h, hasText, disc) \/ DataFails(h, hasText, disc)
       \/ Step(h) \/ SpeakFails(h)

Spec == Init /\ [][Next]_vars

\* The event loop runs every task that is ready.
Fairness == WF_vars(Drop) /\ \A h \in Handlers : WF_vars(Step(h))

FairSpec == Spec /\ Fairness

-----------------------------------------------------------------------------
TypeOK ==
  /\ stage \in {"new", "open", "terminated", "dropped"}
  /\ link \in {"up", "dropping", "down"}
  /\ texts \in 0..events
  /\ buffer \in SUBSET (1..texts)
  /\ tasks \in [Handlers -> Tasks]
  /\ said \in [Texts -> Nat]
  /\ exposed \in SUBSET Texts /\ shared \in SUBSET Texts
  /\ events \in 0..MaxEvents /\ faults \in 0..MaxFaults

\* Text is heard: a text the server accepted has been said, or waits in the buffer
\* of a stream its client has not ended, unless it came in while another data
\* event was in progress (whose reset discards it unheard), was discarded by
\* a start, or was left by the failure of the synthesis that ended the stream.
TextHeard ==
  \A t \in 1..texts : \/ said[t] > 0 \/ t \in exposed
                      \/ t \in buffer /\ stage # "terminated"

\* Text is heard once: what is said again was taken while another data event was
\* still in progress, or by a synthesis that failed (the buffer is reset
\* only after the last await of a synthesis that succeeds).
HeardOnce == \A t \in Texts : said[t] > 1 => t \in shared

\* Text is first heard in the order in which it was sent, however syntheses overlap:
\* what is passed over is one of the texts that may be lost.
HeardInOrder ==
  \A u \in Texts : \A t \in 1..(u - 1) :
    said[u] > 0 /\ said[t] = 0 => t \in exposed

\* The session goes when its client asks for it or its connection is lost, whatever
\* fails and whatever is being said: client_states does not fill up.
SessionsGo ==
  /\ link = "dropping" ~> stage # "open"
  /\ \A h \in Handlers : tasks[h].disc ~> stage # "open"
=============================================================================
