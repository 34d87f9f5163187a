------------------------ MODULE StreamingSpeechProofs ------------------------
(***************************************************************************)
(* Proofs about StreamingSpeech for any number of overlapping data events, *)
(* any events and failures: its types, and that text is heard, once and in *)
(* order, with exactly the exceptions the overlaps make.                   *)
(***************************************************************************)
EXTENDS StreamingSpeech, TLAPS

USE BoundsAssumption

-----------------------------------------------------------------------------
\* The inductive invariant, in parts.

\* What a data event in progress knows of the text.  Whatever is in the buffer it has
\* taken itself, or it came later; what it took and need not say any more has been
\* said; what it passed over is settled.
Knows(h) ==
  LET q == tasks[h] IN
  /\ q.took \subseteq 1..texts
  /\ q.pc = "idle" => q.took = {}
  /\ q.pc # "idle" => buffer \subseteq q.took \cup exposed
  /\ q.pc = "failing" => q.took \subseteq shared
  /\ \A t \in q.took \ q.todo :
       said[t] > 0 \/ (q.pc = "failing" /\ (q.disc => t \in exposed))
  /\ \A t \in q.todo : said[t] = 0 \/ t \in shared
  /\ \A t \in 1..texts, u \in q.took :
       t < u /\ t \notin q.took => said[t] > 0 \/ t \in exposed

\* Two data events in progress have only shared texts in common.
Apart == \A g, h \in Handlers : g # h => tasks[g].took \cap tasks[h].took \subseteq shared

SaidAreSent == \A t \in Texts : said[t] > 0 => t <= texts

\* Text in the buffer has not been said, unless by a synthesis still in progress.
BufferedIsNew ==
  \A t \in buffer : \/ said[t] = 0 \/ t \in shared
                    \/ \E h \in Handlers : t \in tasks[h].took

Inv ==
  /\ TypeOK
  /\ \A h \in Handlers : Knows(h)
  /\ Apart /\ SaidAreSent /\ BufferedIsNew
  /\ TextHeard /\ HeardOnce /\ HeardInOrder

-----------------------------------------------------------------------------
\* What the helpers do.

\* A chunk is some of what is left, and nothing before it is passed over.
LEMMA ChunkFacts ==
  ASSUME NEW todo \in SUBSET Texts, NEW chunk \in Chunks(todo)
  PROVE  /\ chunk \subseteq todo
         /\ \A u \in chunk, t \in todo : t < u => t \in chunk
<1>1. PICK last \in todo : chunk = {t \in todo : t <= last}
  BY DEF Chunks
<1> QED
  BY <1>1 DEF Texts

\* Saying a chunk counts its texts.
LEMMA SayFacts ==
  ASSUME TypeOK, NEW chunk \in SUBSET Texts, Say(chunk)
  PROVE  /\ said' \in [Texts -> Nat]
         /\ \A t \in Texts : said'[t] = IF t \in chunk THEN said[t] + 1 ELSE said[t]
BY DEF Say, TypeOK

LEMMA SentFacts ==
  ASSUME TypeOK
  PROVE  1..texts \subseteq Texts /\ buffer \subseteq Texts
BY DEF TypeOK, Texts

\* A new text is the next one.
LEMMA AddFacts ==
  ASSUME TypeOK, NEW hasText \in BOOLEAN, NEW left \in SUBSET (buffer \cup New(hasText)),
         Add(hasText, left)
  PROVE  /\ texts' \in 0..events' /\ events' \in 0..MaxEvents /\ texts <= texts'
         /\ 1..texts' = (1..texts) \cup New(hasText) /\ 1..texts' \subseteq Texts
         /\ \A t \in New(hasText) : t > texts
         /\ buffer' = buffer \cup New(hasText) /\ buffer' \in SUBSET (1..texts')
         /\ buffer' \in SUBSET Texts
         /\ exposed' \in SUBSET Texts
         /\ exposed \subseteq exposed' /\ left \subseteq exposed'
         /\ InProgress => New(hasText) \subseteq exposed'
<1>1. texts' \in 0..events' /\ events' \in 0..MaxEvents /\ texts <= texts'
  BY DEF Add, TypeOK
<1>2. 1..texts' = (1..texts) \cup New(hasText) /\ \A t \in New(hasText) : t > texts
  BY DEF Add, TypeOK, New
<1>3. 1..texts' \subseteq Texts
  BY <1>1 DEF Texts
<1>4. buffer' = buffer \cup New(hasText) /\ buffer' \in SUBSET (1..texts')
  BY <1>2 DEF Add, TypeOK
<1>5. buffer' \in SUBSET Texts
  BY <1>3, <1>4
<1>6. /\ exposed' = exposed \cup left \cup (IF InProgress THEN New(hasText) ELSE {})
      /\ exposed \in SUBSET Texts
  BY DEF Add, TypeOK
<1>7. exposed' \in SUBSET Texts
  BY <1>2, <1>3, <1>4, <1>5, <1>6
<1> QED
  BY <1>1, <1>2, <1>3, <1>4, <1>5, <1>6, <1>7

-----------------------------------------------------------------------------
\* Types.

LEMMA TypesStep ==
  ASSUME TypeOK, [Next]_vars
  PROVE  TypeOK'
<1>1. CASE Connect
  BY <1>1 DEF Connect, TypeOK
<1>2. CASE StartStream
  <2>1. exposed' \in SUBSET Texts
    BY <1>2, SentFacts DEF StartStream, TypeOK
  <2>2. texts' \in 0..events' /\ events' \in 0..MaxEvents /\ buffer' \in SUBSET (1..texts')
    BY <1>2 DEF StartStream, TypeOK
  <2> QED
    BY <1>2, <2>1, <2>2 DEF StartStream, TypeOK
<1>3. CASE DataWaits
  <2>1. Add(TRUE, {})
    BY <1>3 DEF DataWaits
  <2> QED
    BY <1>3, <2>1, AddFacts DEF DataWaits, TypeOK
<1>4. CASE DataEmpty
  <2>1. Add(FALSE, {})
    BY <1>4 DEF DataEmpty
  <2> QED
    BY <1>4, <2>1, AddFacts DEF DataEmpty, Delete, TypeOK
<1>5. CASE Disconnect \/ Drop
  BY <1>5 DEF Disconnect, Drop, Delete, TypeOK
<1>6. ASSUME NEW h \in Handlers, NEW hasText \in BOOLEAN, NEW disc \in BOOLEAN,
             DataSpeaks(h, hasText, disc)
      PROVE  TypeOK'
  <2> DEFINE heard == buffer \cup New(hasText)
  <2>1. Add(hasText, {})
    BY <1>6 DEF DataSpeaks
  <2>2. heard \in SUBSET Texts
    BY <2>1, AddFacts
  <2>3. PICK chunk \in Chunks(heard) :
          /\ Say(chunk)
          /\ tasks' = [tasks EXCEPT ![h] =
               [pc |-> "speaking", took |-> heard, todo |-> heard \ chunk, disc |-> disc]]
    BY <1>6 DEF DataSpeaks
  <2>4. chunk \in SUBSET Texts
    BY <2>2, ChunkFacts
  <2>5. said' \in [Texts -> Nat]
    BY <2>3, <2>4, SayFacts
  <2>6. tasks' \in [Handlers -> Tasks]
    BY <2>2, <2>3 DEF TypeOK, Tasks
  <2>7. shared' \in SUBSET Texts
    BY <1>6, <2>1, <2>2, AddFacts DEF DataSpeaks, TypeOK
  <2> QED
    BY <1>6, <2>1, <2>5, <2>6, <2>7, AddFacts DEF DataSpeaks, TypeOK
<1>7. ASSUME NEW h \in Handlers, NEW hasText \in BOOLEAN, NEW disc \in BOOLEAN,
             DataFails(h, hasText, disc)
      PROVE  TypeOK'
  <2> DEFINE heard == buffer \cup New(hasText)
             left == IF disc THEN heard ELSE {}
  <2>1. Add(hasText, left) /\ left \in SUBSET heard
    BY <1>7 DEF DataFails
  <2>2. heard \in SUBSET Texts
    BY <2>1, AddFacts
  <2>3. Failed(h, heard, disc)
    BY <1>7 DEF DataFails
  <2>4. tasks' \in [Handlers -> Tasks]
    BY <2>2, <2>3 DEF Failed, TypeOK, Tasks
  <2>5. shared' \in SUBSET Texts /\ faults' \in 0..MaxFaults
    BY <2>1, <2>2, <2>3, AddFacts DEF Failed, TypeOK
  <2> QED
    BY <1>7, <2>1, <2>4, <2>5, AddFacts DEF DataFails, TypeOK
<1>8. ASSUME NEW h \in Handlers, Speak(h)
      PROVE  TypeOK'
  <2>1. PICK chunk \in Chunks(tasks[h].todo) :
          Say(chunk) /\ tasks' = [tasks EXCEPT ![h].todo = @ \ chunk]
    BY <1>8 DEF Speak
  <2>2. tasks[h] \in Tasks /\ tasks[h].todo \in SUBSET Texts /\ tasks[h].pc = "speaking"
    BY <1>8 DEF Speak, TypeOK, Tasks
  <2>3. chunk \in SUBSET Texts
    BY <2>1, <2>2, ChunkFacts
  <2>4. said' \in [Texts -> Nat]
    BY <2>1, <2>3, SayFacts
  <2>5. tasks' \in [Handlers -> Tasks]
    BY <2>1, <2>2 DEF TypeOK, Tasks
  <2> QED
    BY <1>8, <2>4, <2>5 DEF Speak, TypeOK
<1>9. ASSUME NEW h \in Handlers, SpeakFails(h)
      PROVE  TypeOK'
  <2> tasks[h] \in Tasks
    BY DEF TypeOK
  <2>1. [pc |-> "failing", took |-> tasks[h].took, todo |-> {}, disc |-> tasks[h].disc] \in Tasks
    BY DEF Tasks
  <2>2. tasks' \in [Handlers -> Tasks] /\ shared' \in SUBSET Texts
    BY <1>9, <2>1 DEF SpeakFails, Failed, TypeOK, Tasks
  <2>3. exposed' \in SUBSET Texts
    BY <1>9 DEF SpeakFails, TypeOK, Tasks
  <2> QED
    BY <1>9, <2>2, <2>3 DEF SpeakFails, Failed, TypeOK
<1>10. ASSUME NEW h \in Handlers, Close(h) \/ Reset(h) \/ Recover(h)
       PROVE  TypeOK'
  <2> tasks[h] \in Tasks
    BY DEF TypeOK
  <2>1. Close(h) => [tasks[h] EXCEPT !.pc = "closing"] \in Tasks
    BY DEF Close, Tasks
  <2>2. Idle \in Tasks
    BY DEF Idle, Tasks
  <2>3. tasks' \in [Handlers -> Tasks]
    BY <1>10, <2>1, <2>2 DEF Close, Reset, Recover, Finish, TypeOK
  <2> QED
    BY <1>10, <2>3 DEF Close, Reset, Recover, Finish, Delete, TypeOK
<1>11. CASE UNCHANGED vars
  BY <1>11 DEF vars, TypeOK
<1> QED
  BY <1>1, <1>2, <1>3, <1>4, <1>5, <1>6, <1>7, <1>8, <1>9, <1>10, <1>11 DEF Next, Step

THEOREM StreamTypes == Spec => []TypeOK
<1>1. Init => TypeOK
  BY DEF Init, TypeOK, Idle, Tasks
<1> QED
  BY <1>1, TypesStep, PTL DEF Spec

-----------------------------------------------------------------------------
\* The invariant, action by action.

\* A step that leaves the tasks, the buffer and what is said and sent alone.
LEMMA QuietStep ==
  ASSUME Inv, TypeOK', UNCHANGED <<texts, buffer, tasks, said, exposed, shared>>,
         stage' = "terminated" => stage = "terminated" \/ buffer = {}
  PROVE  Inv'
BY DEF Inv, Knows, Apart, SaidAreSent, BufferedIsNew, TextHeard, HeardOnce, HeardInOrder

LEMMA StartStep ==
  ASSUME Inv, TypeOK', StartStream
  PROVE  Inv'
<1> USE DEF StartStream
<1>1. ASSUME NEW h \in Handlers PROVE Knows(h)'
  BY DEF Inv, Knows
<1>2. Apart' /\ SaidAreSent' /\ BufferedIsNew' /\ HeardOnce'
  BY DEF Inv, Apart, SaidAreSent, BufferedIsNew, HeardOnce
<1>3. TextHeard' /\ HeardInOrder'
  BY DEF Inv, TextHeard, HeardInOrder
<1> QED
  BY <1>1, <1>2, <1>3 DEF Inv

\* What adding a text does to the invariant, whatever else the event does.
LEMMA AddStep ==
  ASSUME Inv, NEW hasText \in BOOLEAN, NEW left \in SUBSET (buffer \cup New(hasText)),
         Add(hasText, left)
  PROVE  /\ \A t \in New(hasText) : said[t] = 0
         /\ \A h \in Handlers : tasks[h].pc # "idle" => buffer' \subseteq tasks[h].took \cup exposed'
         /\ \A h \in Handlers : tasks[h].took \cap New(hasText) = {}
         /\ \A t \in 1..texts' : said[t] > 0 \/ t \in exposed' \/ t \in buffer'
<1>1. ASSUME NEW t \in New(hasText) PROVE said[t] = 0
  <2>1. t \in Texts /\ t > texts
    BY AddFacts DEF Inv
  <2>2. t \in Nat /\ texts \in Nat /\ said[t] \in Nat
    BY <2>1 DEF Inv, TypeOK, Texts
  <2>3. ~ (said[t] > 0)
    BY <2>1, <2>2 DEF Inv, SaidAreSent
  <2> QED
    BY <2>2, <2>3
<1>2. ASSUME NEW h \in Handlers, tasks[h].pc # "idle"
      PROVE  buffer' \subseteq tasks[h].took \cup exposed'
  <2>1. InProgress
    BY <1>2 DEF InProgress
  <2>2. buffer \subseteq tasks[h].took \cup exposed
    BY <1>2 DEF Inv, Knows
  <2> QED
    BY <2>1, <2>2, AddFacts DEF Inv
<1>3. ASSUME NEW h \in Handlers PROVE tasks[h].took \cap New(hasText) = {}
  <2>1. tasks[h].took \subseteq 1..texts
    BY DEF Inv, Knows
  <2>2. texts \in Nat
    BY DEF Inv, TypeOK
  <2> QED
    BY <2>1, <2>2, AddFacts DEF Inv
<1>4. ASSUME NEW t \in 1..texts' PROVE said[t] > 0 \/ t \in exposed' \/ t \in buffer'
  <2>1. t \in 1..texts \/ t \in New(hasText)
    BY AddFacts DEF Inv
  <2>2. t \in 1..texts => said[t] > 0 \/ t \in exposed \/ t \in buffer
    BY DEF Inv, TextHeard
  <2> QED
    BY <2>1, <2>2, AddFacts DEF Inv
<1> QED
  BY <1>1, <1>2, <1>3, <1>4

LEMMA WaitsStep ==
  ASSUME Inv, TypeOK', DataWaits
  PROVE  Inv'
<1>1. Add(TRUE, {}) /\ UNCHANGED <<stage, link, tasks, said, shared, faults>> /\ stage = "open"
  BY DEF DataWaits, Add
<1>2. TypeOK
  BY DEF Inv
<1>3. /\ texts <= texts' /\ texts \in Nat /\ texts' \in Nat
      /\ 1..texts' = (1..texts) \cup New(TRUE) /\ exposed \subseteq exposed'
      /\ buffer' = buffer \cup New(TRUE) /\ \A t \in New(TRUE) : t > texts
  <2>1. texts \in Nat /\ texts' \in Nat
    BY <1>2 DEF TypeOK
  <2>2. {} \in SUBSET (buffer \cup New(TRUE))
    OBVIOUS
  <2> QED
    BY <1>1, <1>2, <2>1, <2>2, AddFacts
<1>4. /\ \A t \in New(TRUE) : said[t] = 0
      /\ \A h \in Handlers : tasks[h].pc # "idle" => buffer' \subseteq tasks[h].took \cup exposed'
      /\ \A h \in Handlers : tasks[h].took \cap New(TRUE) = {}
      /\ \A t \in 1..texts' : said[t] > 0 \/ t \in exposed' \/ t \in buffer'
  BY <1>1, AddStep
<1>5. ASSUME NEW h \in Handlers PROVE Knows(h)'
  <2> tasks' = tasks /\ said' = said /\ shared' = shared
    BY <1>1
  <2>1. Knows(h)
    BY DEF Inv
  <2>2. ASSUME NEW t \in 1..texts', NEW u \in tasks[h].took, t < u, t \notin tasks[h].took
        PROVE  said[t] > 0 \/ t \in exposed'
    <3>1. u \in 1..texts
      BY <2>1 DEF Knows
    <3>2. t \in 1..texts
      BY <2>2, <3>1, <1>3
    <3> QED
      BY <2>1, <2>2, <3>2, <1>3 DEF Knows
  <2> QED
    BY <2>1, <2>2, <1>3, <1>4 DEF Knows
<1>6. Apart' /\ SaidAreSent' /\ HeardOnce'
  BY <1>1, <1>3 DEF Inv, Apart, SaidAreSent, HeardOnce, Texts
<1>7. BufferedIsNew'
  BY <1>1, <1>3, <1>4 DEF Inv, BufferedIsNew
<1>8. TextHeard' /\ HeardInOrder'
  BY <1>1, <1>3, <1>4 DEF Inv, TextHeard, HeardInOrder
<1> QED
  BY <1>5, <1>6, <1>7, <1>8 DEF Inv

LEMMA EmptyStep ==
  ASSUME Inv, TypeOK', DataEmpty
  PROVE  Inv'
<1>1. New(FALSE) = {}
  BY DEF New
<1>2. UNCHANGED <<texts, buffer, tasks, said, exposed, shared>> /\ buffer = {}
  BY <1>1 DEF DataEmpty, Add
<1> QED
  BY <1>2, QuietStep

\* Text is said: what was said stays said, and each text of the chunk counts once more.
LEMMA SaidStep ==
  ASSUME Inv, NEW h \in Handlers, NEW todo \in SUBSET Texts, NEW chunk \in Chunks(todo),
         Say(chunk)
  PROVE  /\ chunk \subseteq todo
         /\ \A t \in Texts : said[t] \in Nat /\ said'[t] \in Nat
         /\ \A t \in Texts : said[t] > 0 => said'[t] > 0
         /\ \A t \in chunk : said'[t] > 0
         /\ \A t \in Texts \ chunk : said'[t] = said[t]
         /\ \A t \in chunk : said[t] = 0 => said'[t] = 1
         /\ \A u \in chunk, t \in todo : t < u => t \in chunk
<1>1. chunk \subseteq todo /\ \A u \in chunk, t \in todo : t < u => t \in chunk
  BY ChunkFacts
<1>2. chunk \in SUBSET Texts
  BY <1>1
<1>3. \A t \in Texts : said'[t] = IF t \in chunk THEN said[t] + 1 ELSE said[t]
  BY <1>2, SayFacts DEF Inv
<1>4. \A t \in Texts : said[t] \in Nat
  BY DEF Inv, TypeOK
<1> QED
  BY <1>1, <1>2, <1>3, <1>4

LEMMA SpeakStep ==
  ASSUME Inv, TypeOK', NEW h \in Handlers, Speak(h)
  PROVE  Inv'
<1>1. PICK chunk \in Chunks(tasks[h].todo) :
        Say(chunk) /\ tasks' = [tasks EXCEPT ![h].todo = @ \ chunk]
  BY DEF Speak
<1>2. /\ tasks[h] \in Tasks /\ tasks[h].todo \in SUBSET Texts /\ tasks[h].took \in SUBSET Texts
      /\ tasks[h].todo \subseteq tasks[h].took /\ tasks[h].pc = "speaking"
  BY DEF Speak, Inv, TypeOK, Tasks
<1>3. UNCHANGED <<stage, texts, buffer, exposed, shared>>
  BY DEF Speak
<1> DEFINE todo == tasks[h].todo
<1>4. /\ chunk \subseteq todo
      /\ \A t \in Texts : said[t] \in Nat /\ said'[t] \in Nat
      /\ \A t \in Texts : said[t] > 0 => said'[t] > 0
      /\ \A t \in chunk : said'[t] > 0
      /\ \A t \in Texts \ chunk : said'[t] = said[t]
      /\ \A t \in chunk : said[t] = 0 => said'[t] = 1
      /\ \A u \in chunk, t \in todo : t < u => t \in chunk
  BY <1>1, <1>2, SaidStep
<1>5. /\ \A g \in Handlers : tasks'[g].took = tasks[g].took /\ tasks'[g].pc = tasks[g].pc
                             /\ tasks'[g].disc = tasks[g].disc
      /\ \A g \in Handlers : tasks'[g].todo = IF g = h THEN todo \ chunk ELSE tasks[g].todo
  BY <1>1, <1>2 DEF Inv, TypeOK, Tasks
<1>6. \A t \in chunk : said[t] = 0 \/ t \in shared
  BY <1>4 DEF Inv, Knows
<1>7. ASSUME NEW g \in Handlers PROVE Knows(g)'
  <2>1. Knows(g) /\ Knows(h)
    BY DEF Inv
  <2>2. tasks[g].took \subseteq Texts /\ tasks[g].todo \subseteq tasks[g].took
    BY DEF Inv, TypeOK, Tasks
  <2>3. ASSUME NEW t \in tasks'[g].took \ tasks'[g].todo
        PROVE  said'[t] > 0 \/ (tasks'[g].pc = "failing" /\ (tasks'[g].disc => t \in exposed'))
    <3>1. t \in chunk \/ t \in tasks[g].took \ tasks[g].todo
      BY <1>5
    <3>2. t \in Texts
      BY <2>2, <1>5
    <3>3. CASE t \in chunk
      <4>1. said'[t] > 0
        BY <3>3, <1>4
      <4> QED
        BY <4>1
    <3>4. CASE t \in tasks[g].took \ tasks[g].todo
      <4>1. said[t] > 0 \/ (tasks[g].pc = "failing" /\ (tasks[g].disc => t \in exposed))
        BY <2>1, <3>4 DEF Knows
      <4> QED
        BY <4>1, <3>2, <1>3, <1>4, <1>5
    <3> QED
      BY <3>1, <3>3, <3>4
  <2>4. ASSUME NEW t \in tasks'[g].todo PROVE said'[t] = 0 \/ t \in shared'
    <3>1. CASE t \notin chunk
      BY <3>1, <2>1, <2>2, <1>3, <1>4, <1>5 DEF Knows
    <3>2. CASE t \in chunk
      <4>1. g # h /\ t \in tasks[g].took \cap tasks[h].took
        BY <3>2, <2>2, <1>2, <1>4, <1>5
      <4> QED
        BY <4>1, <1>3 DEF Inv, Apart
    <3> QED
      BY <3>1, <3>2
  <2>5. \A t \in 1..texts', u \in tasks'[g].took :
          t < u /\ t \notin tasks'[g].took => said'[t] > 0 \/ t \in exposed'
    BY <2>1, <1>3, <1>4, <1>5, SentFacts DEF Knows, Inv
  <2> QED
    BY <2>1, <2>3, <2>4, <2>5, <1>3, <1>5 DEF Knows
<1>8. Apart'
  BY <1>3, <1>5 DEF Inv, Apart
<1>9. SaidAreSent'
  <2>1. chunk \subseteq 1..texts
    BY <1>2, <1>4 DEF Inv, Knows
  <2>2. texts \in Nat
    BY DEF Inv, TypeOK
  <2>3. \A t \in chunk : t <= texts
    BY <2>1, <2>2
  <2>4. \A t \in Texts \ chunk : said'[t] > 0 => t <= texts
    BY <1>4 DEF Inv, SaidAreSent
  <2> QED
    BY <2>3, <2>4, <1>3 DEF SaidAreSent
<1>10. BufferedIsNew'
  <2>1. ASSUME NEW t \in buffer
        PROVE  said'[t] = 0 \/ t \in shared \/ \E g \in Handlers : t \in tasks'[g].took
    <3>1. t \in Texts
      BY SentFacts DEF Inv
    <3>2. CASE t \in chunk
      BY <3>2, <1>2, <1>4, <1>5
    <3>3. CASE t \notin chunk
      BY <3>1, <3>3, <1>4, <1>5 DEF Inv, BufferedIsNew
    <3> QED
      BY <3>2, <3>3
  <2> QED
    BY <2>1, <1>3 DEF BufferedIsNew
<1>11. TextHeard'
  BY <1>3, <1>4, SentFacts DEF Inv, TextHeard
<1>12. HeardOnce'
  BY <1>3, <1>4, <1>6 DEF Inv, HeardOnce
<1>13. HeardInOrder'
  <2>1. ASSUME NEW u \in Texts, NEW t \in 1..(u - 1), said'[u] > 0, said'[t] = 0
        PROVE  t \in exposed
    <3>1. t \in Texts /\ t < u /\ u \in Nat
      BY DEF Texts
    <3>2. said[t] = 0 /\ t \notin chunk
      BY <2>1, <3>1, <1>4
    <3>3. CASE said[u] > 0
      BY <3>2, <3>3 DEF Inv, HeardInOrder
    <3>4. CASE u \in chunk
      <4>1. t \notin todo
        BY <3>1, <3>2, <3>4, <1>4
      <4>a. Knows(h) /\ u \in tasks[h].took
        BY <3>4, <1>2, <1>4 DEF Inv
      <4>b. u \in 1..texts /\ texts \in Nat
        BY <4>a DEF Knows, Inv, TypeOK
      <4>2. Knows(h) /\ u \in tasks[h].took /\ u \in 1..texts /\ t \in 1..texts
        BY <4>a, <4>b, <3>1
      <4>3. t \notin tasks[h].took
        BY <4>1, <4>2, <3>2, <1>2 DEF Knows
      <4> QED
        BY <4>2, <4>3, <3>1, <3>2 DEF Knows
    <3> QED
      BY <2>1, <3>3, <3>4, <1>4
  <2> QED
    BY <2>1, <1>3 DEF HeardInOrder
<1> QED
  BY <1>7, <1>8, <1>9, <1>10, <1>11, <1>12, <1>13 DEF Inv

LEMMA TakeStep ==
  ASSUME Inv, TypeOK', NEW h \in Handlers, NEW hasText \in BOOLEAN, NEW disc \in BOOLEAN,
         DataSpeaks(h, hasText, disc)
  PROVE  Inv'
<1> DEFINE heard == buffer \cup New(hasText)
<1>1. /\ tasks[h].pc = "idle" /\ Add(hasText, {}) /\ stage = "open" /\ stage' = "open"
      /\ shared' = IF InProgress THEN shared \cup heard ELSE shared
  BY DEF DataSpeaks, Add
<1>2. PICK chunk \in Chunks(heard) :
        /\ Say(chunk)
        /\ tasks' = [tasks EXCEPT ![h] =
             [pc |-> "speaking", took |-> heard, todo |-> heard \ chunk, disc |-> disc]]
  BY DEF DataSpeaks
<1>3. TypeOK
  BY DEF Inv
<1>4. {} \in SUBSET (buffer \cup New(hasText))
  OBVIOUS
<1>5. /\ texts \in Nat /\ texts' \in Nat /\ texts <= texts'
      /\ 1..texts' = (1..texts) \cup New(hasText) /\ 1..texts' \subseteq Texts
      /\ \A t \in New(hasText) : t > texts
      /\ buffer' = heard /\ heard \subseteq 1..texts' /\ heard \subseteq Texts
      /\ exposed \subseteq exposed'
  <2>1. texts \in Nat /\ texts' \in Nat
    BY <1>3 DEF TypeOK
  <2>2. heard \subseteq 1..texts' /\ heard \subseteq Texts
    BY <1>1, <1>3, <1>4, AddFacts
  <2> QED
    BY <1>1, <1>3, <1>4, <2>1, <2>2, AddFacts
<1>6. /\ \A t \in New(hasText) : said[t] = 0
      /\ \A g \in Handlers : tasks[g].pc # "idle" => heard \subseteq tasks[g].took \cup exposed'
      /\ \A g \in Handlers : tasks[g].took \cap New(hasText) = {}
      /\ \A t \in 1..texts' : said[t] > 0 \/ t \in exposed' \/ t \in heard
  BY <1>1, <1>4, <1>5, AddStep
<1>7. /\ chunk \subseteq heard
      /\ \A t \in Texts : said[t] \in Nat /\ said'[t] \in Nat
      /\ \A t \in Texts : said[t] > 0 => said'[t] > 0
      /\ \A t \in chunk : said'[t] > 0
      /\ \A t \in Texts \ chunk : said'[t] = said[t]
      /\ \A t \in chunk : said[t] = 0 => said'[t] = 1
      /\ \A u \in chunk, t \in heard : t < u => t \in chunk
  BY <1>2, <1>5, SaidStep
<1>8. /\ tasks'[h] = [pc |-> "speaking", took |-> heard, todo |-> heard \ chunk, disc |-> disc]
      /\ \A g \in Handlers \ {h} : tasks'[g] = tasks[g]
  BY <1>2, <1>3 DEF TypeOK
<1>9. shared \subseteq shared' /\ (InProgress => heard \subseteq shared')
  BY <1>1
<1> HIDE DEF heard
\* Text in the buffer is new, unless somebody else is at it.
<1>10. ASSUME NEW t \in heard PROVE said[t] = 0 \/ t \in shared'
  <2>1. CASE t \in New(hasText)
    BY <2>1, <1>6
  <2>2. CASE t \in buffer /\ \E g \in Handlers : t \in tasks[g].took
    <3>1. PICK g \in Handlers : t \in tasks[g].took
      BY <2>2
    <3>2. tasks[g].pc # "idle"
      BY <3>1 DEF Inv, Knows
    <3> QED
      BY <3>2, <1>9 DEF InProgress
  <2>3. CASE t \in buffer /\ ~ \E g \in Handlers : t \in tasks[g].took
    BY <2>3, <1>9 DEF Inv, BufferedIsNew
  <2> QED
    BY <2>1, <2>2, <2>3 DEF heard
<1>11. ASSUME NEW g \in Handlers, g # h, NEW t \in heard, t \in tasks[g].took
       PROVE  t \in shared'
  <2>1. tasks[g].pc # "idle"
    BY <1>11 DEF Inv, Knows
  <2> QED
    BY <2>1, <1>9 DEF InProgress
<1>12. Knows(h)'
  <2> DEFINE q == tasks'[h]
  <2>1. /\ q.pc = "speaking" /\ q.took = heard /\ q.todo = heard \ chunk
    BY <1>8
  <2> HIDE DEF q
  <2>2. q.took \subseteq 1..texts' /\ buffer' \subseteq q.took \cup exposed'
    BY <2>1, <1>5
  <2>3. \A t \in q.took \ q.todo : said'[t] > 0
    BY <2>1, <1>7
  <2>4. \A t \in q.todo : said'[t] = 0 \/ t \in shared'
    BY <2>1, <1>5, <1>7, <1>10
  <2>5. \A t \in 1..texts', u \in q.took : t < u /\ t \notin q.took => said'[t] > 0 \/ t \in exposed'
    BY <2>1, <1>5, <1>6, <1>7
  <2> QED
    <3>1. q.pc = "speaking"
      BY <2>1
    <3> QED
      BY <3>1, <2>2, <2>3, <2>4, <2>5 DEF Knows, q
<1>13. ASSUME NEW g \in Handlers, g # h PROVE Knows(g)'
  <2>0. Knows(g) /\ tasks'[g] = tasks[g]
    BY <1>8, <1>13 DEF Inv
  <2> DEFINE q == tasks[g]
  <2>1. q.took \subseteq 1..texts /\ q.took \subseteq Texts /\ q.todo \subseteq q.took
    BY <2>0, <1>3 DEF Knows, TypeOK, Tasks
  <2>2. q.took \subseteq 1..texts' /\ (q.pc = "idle" => q.took = {})
    BY <2>0, <2>1, <1>5 DEF Knows
  <2>3. q.pc # "idle" => buffer' \subseteq q.took \cup exposed'
    BY <1>5, <1>6
  <2>4. \A t \in q.took \ q.todo : said'[t] > 0 \/ (q.pc = "failing" /\ (q.disc => t \in exposed'))
    BY <2>0, <2>1, <1>5, <1>7 DEF Knows
  <2>5. ASSUME NEW t \in q.todo PROVE said'[t] = 0 \/ t \in shared'
    <3>1. CASE t \in chunk
      BY <3>1, <2>1, <1>7, <1>11, <1>13
    <3>2. CASE t \notin chunk
      BY <3>2, <2>0, <2>1, <1>7, <1>9 DEF Knows
    <3> QED
      BY <3>1, <3>2
  <2>6. ASSUME NEW t \in 1..texts', NEW u \in q.took, t < u, t \notin q.took
        PROVE  said'[t] > 0 \/ t \in exposed'
    <3>1. u \in 1..texts /\ t \in 1..texts
      BY <2>1, <2>6, <1>5
    <3> QED
      BY <2>0, <2>6, <3>1, <1>5, <1>7 DEF Knows
  <2>7. q.pc = "failing" => q.took \subseteq shared'
    BY <2>0, <1>9 DEF Knows
  <2> QED
    BY <2>0, <2>2, <2>3, <2>4, <2>5, <2>6, <2>7 DEF Knows
<1>14. Apart'
  <2>1. ASSUME NEW f \in Handlers, NEW g \in Handlers, f # g
        PROVE  tasks'[f].took \cap tasks'[g].took \subseteq shared'
    <3>1. CASE f = h
      BY <2>1, <3>1, <1>8, <1>11
    <3>2. CASE g = h
      BY <2>1, <3>2, <1>8, <1>11
    <3>3. CASE f # h /\ g # h
      BY <2>1, <3>3, <1>8, <1>9 DEF Inv, Apart
    <3> QED
      BY <3>1, <3>2, <3>3
  <2> QED
    BY <2>1 DEF Apart
<1>15. SaidAreSent'
  <2>1. ASSUME NEW t \in Texts, said'[t] > 0 PROVE t <= texts'
    <3>1. CASE t \in chunk
      BY <3>1, <1>5, <1>7
    <3>2. CASE t \notin chunk
      <4>1. t <= texts
        BY <2>1, <3>2, <1>7 DEF Inv, SaidAreSent
      <4> QED
        BY <4>1, <1>5 DEF Texts
    <3> QED
      BY <3>1, <3>2
  <2> QED
    BY <2>1 DEF SaidAreSent
<1>16. BufferedIsNew'
  BY <1>5, <1>8 DEF BufferedIsNew
<1>17. TextHeard'
  BY <1>1, <1>5, <1>6, <1>7 DEF TextHeard
<1>18. HeardOnce'
  <2>1. ASSUME NEW t \in Texts, said'[t] > 1 PROVE t \in shared'
    <3>1. CASE t \in chunk
      BY <2>1, <3>1, <1>7, <1>10
    <3>2. CASE t \notin chunk
      BY <2>1, <3>2, <1>7, <1>9 DEF Inv, HeardOnce
    <3> QED
      BY <3>1, <3>2
  <2> QED
    BY <2>1 DEF HeardOnce
<1>19. HeardInOrder'
  <2>1. ASSUME NEW u \in Texts, NEW t \in 1..(u - 1), said'[u] > 0, said'[t] = 0
        PROVE  t \in exposed'
    <3>1. t \in Texts /\ t < u /\ u \in Nat
      BY DEF Texts
    <3>2. said[t] = 0 /\ t \notin chunk
      BY <2>1, <3>1, <1>7
    <3>3. CASE u \notin chunk
      <4>1. said[u] > 0
        BY <2>1, <3>3, <1>7
      <4> QED
        BY <4>1, <3>2, <1>5 DEF Inv, HeardInOrder
    <3>4. CASE u \in chunk
      <4>1. t \notin heard
        BY <3>1, <3>2, <3>4, <1>7
      <4>2. u \in 1..texts'
        BY <3>4, <1>5, <1>7
      <4>3. t \in 1..texts'
        BY <4>2, <3>1, <1>5
      <4> QED
        BY <4>1, <4>3, <3>2, <1>6
    <3> QED
      BY <3>3, <3>4
  <2> QED
    BY <2>1 DEF HeardInOrder
<1> QED
  BY <1>12, <1>13, <1>14, <1>15, <1>16, <1>17, <1>18, <1>19 DEF Inv

\* A synthesis that fails at its first chunk.
LEMMA TakeFailsStep ==
  ASSUME Inv, TypeOK', NEW h \in Handlers, NEW hasText \in BOOLEAN, NEW disc \in BOOLEAN,
         DataFails(h, hasText, disc)
  PROVE  Inv'
<1> DEFINE heard == buffer \cup New(hasText)
           left == IF disc THEN heard ELSE {}
<1>1. /\ tasks[h].pc = "idle" /\ Add(hasText, left) /\ stage = "open" /\ stage' = "open"
      /\ said' = said /\ shared' = shared \cup heard
      /\ tasks' = [tasks EXCEPT ![h] =
           [pc |-> "failing", took |-> heard, todo |-> {}, disc |-> disc]]
  BY DEF DataFails, Failed, Add
<1>3. TypeOK
  BY DEF Inv
<1>4. left \in SUBSET (buffer \cup New(hasText))
  OBVIOUS
<1> HIDE DEF left
<1>5. /\ texts \in Nat /\ texts' \in Nat /\ texts <= texts'
      /\ 1..texts' = (1..texts) \cup New(hasText) /\ 1..texts' \subseteq Texts
      /\ \A t \in New(hasText) : t > texts
      /\ buffer' = heard /\ heard \subseteq 1..texts' /\ heard \subseteq Texts
      /\ exposed \subseteq exposed' /\ left \subseteq exposed'
  <2>1. texts \in Nat /\ texts' \in Nat
    BY <1>3 DEF TypeOK
  <2>2. heard \subseteq 1..texts' /\ heard \subseteq Texts
    BY <1>1, <1>3, <1>4, AddFacts
  <2> QED
    BY <1>1, <1>3, <1>4, <2>1, <2>2, AddFacts
<1>6. /\ \A t \in New(hasText) : said[t] = 0
      /\ \A g \in Handlers : tasks[g].pc # "idle" => heard \subseteq tasks[g].took \cup exposed'
      /\ \A g \in Handlers : tasks[g].took \cap New(hasText) = {}
      /\ \A t \in 1..texts' : said[t] > 0 \/ t \in exposed' \/ t \in heard
  BY <1>1, <1>4, <1>5, AddStep
<1>8. /\ tasks'[h] = [pc |-> "failing", took |-> heard, todo |-> {}, disc |-> disc]
      /\ \A g \in Handlers \ {h} : tasks'[g] = tasks[g]
  BY <1>1, <1>3 DEF TypeOK
<1>9. shared \subseteq shared' /\ heard \subseteq shared' /\ (disc => heard \subseteq exposed')
  BY <1>1, <1>5 DEF left
<1> HIDE DEF heard
<1>12. Knows(h)'
  <2> DEFINE q == tasks'[h]
  <2>1. q.pc = "failing" /\ q.took = heard /\ q.todo = {} /\ q.disc = disc
    BY <1>8
  <2> HIDE DEF q
  <2>2. q.took \subseteq 1..texts' /\ buffer' \subseteq q.took \cup exposed'
    BY <2>1, <1>5
  <2>3. \A t \in q.took \ q.todo : q.disc => t \in exposed'
    BY <2>1, <1>9
  <2>4. \A t \in 1..texts', u \in q.took : t < u /\ t \notin q.took => said'[t] > 0 \/ t \in exposed'
    BY <2>1, <1>1, <1>6
  <2>5. q.took \subseteq shared'
    BY <2>1, <1>9
  <2> QED
    BY <2>1, <2>2, <2>3, <2>4, <2>5 DEF Knows, q
<1>13. ASSUME NEW g \in Handlers, g # h PROVE Knows(g)'
  <2>0. Knows(g) /\ tasks'[g] = tasks[g]
    BY <1>8, <1>13 DEF Inv
  <2> DEFINE q == tasks[g]
  <2>1. q.took \subseteq 1..texts /\ q.took \subseteq Texts /\ q.todo \subseteq q.took
    BY <2>0, <1>3 DEF Knows, TypeOK, Tasks
  <2>2. q.took \subseteq 1..texts' /\ (q.pc = "idle" => q.took = {})
    BY <2>0, <2>1, <1>5 DEF Knows
  <2>3. q.pc # "idle" => buffer' \subseteq q.took \cup exposed'
    BY <1>5, <1>6
  <2>6. ASSUME NEW t \in 1..texts', NEW u \in q.took, t < u, t \notin q.took
        PROVE  said'[t] > 0 \/ t \in exposed'
    <3>1. u \in 1..texts /\ t \in 1..texts
      BY <2>1, <2>6, <1>5
    <3> QED
      BY <2>0, <2>6, <3>1, <1>1, <1>5 DEF Knows
  <2> QED
    BY <2>0, <2>2, <2>3, <2>6, <1>1, <1>5, <1>9 DEF Knows
<1>14. Apart'
  BY <1>8, <1>9 DEF Inv, Apart
<1>15. SaidAreSent'
  BY <1>1, <1>5 DEF Inv, SaidAreSent, Texts
<1>16. BufferedIsNew'
  BY <1>5, <1>9 DEF BufferedIsNew
<1>17. TextHeard' /\ HeardOnce' /\ HeardInOrder'
  BY <1>1, <1>5, <1>6, <1>9 DEF Inv, TextHeard, HeardOnce, HeardInOrder
<1> QED
  BY <1>12, <1>13, <1>14, <1>15, <1>16, <1>17 DEF Inv

\* A synthesis that fails later.
LEMMA SpeakFailsStep ==
  ASSUME Inv, TypeOK', NEW h \in Handlers, SpeakFails(h)
  PROVE  Inv'
<1>1. /\ UNCHANGED <<stage, texts, buffer, said>> /\ tasks[h].pc = "speaking"
      /\ shared' = shared \cup tasks[h].took
      /\ exposed' = IF tasks[h].disc THEN exposed \cup tasks[h].todo ELSE exposed
  BY DEF SpeakFails, Failed
<1>2. /\ tasks'[h] = [pc |-> "failing", took |-> tasks[h].took, todo |-> {}, disc |-> tasks[h].disc]
      /\ \A g \in Handlers \ {h} : tasks'[g] = tasks[g]
  BY DEF SpeakFails, Failed, Inv, TypeOK
<1>3. exposed \subseteq exposed' /\ shared \subseteq shared' /\ tasks[h].took \subseteq shared'
      /\ (tasks[h].disc => tasks[h].todo \subseteq exposed')
  BY <1>1
<1>4. Knows(h)'
  <2>1. Knows(h)
    BY DEF Inv
  <2> DEFINE q == tasks'[h]
  <2>2. q.pc = "failing" /\ q.took = tasks[h].took /\ q.todo = {} /\ q.disc = tasks[h].disc
    BY <1>2
  <2> HIDE DEF q
  <2>3. buffer \subseteq q.took \cup exposed' /\ q.took \subseteq 1..texts /\ q.took \subseteq shared'
    BY <2>1, <2>2, <1>1, <1>3 DEF Knows
  <2>4. ASSUME NEW t \in q.took, q.disc PROVE said[t] > 0 \/ t \in exposed'
    BY <2>1, <2>2, <2>4, <1>1, <1>3 DEF Knows
  <2>5. \A t \in 1..texts, u \in q.took : t < u /\ t \notin q.took => said[t] > 0 \/ t \in exposed'
    BY <2>1, <2>2, <1>3 DEF Knows
  <2> QED
    BY <2>2, <2>3, <2>4, <2>5, <1>1 DEF Knows, q
<1>5. ASSUME NEW g \in Handlers, g # h PROVE Knows(g)'
  <2>1. Knows(g) /\ tasks'[g] = tasks[g]
    BY <1>2, <1>5 DEF Inv
  <2> QED
    BY <2>1, <1>1, <1>3 DEF Knows
<1>6. \A g \in Handlers : tasks'[g].took = tasks[g].took
  BY <1>2
<1>7. Apart' /\ BufferedIsNew'
  BY <1>1, <1>3, <1>6 DEF Inv, Apart, BufferedIsNew
<1>8. SaidAreSent' /\ TextHeard' /\ HeardOnce' /\ HeardInOrder'
  BY <1>1, <1>3 DEF Inv, SaidAreSent, TextHeard, HeardOnce, HeardInOrder
<1> QED
  BY <1>4, <1>5, <1>7, <1>8 DEF Inv

LEMMA CloseStep ==
  ASSUME Inv, TypeOK', NEW h \in Handlers, Close(h)
  PROVE  Inv'
<1>1. /\ UNCHANGED <<stage, texts, buffer, said, exposed, shared>>
      /\ tasks[h].pc = "speaking"
  BY DEF Close
<1>2. /\ \A g \in Handlers : tasks'[g].took = tasks[g].took /\ tasks'[g].todo = tasks[g].todo
      /\ tasks'[h].pc = "closing" /\ \A g \in Handlers \ {h} : tasks'[g] = tasks[g]
  BY DEF Close, Inv, TypeOK, Tasks
<1>3. ASSUME NEW g \in Handlers PROVE Knows(g)'
  <2>1. Knows(g)
    BY DEF Inv
  <2>2. CASE g = h
    BY <2>1, <2>2, <1>1, <1>2 DEF Knows
  <2>3. CASE g # h
    BY <2>1, <2>3, <1>1, <1>2 DEF Knows
  <2> QED
    BY <2>2, <2>3
<1>4. Apart' /\ BufferedIsNew' /\ SaidAreSent' /\ TextHeard' /\ HeardOnce' /\ HeardInOrder'
  BY <1>1, <1>2 DEF Inv, Apart, BufferedIsNew, SaidAreSent, TextHeard, HeardOnce, HeardInOrder
<1> QED
  BY <1>3, <1>4 DEF Inv

\* The end of a data event, after which the buffer is what it was or empty: it
\* held only what the event has settled, or what came later.
LEMMA FinishStep ==
  ASSUME Inv, TypeOK', NEW h \in Handlers, Reset(h) \/ Recover(h)
  PROVE  Inv'
<1>1. /\ UNCHANGED <<texts, said, exposed, shared>>
      /\ tasks[h].pc \in {"closing", "failing"} /\ tasks[h].todo = {}
      /\ stage' = "terminated" => stage = "terminated" \/ tasks[h].disc
      /\ \/ buffer' = {} /\ tasks[h].pc = "closing"
         \/ buffer' = buffer /\ tasks[h].pc = "failing"
  <2>1. tasks[h] \in Tasks
    BY DEF Inv, TypeOK
  <2> QED
    BY <2>1 DEF Reset, Recover, Finish, Delete, Tasks
<1>2. tasks'[h] = Idle /\ \A g \in Handlers \ {h} : tasks'[g] = tasks[g]
  BY DEF Reset, Recover, Finish, Inv, TypeOK
<1>3. \A g \in Handlers : tasks'[g].took \subseteq tasks[g].took
  BY <1>2 DEF Idle
<1>4. ASSUME NEW g \in Handlers PROVE Knows(g)'
  <2>1. CASE g = h
    BY <2>1, <1>2 DEF Knows, Idle
  <2>2. CASE g # h
    <3>1. Knows(g) /\ tasks'[g] = tasks[g] /\ buffer' \subseteq buffer
      BY <2>2, <1>1, <1>2 DEF Inv
    <3> QED
      BY <3>1, <1>1 DEF Knows
  <2> QED
    BY <2>1, <2>2
<1>5. Apart'
  BY <1>1, <1>3 DEF Inv, Apart
<1>6. BufferedIsNew'
  <2>1. ASSUME NEW t \in buffer, tasks[h].pc = "failing", t \notin shared, said[t] # 0
        PROVE  \E g \in Handlers : t \in tasks'[g].took
    <3>1. PICK g \in Handlers : t \in tasks[g].took
      BY <2>1 DEF Inv, BufferedIsNew
    <3>2. g # h
      BY <2>1, <3>1 DEF Inv, Knows
    <3> QED
      BY <3>1, <3>2, <1>2
  <2> QED
    BY <2>1, <1>1 DEF BufferedIsNew
<1>7. TextHeard'
  <2>1. Knows(h)
    BY DEF Inv
  <2>2. ASSUME NEW t \in 1..texts
        PROVE  said[t] > 0 \/ t \in exposed \/ (t \in buffer' /\ stage' # "terminated")
    <3>1. CASE t \notin buffer
      BY <3>1 DEF Inv, TextHeard
    <3>2. CASE t \in buffer /\ tasks[h].pc = "closing"
      BY <2>1, <3>2, <1>1 DEF Knows
    <3>3. CASE t \in buffer /\ tasks[h].pc = "failing" /\ tasks[h].disc
      BY <2>1, <3>3, <1>1 DEF Knows
    <3>4. CASE t \in buffer /\ tasks[h].pc = "failing" /\ ~ tasks[h].disc
      BY <3>4, <1>1 DEF Inv, TextHeard
    <3> QED
      BY <3>1, <3>2, <3>3, <3>4, <1>1
  <2> QED
    BY <2>2, <1>1 DEF TextHeard
<1>8. SaidAreSent' /\ HeardOnce' /\ HeardInOrder'
  BY <1>1 DEF Inv, SaidAreSent, HeardOnce, HeardInOrder
<1> QED
  BY <1>4, <1>5, <1>6, <1>7, <1>8 DEF Inv

LEMMA InvStep ==
  ASSUME Inv, [Next]_vars
  PROVE  Inv'
<1>1. TypeOK'
  BY TypesStep DEF Inv
<1>2. CASE Connect \/ Disconnect \/ Drop \/ UNCHANGED vars
  <2>1. UNCHANGED <<texts, buffer, tasks, said, exposed, shared>>
    BY <1>2 DEF Connect, Disconnect, Drop, vars
  <2>2. stage' = "terminated" => stage = "terminated"
    BY <1>2 DEF Connect, Disconnect, Drop, Delete, vars
  <2> QED
    BY <1>1, <2>1, <2>2, QuietStep
<1> QED
  BY <1>1, <1>2, StartStep, WaitsStep, EmptyStep, SpeakStep, TakeStep, TakeFailsStep,
     SpeakFailsStep, CloseStep, FinishStep DEF Next, Step

LEMMA InvInit == Init => Inv
BY DEF Init, Inv, TypeOK, Idle, Tasks, Knows, Apart, SaidAreSent, BufferedIsNew,
       TextHeard, HeardOnce, HeardInOrder, Texts

-----------------------------------------------------------------------------
\* Text the server accepted is said, or waits in the buffer of a stream that its
\* client has not ended, or is one of the texts an overlap, a start or a failure
\* may lose.
THEOREM TextIsHeard == Spec => []TextHeard
<1>2. Inv => TextHeard
  BY DEF Inv
<1> QED
  BY <1>2, InvInit, InvStep, PTL DEF Spec

\* It is said once, but for overlaps and failures.
THEOREM TextIsHeardOnce == Spec => []HeardOnce
<1>2. Inv => HeardOnce
  BY DEF Inv
<1> QED
  BY <1>2, InvInit, InvStep, PTL DEF Spec

\* And first in the order in which it was sent, but for text that may be lost.
THEOREM TextIsHeardInOrder == Spec => []HeardInOrder
<1>2. Inv => HeardInOrder
  BY DEF Inv
<1> QED
  BY <1>2, InvInit, InvStep, PTL DEF Spec
=============================================================================
