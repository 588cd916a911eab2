----------------------------- MODULE LiveMessages ------------------------------
(***************************************************************************)
(* From what an agent says to what the page shows of it while it is saying  *)
(* it: the messages of a run as LangGraph streams them, their names         *)
(* (_make_lc_message_to_standard), the worker's buffer                      *)
(* (StreamEventSmoother), the Redis stream, and the page, which may lose    *)
(* the connection anywhere and then reads the stream again from its start.  *)
(*                                                                         *)
(* How a run ends is RunWorker's, which entries Redis keeps is RunMonitor's *)
(* and which messages are saved is ThreadStream's concern.                  *)
(***************************************************************************)
EXTENDS Integers, FiniteSets, SequencesExt

CONSTANTS
  Messages,       \* the messages of the run
  Key,            \* message -> run_id in its metadata
  Id,             \* message -> id of its message-start (never a key), or NoId
  NoId,
  MaxDeltas,      \* bound on the deltas of a message
  States,         \* values of the agent's todo list
  CharacterLimit, \* of the buffer
  MaxBreaks       \* bound on the lost connections

VARIABLES
  spoken,     \* the deltas and states of the agent, in their order (for the properties)
  open,       \* the messages that are being streamed
  over,       \* those that have been
  messageIds, \* _stream_agent_event_chunks: message_ids
  lastState,  \* _stream_agent_event_chunks: last_agent_state
  bucket,     \* the items the worker has not written yet
  entries,    \* the Redis stream
  cards,      \* useChat: messages
  next,       \* the entry the page reads next, 0: it is not connected
  breaks

vars == <<spoken, open, over, messageIds, lastState, bucket, entries, cards, next, breaks>>

Delta == [of : Messages, n : 1..MaxDeltas]

\* A state of the agent among what it says.
Told(s) == [of |-> s, n |-> 0]

NoState == "no state"

\* One item of the stream: a delta under the name its message got.
Text(id, delta) == [id |-> id, delta |-> delta]

\* What the page shows. The question and the answer of an earlier run are there
\* before; their run is not the one that is monitored.
Card(kind, id, content, streaming) ==
  [kind |-> kind, id |-> id, content |-> content, streaming |-> streaming]

Earlier == <<Card("human", "question 1", << >>, FALSE), Card("text", "answer", << >>, FALSE),
             Card("human", "question 2", << >>, FALSE)>>

\* The places of S in their order, and what s has at them.  (SetToSortSeq and
\* SelectSeq are made of definitions that the prover does not see.)
InOrder(S) ==
  CHOOSE order \in [1..Cardinality(S) -> S] : \A i, j \in DOMAIN order : i < j => order[i] < order[j]

At(s, places) == [k \in 1..Cardinality(places) |-> s[InOrder(places)[k]]]

TypeOK ==
  /\ spoken \in Seq(Delta \cup {Told(s) : s \in States})
  /\ open \subseteq Messages /\ over \subseteq Messages
  /\ DOMAIN messageIds \subseteq {Key[m] : m \in Messages}
  /\ lastState \in States \cup {NoState}
  /\ \A i \in DOMAIN bucket : bucket[i].delta \in Delta
  /\ \A i \in DOMAIN entries : entries[i].type \in {"messages", "custom"}
  /\ \A i \in DOMAIN cards : cards[i].kind \in {"human", "text", "tool"}
  /\ next \in 0..Len(entries) + 1
  /\ breaks \in 0..MaxBreaks

Init ==
  /\ spoken = << >> /\ open = {} /\ over = {}
  /\ messageIds = << >> /\ lastState = NoState
  /\ bucket = << >> /\ entries = << >>
  /\ cards = Earlier /\ next = 0 /\ breaks = 0

-----------------------------------------------------------------------------
(* The agent and the names of its messages.                                *)

\* _make_stream_msg_key.  Plausible slip: one key for the whole thread.
KeyOfThread(m) == "thread"

StreamKey(m) == Key[m]

\* _assign_stream_msg_id: the id of a message-start, or else what the key has,
\* or else a new one, which is known by its key here.
Assigned(key, id) ==
  IF id # NoId THEN id
  ELSE IF key \in DOMAIN messageIds THEN messageIds[key]
  ELSE key

Named(key, id) ==
  [k \in DOMAIN messageIds \cup {key} |-> IF k = key THEN Assigned(key, id) ELSE messageIds[k]]

\* The run_id in the metadata is that of one call of a model: two messages with
\* the same one do not overlap.  Nothing is made of a message-start.
StartMessage(m) ==
  /\ m \notin open \cup over
  /\ \A other \in open : Key[other] # Key[m]
  /\ open' = open \cup {m}
  /\ messageIds' = Named(StreamKey(m), Id[m])
  /\ UNCHANGED <<spoken, over, lastState, bucket, entries, cards, next, breaks>>

FinishMessage(m) ==
  /\ m \in open
  /\ open' = open \ {m}
  /\ over' = over \cup {m}
  /\ UNCHANGED <<spoken, messageIds, lastState, bucket, entries, cards, next, breaks>>

Said(m) == Cardinality({i \in DOMAIN spoken : spoken[i].of = m})

-----------------------------------------------------------------------------
(* The worker's buffer.                                                    *)

\* release: nothing is written of an empty bucket.
Released(items) == IF items = << >> THEN << >> ELSE <<[type |-> "messages", items |-> items]>>

\* content-block-delta, and append.  A delta is one character here.
Speak(m) ==
  LET delta == [of |-> m, n |-> Said(m) + 1]
      filled == Append(bucket, Text(Assigned(StreamKey(m), NoId), delta))
  IN /\ m \in open /\ Said(m) < MaxDeltas
     /\ spoken' = Append(spoken, delta)
     /\ messageIds' = Named(StreamKey(m), NoId)
     /\ IF Len(filled) > CharacterLimit
        THEN bucket' = << >> /\ entries' = entries \o Released(filled)
        ELSE bucket' = filled /\ UNCHANGED entries
     /\ UNCHANGED <<open, over, lastState, cards, next, breaks>>

\* values: a state that has not changed is not told; any other entry is
\* written behind the items that are waiting.
ChangeState(s) ==
  /\ s # lastState
  /\ lastState' = s
  /\ spoken' = Append(spoken, Told(s))
  /\ entries' = entries \o Released(bucket) \o <<[type |-> "custom", state |-> s]>>
  /\ bucket' = << >>
  /\ UNCHANGED <<open, over, messageIds, cards, next, breaks>>

\* The agent has nothing more to say.
ReleaseAll ==
  /\ over = Messages /\ bucket # << >>
  /\ entries' = entries \o Released(bucket)
  /\ bucket' = << >>
  /\ UNCHANGED <<spoken, open, over, messageIds, lastState, cards, next, breaks>>

-----------------------------------------------------------------------------
(* The page.                                                               *)

\* clearRunStreamMessages.
Cleared ==
  At(cards, {i \in DOMAIN cards :
               cards[i].kind = "human" \/ ~(cards[i].kind = "tool" \/ cards[i].streaming)})

Connect ==
  /\ next = 0
  /\ cards' = Cleared
  /\ next' = 1
  /\ UNCHANGED <<spoken, open, over, messageIds, lastState, bucket, entries, breaks>>

\* The detail of the thread, which is asked for then, has no message of this run.
Break ==
  /\ next # 0 /\ breaks < MaxBreaks
  /\ next' = 0
  /\ breaks' = breaks + 1
  /\ \E loaded \in BOOLEAN : cards' = IF loaded THEN Earlier ELSE cards
  /\ UNCHANGED <<spoken, open, over, messageIds, lastState, bucket, entries>>

\* appendAiText: to the message of that name, or as a new one.
AppendAiText(shown, item) ==
  LET places == {i \in DOMAIN shown : shown[i].kind = "text" /\ shown[i].id = item.id}
  IN IF places = {} THEN Append(shown, Card("text", item.id, <<item.delta>>, TRUE))
     ELSE [shown EXCEPT ![CHOOSE i \in places : \A j \in places : i <= j].content =
             Append(@, item.delta)]

\* The card of a state is known by the entry that brought it.
SetTool(shown, entry, state) ==
  LET card == Card("tool", entry, <<Told(state)>>, FALSE)
      places == {i \in DOMAIN shown : shown[i].kind = "tool" /\ shown[i].id = entry}
  IN IF places = {} THEN Append(shown, card)
     ELSE [shown EXCEPT ![CHOOSE i \in places : TRUE] = card]

\* applyRunMessageEvent.
ReadEntry ==
  /\ next \in DOMAIN entries
  /\ cards' = IF entries[next].type = "messages"
              THEN FoldLeft(AppendAiText, cards, entries[next].items)
              ELSE SetTool(cards, next, entries[next].state)
  /\ next' = next + 1
  /\ UNCHANGED <<spoken, open, over, messageIds, lastState, bucket, entries, breaks>>

Next ==
  \/ \E m \in Messages : StartMessage(m) \/ Speak(m) \/ FinishMessage(m)
  \/ \E s \in States : ChangeState(s)
  \/ ReleaseAll \/ Connect \/ Break \/ ReadEntry

Spec == Init /\ [][Next]_vars

-----------------------------------------------------------------------------
(* What must hold.                                                         *)

\* The cards that are due when the agent has said `said`: a text for each
\* message, in the order in which they began, and a card for each state.
Beginnings(said) ==
  {i \in DOMAIN said : \/ said[i].of \in States
                       \/ \A j \in 1..(i - 1) : said[j].of # said[i].of}

Due(said) ==
  LET order == InOrder(Beginnings(said))
  IN [k \in DOMAIN order |->
        IF said[order[k]].of \in States THEN <<said[order[k]]>>
        ELSE At(said, {i \in DOMAIN said : said[i].of = said[order[k]].of})]

OfThisRun == At(cards, {i \in DOMAIN cards : cards[i].kind = "tool" \/ cards[i].streaming})

\* What the page shows of a run is what the agent had said up to some moment,
\* however the texts are buffered and however often the stream is read again: no
\* text is lost, shown twice, out of order or put into another message.  A page
\* that has read it all shows it all, and what was there before is still there.
PageTellsAnswer ==
  LET shown == OfThisRun
      contents == [i \in DOMAIN shown |-> shown[i].content]
      caughtUp == next = Len(entries) + 1 /\ bucket = << >>
  IN /\ \E n \in 0..Len(spoken) : /\ contents = Due(SubSeq(spoken, 1, n))
                                  /\ caughtUp => n = Len(spoken)
     /\ SubSeq(cards, 1, Len(Earlier)) = Earlier
=============================================================================
