-------------------------- MODULE InferenceStream --------------------------
(***************************************************************************)
(* One generation, from the client's messages to its answer: what the      *)
(* handlers ask of OllamaEngine (inference/src/lib.rs), the task that      *)
(* OllamaClient::generate_stream (ollama.rs) leaves reading the response,  *)
(* and the handler that collects the stream: run_and_collect of the HTTP   *)
(* handlers, or stream_inference_to_gossip for a peer.                     *)
(*                                                                         *)
(* A message is its role, its text, a sequence of pieces, and its length   *)
(* in bytes; the tokens of the answer are numbered.  Ollama is external:   *)
(* it may send a line that does not parse, stop in the middle, or fall     *)
(* silent.                                                                 *)
(***************************************************************************)
EXTENDS Integers, FiniteSets, Sequences, SequencesExt, Sums

CONSTANTS
    Conversations, \* requests: who makes them and the messages they carry
    MaxContextTokens, \* max_context_tokens; 0: no limit
    AnswerLength,  \* tokens of the model's answer
    ChannelCap,    \* chunks between the two tasks, 64 in the code
    MaxMishaps     \* bound: lines garbled, connections lost

\* "tool" stands for every role that is not the engine's.
Roles == {"system", "user", "assistant", "tool"}

\* A peer's request and a sealed one carry one message; the text of a message is
\* its place.
ASSUME StreamAssumption ==
    /\ MaxContextTokens \in Nat /\ AnswerLength \in Nat
    /\ \A request \in Conversations :
          LET ms == request.messages IN
          /\ ms \in Seq([role : Roles, text : Seq(Nat), bytes : Nat])
          /\ \A i \in DOMAIN ms : ms[i].text = <<i>>
          /\ request.by \in {"chat", "encrypted", "peer"}
          /\ request.by # "chat" => Len(ms) = 1

VARIABLES
    asked,    \* the request
    prompted, \* the messages Ollama was sent
    body,     \* the response: "none", "open", "eof", "broken"
    emitted,  \* lines Ollama has written
    lines,    \* those the reader has yet to read
    reader,   \* the task: "none", "reading", "sending", "ended"
    held,     \* what it is sending
    chan,     \* the channel
    collector, \* the handler: "asking", "collecting", "answered", "failed", "gone";
              \* for a peer also "publishing" a chunk, or "telling" of an error
    answer,   \* the chunks the handler has taken, and how it closes the answer
    mishaps,
    stuck     \* the node's swarm task waits for ever for room in the event channel

streamVars == <<asked, prompted, body, emitted, lines, reader, held, chan, collector, answer, mishaps, stuck>>

Garbled == 0
DoneLine == AnswerLength + 1
ReadError == DoneLine + 1
-----------------------------------------------------------------------------
Say(role, text) == [role |-> role, text |-> text]

IsSystem(m) == m.role = "system"
NotSystem(m) == ~IsSystem(m)

\* Any role but those of the engine is a user's.
Spoken(m) == Say(IF m.role \in {"assistant", "system"} THEN m.role ELSE "user", m.text)

\* A token is taken for four bytes.
EstimateTokens(bytes) == (bytes + 3) \div 4

SystemPlaces(ms) == {i \in DOMAIN ms : IsSystem(ms[i])}

\* The system's messages are joined by a newline.
SystemTokens(ms) ==
    LET at == SystemPlaces(ms) IN
    IF at = {} THEN 0
    ELSE EstimateTokens(SumOver([i \in DOMAIN ms |-> ms[i].bytes], at) + Cardinality(at) - 1)

\* What the system prompt leaves of the budget.
Room(ms) ==
    IF SystemTokens(ms) > MaxContextTokens THEN 0 ELSE MaxContextTokens - SystemTokens(ms)

\* What each message takes of it: its tokens, and four for the role.
Shares(ms) == [i \in DOMAIN ms |-> EstimateTokens(ms[i].bytes) + 4]

\* trim_context_window: from the newest back, up to the first that does not fit.
KeepFrom(ms, room) == IF MaxContextTokens = 0 THEN 1 ELSE LongestEnd(Shares(ms), room).first

\* The messages at the given places, in their order.
Kept(ms, places) ==
    LET kept[i \in 0..Len(ms)] ==
            IF i = 0 THEN <<>>
            ELSE IF i \in places THEN Append(kept[i - 1], ms[i]) ELSE kept[i - 1]
    IN kept[Len(ms)]

\* The window of a chat: all but the last message, the system's apart.  The last
\* is the prompt, whoever's it is.
MessagesToContext(ms) ==
    LET system == Kept(ms, SystemPlaces(ms))
        earlier == Kept(ms, {i \in 1..Len(ms) - 1 : NotSystem(ms[i])}) IN
    [system |-> FlattenSeq([i \in DOMAIN system |-> system[i].text]),
     recent |-> SubSeq([i \in DOMAIN earlier |-> Spoken(earlier[i])],
                       KeepFrom(earlier, Room(ms)), Len(earlier)),
     prompt |-> IF ms = <<>> THEN <<>> ELSE Last(ms).text]

\* An encrypted prompt comes alone; so does a peer's, which is put into the window
\* as well.
Window(request) ==
    LET ms == request.messages IN
    CASE request.by = "chat"      -> MessagesToContext(ms)
      [] request.by = "encrypted" -> [system |-> <<>>, recent |-> <<>>, prompt |-> Last(ms).text]
      [] request.by = "peer"      -> [system |-> <<>>, recent |-> <<Say("user", Last(ms).text)>>,
                                      prompt |-> Last(ms).text]

\* build_messages; no handler fills in a summary.
BuildMessages(cw) ==
    (IF cw.system = <<>> THEN <<>> ELSE <<Say("system", cw.system)>>)
        \o cw.recent \o <<Say("user", cw.prompt)>>
-----------------------------------------------------------------------------
StreamInit ==
    /\ asked \in Conversations
    /\ prompted = <<>> /\ body = "none" /\ emitted = 0 /\ lines = <<>>
    /\ reader = "none" /\ held = Garbled /\ chan = <<>>
    /\ collector = "asking" /\ answer = <<>> /\ mishaps = 0 /\ stuck = FALSE

Mishap == mishaps < MaxMishaps /\ mishaps' = mishaps + 1

ToPeer == asked.by = "peer"

\* POST /api/chat: the reader starts once Ollama has accepted the request.
Accepted ==
    /\ collector = "asking"
    /\ prompted' = BuildMessages(Window(asked))
    /\ body' = "open" /\ reader' = "reading" /\ collector' = "collecting"
    /\ UNCHANGED <<asked, emitted, lines, held, chan, answer, mishaps, stuck>>

\* No connection, an error status, or no answer in time: the request fails.
Rejected ==
    /\ collector = "asking" /\ Mishap
    /\ prompted' = BuildMessages(Window(asked))
    /\ collector' = IF ToPeer THEN "telling" ELSE "failed"
    /\ UNCHANGED <<asked, body, emitted, lines, reader, held, chan, answer, stuck>>

\* The handler has the stream.
Receiving == collector \in {"collecting", "publishing", "telling"}

\* The reader drops the response when it ends.
Connected == body = "open" /\ reader # "ended"

\* Ollama writes its tokens one line each, then a line that says it is done.
Emit ==
    /\ Connected
    /\ emitted' = emitted + 1
    /\ body' = IF emitted' = DoneLine THEN "eof" ELSE "open"
    /\ \/ lines' = Append(lines, emitted') /\ UNCHANGED mishaps
       \/ lines' = Append(lines, Garbled) /\ Mishap
    /\ UNCHANGED <<asked, prompted, reader, held, chan, collector, answer, stuck>>

\* It stops as if it were done.
StopShort ==
    /\ Connected /\ Mishap
    /\ body' = "eof"
    /\ UNCHANGED <<asked, prompted, emitted, lines, reader, held, chan, collector, answer, stuck>>

\* The connection fails, or the 600 seconds of the request are over: what has not
\* been read may be lost with it.
Break ==
    /\ Connected
    /\ body' = "broken"
    /\ \E k \in 0..Len(lines) : lines' = SubSeq(lines, 1, k)
    /\ UNCHANGED <<asked, prompted, emitted, reader, held, chan, collector, answer, mishaps, stuck>>

-----------------------------------------------------------------------------
(***************************************************************************)
(* The reader.                                                             *)
(***************************************************************************)

Read ==
    /\ reader = "reading" /\ lines # <<>>
    /\ lines' = Tail(lines)
    /\ \/ Head(lines) = Garbled /\ UNCHANGED <<reader, held>>
       \/ Head(lines) # Garbled /\ reader' = "sending" /\ held' = Head(lines)
    /\ UNCHANGED <<asked, prompted, body, emitted, chan, collector, answer, mishaps, stuck>>

ReadEnd ==
    /\ reader = "reading" /\ lines = <<>>
    /\ \/ body = "eof" /\ reader' = "ended" /\ UNCHANGED held
       \/ body = "broken" /\ reader' = "sending" /\ held' = ReadError
    /\ UNCHANGED <<asked, prompted, body, emitted, lines, chan, collector, answer, mishaps, stuck>>

\* Mutated form: a chunk that finds the channel full is dropped.
Send_TrySend ==
    /\ reader = "sending" /\ Receiving
    /\ chan' = IF Len(chan) < ChannelCap THEN Append(chan, held) ELSE chan
    /\ reader' = IF held >= DoneLine THEN "ended" ELSE "reading"
    /\ UNCHANGED <<asked, prompted, body, emitted, lines, held, collector, answer, mishaps, stuck>>

\* The task waits for room in the channel, and ends with the last chunk.
Send ==
    /\ reader = "sending" /\ Receiving /\ Len(chan) < ChannelCap
    /\ chan' = Append(chan, held)
    /\ reader' = IF held >= DoneLine THEN "ended" ELSE "reading"
    /\ UNCHANGED <<asked, prompted, body, emitted, lines, held, collector, answer, mishaps, stuck>>

\* The stream has been dropped.
SendFails ==
    /\ reader = "sending" /\ ~Receiving
    /\ reader' = "ended"
    /\ UNCHANGED <<asked, prompted, body, emitted, lines, held, chan, collector, answer, mishaps, stuck>>
-----------------------------------------------------------------------------
(***************************************************************************)
(* The handler.                                                            *)
(***************************************************************************)

\* The InferenceStreamChunk of a line: the last has no token of its own.
Chunk(line) ==
    [chunk_index |-> Len(answer), token |-> IF line = DoneLine THEN 0 ELSE line,
     is_final |-> line = DoneLine,
     tokens_generated |-> IF line = DoneLine THEN AnswerLength ELSE Len(answer) + 1]

\* run_and_collect takes all there is; what is for a peer is published, one chunk at
\* a time.
TakeChunk ==
    /\ collector = "collecting" /\ chan # <<>> /\ Head(chan) # ReadError
    /\ answer' = Append(answer, Chunk(Head(chan)))
    /\ chan' = Tail(chan)
    /\ collector' = IF ToPeer THEN "publishing" ELSE "collecting"
    /\ UNCHANGED <<asked, prompted, body, emitted, lines, reader, held, mishaps, stuck>>

\* run_and_collect writes the error to the log; a peer is told.
TakeError ==
    /\ collector = "collecting" /\ chan # <<>> /\ Head(chan) = ReadError
    /\ chan' = Tail(chan)
    /\ collector' = IF ToPeer THEN "telling" ELSE "collecting"
    /\ UNCHANGED <<asked, prompted, body, emitted, lines, reader, held, answer, mishaps, stuck>>

\* The swarm task answers publish_infer_chunk: what it says is logged, and a peer's
\* answer ends with its final chunk.
SwarmAnswers ==
    /\ ~stuck
    /\ \/ collector = "publishing" /\ ~Last(answer).is_final /\ collector' = "collecting"
          /\ UNCHANGED chan
       \/ collector = "publishing" /\ Last(answer).is_final /\ collector' = "answered" /\ chan' = <<>>
       \/ collector = "telling" /\ collector' = "failed" /\ chan' = <<>>
    /\ UNCHANGED <<asked, prompted, body, emitted, lines, reader, held, answer, mishaps, stuck>>

\* The event loop waits for the swarm task, and that for room in the event channel.
SwarmSticks ==
    /\ ToPeer /\ ~stuck
    /\ stuck' = TRUE
    /\ UNCHANGED <<asked, prompted, body, emitted, lines, reader, held, chan, collector, answer, mishaps>>

\* The answer is what was collected: every token, then the line of ndjson_body, or
\* the chunk of the SSE body, that says "stop".
Answered ==
    /\ collector = "collecting" /\ chan = <<>> /\ reader = "ended"
    /\ collector' = "answered"
    /\ UNCHANGED <<asked, prompted, body, emitted, lines, reader, held, chan, answer, mishaps, stuck>>

\* The client hangs up: the handler is dropped, and the stream with it.
HandlerDropped ==
    /\ collector \in {"asking", "collecting"} /\ ~ToPeer
    /\ collector' = "gone" /\ chan' = <<>>
    /\ UNCHANGED <<asked, prompted, body, emitted, lines, reader, held, answer, mishaps, stuck>>

StreamTasks ==
    \/ Accepted \/ Read \/ ReadEnd \/ Send \/ SendFails
    \/ TakeChunk \/ TakeError \/ SwarmAnswers \/ Answered

StreamNext ==
    \/ StreamTasks \/ Rejected \/ Emit \/ StopShort \/ Break \/ HandlerDropped \/ SwarmSticks

StreamSpec == StreamInit /\ [][StreamNext]_streamVars

\* The runtime runs the tasks, and the request has its timeout; Ollama promises
\* nothing, and a swarm task that is stuck answers nobody.
StreamFairSpec == StreamSpec /\ WF_streamVars(StreamTasks) /\ WF_streamVars(Break)
-----------------------------------------------------------------------------
Messages == asked.messages

\* Where message i is in what Ollama was sent: each carries its position.
Places(i) == {j \in DOMAIN prompted : i \in ToSet(prompted[j].text)}

\* The messages before the last from i on fit max_context_tokens, with the system prompt.
Fits(i) ==
    \/ MaxContextTokens = 0
    \/ SystemTokens(Messages)
          + SumOver(Shares(Messages), {j \in i..Len(Messages) - 1 : NotSystem(Messages[j])}) <= MaxContextTokens

\* What the model is asked.  The last message is the prompt, said by the user; of those
\* before it each that fits is there once, as the user's or the model's words as it was
\* spoken, in their order; the system's are in the system prompt.  The prompt is there a
\* second time when it is a system message, or a peer's (daemon.rs:826-838), though the
\* comments say that the prompt is the last message of the user (node/src/api/mod.rs:318),
\* and the window what came before this new turn (inference/src/lib.rs:45-46).
AskedAsSaid ==
    prompted # <<>> /\ Messages # <<>> =>
        LET last == Len(Messages) IN
        /\ Places(last) =
              {Len(prompted)} \union (IF IsSystem(Messages[last]) \/ ToPeer THEN {1} ELSE {})
        /\ prompted[Len(prompted)].role = "user"
        /\ \A i \in 1..last - 1 :
              Cardinality(Places(i)) = IF IsSystem(Messages[i]) \/ Fits(i) THEN 1 ELSE 0
        /\ \A i \in 1..last - 1 : \A m \in Places(i) : prompted[m].role = Spoken(Messages[i]).role
        /\ \A i, j \in 1..last - 1 : i < j /\ NotSystem(Messages[i]) =>
              \A m \in Places(i), n \in Places(j) : NotSystem(Messages[j]) => m < n

\* What the handler collects is what the model generated: its tokens once each and
\* in order, however the two tasks interleave; all of them, with the final chunk,
\* unless something went wrong between the node and Ollama.
CollectedInOrder ==
    /\ \A i, j \in DOMAIN answer : i < j =>
          /\ ~answer[i].is_final
          /\ answer[j].is_final \/ answer[i].token < answer[j].token
          /\ answer[i].tokens_generated < answer[j].tokens_generated
                \/ answer[j].is_final
    /\ collector = "answered" /\ mishaps = 0 /\ body # "broken" => Len(answer) = DoneLine

\* run_inference, generate_stream and the handlers around them: what the model is
\* asked and what the client is given are right (AskedAsSaid, CollectedInOrder).
AnswersAreRight == AskedAsSaid /\ CollectedInOrder

\* generate_stream's task does not outlive the request: once Ollama has accepted
\* it, the reader ends, whether the handler takes all chunks, stops or is dropped,
\* and whether or not Ollama goes on; and so does a handler that waits for it.  Only a
\* peer's stays for ever, with its reader, on a node whose swarm task is stuck.
StreamsEnd ==
    /\ body = "open" ~> reader = "ended" \/ (ToPeer /\ stuck)
    /\ Receiving ~> collector \in {"answered", "failed", "gone"} \/ (ToPeer /\ stuck)
=============================================================================
