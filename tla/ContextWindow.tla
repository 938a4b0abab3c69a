---------------------------- MODULE ContextWindow ----------------------------
(***************************************************************************)
(* crates/context/src/session.rs:346-372 and summariser.rs: the window of  *)
(* a conversation that fits a model, and the summary of what does not.  A  *)
(* message is its length in bytes, a summary the messages it tells of.     *)
(* Nothing in the repository drives the two yet; the caller here does what *)
(* the head of summariser.rs asks of it.                                   *)
(***************************************************************************)
EXTENDS Integers, Sequences, Sums

CONSTANTS
    Lengths,        \* of the messages
    Limits,         \* model_max_tokens, of the models a conversation is sent to
    MaxSpoken,      \* bound: messages
    MaxMisfires     \* bound: summaries that fail or break off

ASSUME WindowAssumption == Lengths \subseteq Nat /\ Limits \subseteq Nat

VARIABLES
    spoken,         \* session.messages
    phase,          \* what the caller does next
    limit,          \* model_max_tokens of the model it asks
    window,         \* the ContextWindow: its first message and its total_tokens
    told,           \* the messages the summary tells of
    misfires,
    forgotten       \* for the property only: messages a summary came without

windowVars == <<spoken, phase, limit, window, told, misfires, forgotten>>

Cost(bytes) == IF bytes < 4 THEN 1 ELSE bytes \div 4

\* A quarter is left for the answer, unless that leaves less than 512 tokens.
WindowBudget(max) == IF (max * 3) \div 4 < 512 THEN 512 ELSE (max * 3) \div 4

Costs(messages) == [i \in DOMAIN messages |-> Cost(messages[i])]

\* From the newest message back, up to the first that does not fit.
Recent(messages, budget) == LongestEnd(Costs(messages), budget)

\* What the messages at some places cost.
CostOf(messages, places) == SumOver(Costs(messages), places)

NeedsSummarisation(messages, threshold) == CostOf(messages, DOMAIN messages) > threshold

\* split_messages, as two sets of places.
SplitMessages(messages, keep) ==
    LET first == Recent(messages, keep).first
    IN [summarise |-> 1..(first - 1), keep |-> first..Len(messages)]

-----------------------------------------------------------------------------

WindowInit ==
    /\ spoken = <<>> /\ phase = "talk"
    /\ limit \in Limits
    /\ window = [first |-> 1, used |-> 0]
    /\ told = {} /\ misfires = 0 /\ forgotten = {}

\* append_turn's messages, of a user or of the model.
Speak(bytes) ==
    /\ phase \in {"talk", "ready"} /\ Len(spoken) < MaxSpoken
    /\ spoken' = Append(spoken, bytes)
    /\ phase' = "talk"
    /\ UNCHANGED <<limit, window, told, misfires, forgotten>>

\* build_context_window, for a model of the caller's choice.
BuildContextWindow(max) ==
    /\ phase \in {"talk", "ready"}
    /\ limit' = max
    /\ window' = Recent(spoken, WindowBudget(max))
    /\ phase' = "built"
    /\ UNCHANGED <<spoken, told, misfires, forgotten>>

\* What the window came without.
Dropped == 1..(window.first - 1)

\* build_summary_prompt: the summary so far, and the messages that are not in the window.
SummaryPrompt == told \union Dropped

\* summarise: with no message the summary stays as it is; else the answer replaces it.
Summarise ==
    /\ phase = "built"
    /\ told' = IF Dropped = {} THEN told ELSE SummaryPrompt
    /\ forgotten' = forgotten \ told'
    /\ phase' = "ready"
    /\ UNCHANGED <<spoken, limit, window, misfires>>

\* The stream ends without its final chunk: what has come of it is the summary.
SummaryBreaksOff ==
    /\ phase = "built" /\ Dropped # {}
    /\ misfires < MaxMisfires /\ misfires' = misfires + 1
    /\ told' \in SUBSET SummaryPrompt
    /\ forgotten' = SummaryPrompt \ told'
    /\ phase' = "ready"
    /\ UNCHANGED <<spoken, limit, window>>

\* The engine or a chunk fails: the caller keeps the summary it has.
SummariseFails ==
    /\ phase = "built" /\ Dropped # {}
    /\ misfires < MaxMisfires /\ misfires' = misfires + 1
    /\ forgotten' = forgotten \union (Dropped \ told)
    /\ phase' = "ready"
    /\ UNCHANGED <<spoken, limit, window, told>>

WindowNext ==
    \/ \E bytes \in Lengths : Speak(bytes)
    \/ \E max \in Limits : BuildContextWindow(max)
    \/ Summarise \/ SummaryBreaksOff \/ SummariseFails

WindowSpec == WindowInit /\ [][WindowNext]_windowVars

-----------------------------------------------------------------------------
(* Properties                                                              *)

\* The cost of the messages from place i on.
CostFrom(i) == CostOf(spoken, i..Len(spoken))

\* A window holds the longest end of the conversation that fits its budget, and says
\* what that costs; it leaves something to summarise exactly when needs_summarisation
\* says so, and split_messages cuts where it does (session.rs:346-372,
\* summariser.rs:103-142).
WindowFits ==
    phase = "built" =>
        LET budget == WindowBudget(limit)
        IN /\ window.used = CostFrom(window.first)
           /\ \A i \in 1..(Len(spoken) + 1) : CostFrom(i) <= budget <=> i >= window.first
           /\ NeedsSummarisation(spoken, budget) <=> Dropped # {}
           /\ SplitMessages(spoken, budget).summarise = Dropped

\* Once the caller has summarised what a window came without, the model is told of
\* every message, in the window or in the summary, unless a summary failed or broke
\* off (summariser.rs:47-101).
NothingForgotten ==
    phase = "ready" => DOMAIN spoken \ forgotten \subseteq told \union (window.first..Len(spoken))

\* The model gets the conversation, the newest of it as it is and the rest in the
\* summary (session.rs:346-372, summariser.rs:47-142).
WindowsAreRight == WindowFits /\ NothingForgotten
==============================================================================
