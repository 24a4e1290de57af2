---------------------------- MODULE StreamedRun -----------------------------
(***************************************************************************)
(* A streamed run from the model's reply to the reader's message: steps    *)
(* that work in parallel put their chunks into the pipe's queue; the call  *)
(* that answers is read by StreamReader, whose deltas go the same way; and *)
(* PipeStream's generator turns the queue into the message.                *)
(***************************************************************************)
EXTENDS PipeStream, SequencesExt

CONSTANT MaxSize  \* bound on the symbols that the models of a run write

ASSUME SizeAssumption == MaxSize \in Nat

vars == <<readerVars, pipeVars>>

\* The symbols written so far; a chunk of another call has one.
Size == Cardinality({i \in 1..Len(sent) : sent[i].step # FinalStep}) + Len(content) + Len(reasoning)

\* The chunks of the other calls: reasoning, JSON, or a line break before the JSON.
WorkChunks ==
  [step : Steps, kind : {"thinking"}, text : {<<"x">>}]
    \cup [step : Steps, kind : {"output"}, text : {<<"x">>, <<" ">>}]

Init == ReaderInit /\ PipeInit

\* Subtasks run in parallel, so that chunks of different steps follow one another in any order.
Work ==
  /\ relay = "working"
  /\ ~stopping
  /\ Size < MaxSize
  /\ \E c \in WorkChunks : Deliver(<<c>>)
  /\ UNCHANGED <<relay, stopping, reader, markupVars, readerVars>>

\* The call that answers or synthesizes comes after all others.
FinalCall ==
  /\ relay = "working"
  /\ ~stopping
  /\ OpenStream
  /\ relay' = "answering"
  /\ UNCHANGED <<sent, queue, stopping, reader, markupVars>>

\* Text that a step of the reader has added.
Added(before, after) == SubSeq(after, Len(before) + 1, Len(after))

\* The chunks that a step of the reader passes to on_delta, thinking first.
Deltas ==
  When(thought' # thought, <<Chunk(FinalStep, "thinking", Added(thought, thought'))>>)
    \o When(output' # output, <<Chunk(FinalStep, "output", Added(output, output'))>>)

\* A line of the final call's stream is read.
FinalChunk ==
  /\ relay = "answering"
  /\ ~stopping
  /\ \/ Size < MaxSize /\ ReasoningChunk
     \/ \E text \in Texts : Size + Len(text) <= MaxSize /\ ContentChunk(text)
  /\ Deliver(Deltas)
  /\ UNCHANGED <<relay, stopping, reader, markupVars>>

FinalReply ==
  /\ relay = "answering"
  /\ ~stopping
  /\ EndStream
  /\ UNCHANGED pipeVars

\* What run puts last: a result needs an answer that was trusted locally or an answer of
\* the final call that is not empty; the run may stop at any time, be it that the call
\* fails, is cut off at its token limit or has no text.
Results ==
  CASE status = "none"     -> {<<"x">>}
    [] status = "reading"  -> {}
    [] status = "complete" -> {SplitAnswer(content)} \ {<<>>}

Outcomes == {<<"error">>} \cup {<<"done", text>> : text \in Results}

RunOver == (RunEnds(Outcomes) \/ RunCancelled) /\ UNCHANGED readerVars

Generator == (ReadDelta \/ ReadEnd) /\ UNCHANGED readerVars

Closed == reader # "reading" /\ relay = "over" /\ UNCHANGED vars

Next ==
  \/ Work
  \/ FinalCall
  \/ FinalChunk
  \/ FinalReply
  \/ RunOver
  \/ Generator
  \/ Leave /\ UNCHANGED readerVars
  \/ Closed

Spec == Init /\ [][Next]_vars

\* The run ends (RelayProperties, Terminates) and the generator takes what is queued;
\* nothing obliges the reader to leave.
FairSpec == Spec /\ WF_vars(RunOver) /\ WF_vars(Generator)

-----------------------------------------------------------------------------
\* What the marks or queued items of the given kinds carry, in their order.
Of(kinds, s) ==
  LET found == Select(s, {i \in 1..Len(s) : s[i][1] \in kinds})
  IN  [i \in 1..Len(found) |-> found[i][2]]

TextOf(chunks) == FlattenSeq([i \in 1..Len(chunks) |-> chunks[i].text])

\* The message itself, outside the think block, is the answer: what the final call
\* returned, streamed or not, or else the content of the result, once; and a run that
\* ended well has one.  Excepted is a reply with a marker inside the <think> block that it
\* begins with, where the streamed message goes on with the rest of the block.
AnswerIsTheMessage ==
  /\ \A i \in 1..Len(shown) : shown[i][1] \in {"answer", "content", "stopped"} => InThink(i) = 0
  /\ reader = "returned" /\ Count("stopped", Len(shown)) = 0 /\ ~MarkerInBlock(content)
       => Strip(TextOf(Of({"answer"}, shown))) \o FlattenSeq(Of({"content"}, shown))
            = IF status = "complete" THEN SplitAnswer(content) ELSE <<"x">>

\* Line breaks aside.
Solid(c) == [c EXCEPT !.text = Select(@, {i \in 1..Len(@) : @[i] # " "})]

\* Nothing is lost, doubled or reordered on the way: the chunks in the message and those
\* still queued are the chunks the run delivered, but for line breaks.
NothingLost ==
  LET arrived == Of({"text", "answer"}, shown) \o Of({"delta"}, queue)
  IN  [i \in 1..Len(arrived) |-> Solid(arrived[i])] = [i \in 1..Len(sent) |-> Solid(sent[i])]

\* The generator always ends, also when the run raises what it should not, and no run
\* goes on for a reader who has left.
StreamEnds == <>(reader # "reading" /\ relay = "over")
=============================================================================
