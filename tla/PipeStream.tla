----------------------------- MODULE PipeStream -----------------------------
(***************************************************************************)
(* stream_relay of the Open WebUI pipe: a relay run in a task of its own   *)
(* puts every chunk its models write into a queue; an async generator      *)
(* takes them out and yields Markdown: what the models write while they    *)
(* work inside a think block, under one heading per step, reasoning as     *)
(* prose and JSON in a fence, and the final answer as the message itself.  *)
(*                                                                         *)
(* A chunk is the step whose heading it carries, whether it is reasoning   *)
(* ("thinking") or output, and its text (StreamReader).  shown is the      *)
(* message so far as a sequence of marks.                                  *)
(***************************************************************************)
EXTENDS StreamReader

CONSTANTS
  Steps,      \* headings of local answers, critics, plans and subtasks
  FinalStep   \* heading of the call that answers or synthesizes

\* None, before the first chunk, is no heading.
ASSUME StepsAssumption == FinalStep \notin Steps /\ "none" \notin Steps \cup {FinalStep}

VARIABLES
  relay,      \* the run in its task: working, answering, over
  sent,       \* the chunks delivered so far, in order
  queue,      \* what the generator has not yet taken
  stopping,   \* the task has been cancelled
  reader,     \* the generator: reading, returned, left
  thinking, answered, heading, fenced, fresh,   \* the dictionary state
  shown       \* what was yielded

relayVars  == <<relay, sent>>
markupVars == <<thinking, answered, heading, fenced, fresh, shown>>
pipeVars   == <<relayVars, queue, stopping, reader, markupVars>>

Chunk(step, kind, text) == [step |-> step, kind |-> kind, text |-> text]

PipeInit ==
  /\ relay = "working"
  /\ sent = <<>>
  /\ queue = <<>>
  /\ stopping = FALSE
  /\ reader = "reading"
  /\ thinking = FALSE
  /\ answered = FALSE
  /\ heading = "none"
  /\ fenced = FALSE
  /\ fresh = FALSE
  /\ shown = <<>>

-----------------------------------------------------------------------------
(* The relay run, in a task of its own *)

\* on_delta: chunks go into the queue.
Deliver(chunks) ==
  /\ sent' = sent \o chunks
  /\ queue' = queue \o [i \in 1..Len(chunks) |-> <<"delta", chunks[i]>>]

\* Mutant of RunEnds: an exception other than RelayError is not reported.
RunEndsSilently(items) ==
  /\ relay # "over"
  /\ ~stopping
  /\ relay' = "over"
  /\ \E item \in items \cup {<<>>} : queue' = IF item = <<>> THEN queue ELSE Append(queue, item)
  /\ UNCHANGED <<sent, stopping, reader, markupVars>>

\* relay.chat returns, or raises RelayError or anything else that is not a cancellation.
RunEnds(items) ==
  /\ relay # "over"
  /\ ~stopping
  /\ relay' = "over"
  /\ \E item \in items : queue' = Append(queue, item)
  /\ UNCHANGED <<sent, stopping, reader, markupVars>>

\* A cancelled task ends, mostly with the CancelledError that passes through run; nobody
\* reads what it may still put into the queue.
RunCancelled ==
  /\ relay # "over"
  /\ stopping
  /\ relay' = "over"
  /\ UNCHANGED <<sent, queue, stopping, reader, markupVars>>

-----------------------------------------------------------------------------
(* The generator *)

When(condition, marks) == IF condition THEN marks ELSE <<>>

CloseThinking == When(thinking, When(fenced, <<<<"/fence">>>>) \o <<<<"/think">>>>)

\* Mutant of ShowAnswer: the chunk that closes the think block is not yielded.
ShowAnswerAfterClosing(c) ==
  /\ shown' = shown \o (IF thinking THEN CloseThinking ELSE <<<<"answer", c>>>>)
  /\ answered' = TRUE
  /\ thinking' = FALSE
  /\ fenced' = IF thinking THEN FALSE ELSE fenced
  /\ UNCHANGED <<heading, fresh>>

\* A chunk of the answer closes the think block and is yielded as it is.
ShowAnswer(c) ==
  /\ shown' = shown \o CloseThinking \o <<<<"answer", c>>>>
  /\ answered' = TRUE
  /\ thinking' = FALSE
  /\ fenced' = IF thinking THEN FALSE ELSE fenced
  /\ UNCHANGED <<heading, fresh>>

\* payload.lstrip("\n"), where it applies.
Trimmed(c, trims) ==
  IF ~trims THEN c
  ELSE [c EXCEPT !.text = LET solid == {i \in 1..Len(@) : ~IsBlank(SubSeq(@, 1, i))}
                          IN  IF solid = {} THEN <<>>
                              ELSE SubSeq(@, CHOOSE i \in solid : \A k \in solid : i <= k, Len(@))]

\* Mutant of ShowWork: a new heading does not end the fence of the step before.
ShowWorkInOldFence(c) ==
  LET wantsFence == c.kind # "thinking"
      opens      == wantsFence /\ ~fenced
      trims      == opens \/ fresh
  IN  /\ shown' = shown \o When(~thinking, <<<<"think">>>>)
                        \o When(c.step # heading, <<<<"heading", c.step>>>>)
                        \o When(opens, <<<<"fence">>>>)
                        \o When(~wantsFence /\ fenced, <<<<"/fence">>>>)
                        \o <<<<"text", Trimmed(c, trims)>>>>
      /\ thinking' = TRUE
      /\ heading' = c.step
      /\ fenced' = wantsFence
      /\ fresh' = IF trims THEN IsBlank(c.text) ELSE fresh
      /\ UNCHANGED answered

\* Any other chunk goes into the think block: open_step puts a heading and a fence
\* before it where they change, and line breaks at the head of a fence are dropped.
ShowWork(c) ==
  LET newStep    == c.step # heading
      inFence    == fenced /\ ~newStep
      wantsFence == c.kind # "thinking"
      opens      == wantsFence /\ ~inFence
      trims      == opens \/ fresh
  IN  /\ shown' = shown \o When(~thinking, <<<<"think">>>>)
                        \o When(newStep /\ fenced, <<<<"/fence">>>>)
                        \o When(newStep, <<<<"heading", c.step>>>>)
                        \o When(opens, <<<<"fence">>>>)
                        \o When(~wantsFence /\ inFence, <<<<"/fence">>>>)
                        \o <<<<"text", Trimmed(c, trims)>>>>
      /\ thinking' = TRUE
      /\ heading' = c.step
      /\ fenced' = wantsFence
      /\ fresh' = IF trims THEN IsBlank(c.text) ELSE fresh
      /\ UNCHANGED answered

\* Mutant of IsAnswer: the reasoning of the final call counts as the answer.
IsAnswerAnyKind(c) == c.step = FinalStep

IsAnswer(c) == c.step = FinalStep /\ c.kind # "thinking"

ReadDelta ==
  /\ reader = "reading"
  /\ queue # <<>>
  /\ Head(queue)[1] = "delta"
  /\ LET c == Head(queue)[2] IN IF IsAnswer(c) THEN ShowAnswer(c) ELSE ShowWork(c)
  /\ queue' = Tail(queue)
  /\ UNCHANGED <<relayVars, stopping, reader>>

\* What follows the think block at the end: that the run stopped, or the content of the
\* result, unless it was streamed, and the summary.
LastWords(item) ==
  IF item[1] = "error" THEN <<<<"stopped">>>>
  ELSE When(~answered, <<<<"content", item[2]>>>>) \o <<<<"summary">>>>

\* error or done: the message is closed, and finally cancels the task (which is over).
ReadEnd ==
  /\ reader = "reading"
  /\ queue # <<>>
  /\ Head(queue)[1] # "delta"
  /\ shown' = shown \o CloseThinking \o LastWords(Head(queue))
  /\ thinking' = FALSE
  /\ fenced' = IF thinking THEN FALSE ELSE fenced
  /\ queue' = Tail(queue)
  /\ reader' = "returned"
  /\ stopping' = TRUE
  /\ UNCHANGED <<relayVars, answered, heading, fresh>>

\* The reader goes away while the generator waits or yields; finally cancels the task.
Leave ==
  /\ reader = "reading"
  /\ reader' = "left"
  /\ stopping' = TRUE
  /\ UNCHANGED <<relayVars, queue, markupVars>>

-----------------------------------------------------------------------------
\* How often a mark occurs among the first n marks of the message.
Count(mark, n) == Cardinality({i \in 1..n : shown[i][1] = mark})

InThink(n) == Count("think", n) - Count("/think", n)
InFence(n) == Count("fence", n) - Count("/fence", n)

\* think blocks and fences open and close in turn, a fence only inside a think block,
\* and a message that was not cut off ends with both closed, whatever the interleaving
\* of parallel subtasks and wherever the run failed.
Balanced ==
  /\ \A n \in 0..Len(shown) : InThink(n) \in {0, 1} /\ InFence(n) \in 0..InThink(n)
  /\ reader = "returned" => InThink(Len(shown)) = 0

\* In the think block every chunk stands under the heading of its step, output in a
\* fence, reasoning and headings outside of it.
ChunksUnderTheirHeading ==
  /\ \A i \in 1..Len(shown) : shown[i][1] = "heading" => InFence(i) = 0
  /\ \A i \in 1..Len(shown) : shown[i][1] = "text" =>
      LET c == shown[i][2]
      IN  /\ \E j \in 1..(i - 1) : /\ shown[j] = <<"heading", c.step>>
                                   /\ \A k \in (j + 1)..i : shown[k][1] # "heading"
          /\ InThink(i) = 1
          /\ InFence(i) = IF c.kind = "thinking" THEN 0 ELSE 1

\* The text stream_relay yields is well formed at every point: its markup is balanced and
\* each chunk of parallel subtasks stands where it belongs.
MessageWellFormed == Balanced /\ ChunksUnderTheirHeading
=============================================================================
