---------------------------- MODULE StreamReader ----------------------------
(***************************************************************************)
(* _read_stream: the chunks of a streamed reply are assembled into content *)
(* and reasoning and passed on to on_delta as they arrive, as thinking     *)
(* before the model's end-of-reasoning marker and as output after it.      *)
(* _split_thinking later splits the assembled content at the same marker.  *)
(*                                                                         *)
(* Text is a sequence of symbols: "x" any character, " " a line break, and *)
(* "<", "_", ">" the parts of the marker: "<" stands for "</ifm|think",    *)
(* "_" for the optional "_" and letters, so a marker is <> or <_>.  "[" and *)
(* "]" are the tags <think> and </think>.  A chunk may end between any two *)
(* of them.  "r" is text of the separate reasoning field.                  *)
(***************************************************************************)
EXTENDS Integers, Sequences, FiniteSets, FiniteSetsExt

CONSTANTS
  Symbols,      \* a subset of {"x", " ", "<", "_", ">", "[", "]"}
  MaxChunk      \* bound on the length of a chunk

ASSUME StreamAssumption ==
  /\ Symbols \subseteq {"x", " ", "<", "_", ">", "[", "]"}
  /\ MaxChunk \in Nat

VARIABLES
  content,     \* the text assembled so far
  reasoning,   \* the text of the separate reasoning field
  unmarked,    \* no marker has been seen (thinking in the code)
  thought,     \* everything passed to on_delta as thinking
  output,      \* everything passed to on_delta as output
  status       \* of the call: none, reading, complete

readerVars == <<content, reasoning, unmarked, thought, output, status>>

Texts == UNION {[1..k -> Symbols] : k \in 1..MaxChunk}

\* The marker begins at position i: its last position is MarkerEnd(s, i), or 0.
MarkerEnd(s, i) ==
  IF i + 1 <= Len(s) /\ s[i] = "<" /\ s[i + 1] = ">" THEN i + 1
  ELSE IF i + 2 <= Len(s) /\ s[i] = "<" /\ s[i + 1] = "_" /\ s[i + 2] = ">" THEN i + 2 ELSE 0

Markers(s) == {i \in 1..Len(s) : MarkerEnd(s, i) > 0}

\* marker.search: where the first marker begins.
Search(s) == CHOOSE i \in Markers(s) : \A j \in Markers(s) : i <= j

Larger(m, n) == IF m < n THEN n ELSE m

IsBlank(s) == \A i \in 1..Len(s) : s[i] = " "

\* str.strip
Strip(s) ==
  LET solid == {i \in 1..Len(s) : s[i] # " "}
      Least(S) == CHOOSE i \in S : \A k \in S : i <= k
      Last(S)  == CHOOSE i \in S : \A k \in S : i >= k
  IN  IF solid = {} THEN <<>> ELSE SubSeq(s, Least(solid), Last(solid))

\* What a sequence has at the given positions, in its order.
Select(s, positions) ==
  LET selected[n \in 0..Len(s)] ==
        IF n = 0 THEN <<>>
        ELSE IF n \in positions THEN Append(selected[n - 1], s[n]) ELSE selected[n - 1]
  IN  selected[Len(s)]

ReaderInit ==
  /\ content = <<>>
  /\ reasoning = <<>>
  /\ unmarked = TRUE
  /\ thought = <<>>
  /\ output = <<>>
  /\ status = "none"

\* The call is sent.
OpenStream ==
  /\ status = "none"
  /\ status' = "reading"
  /\ UNCHANGED <<content, reasoning, unmarked, thought, output>>

ReasoningChunk ==
  /\ status = "reading"
  /\ reasoning' = Append(reasoning, "r")
  /\ thought' = Append(thought, "r")
  /\ UNCHANGED <<content, unmarked, output, status>>

\* Mutant of HeadLength: the marker's own length is forgotten.
HeadLengthWithMarker(text, tail, marker) == Len(text) - tail

\* How much of a chunk that completes the marker comes before the marker.
HeadLength(text, tail, marker) == Larger(0, Len(text) - tail - marker)

\* The chunk that completes the marker is split, the marker dropped.
SplitChunk(text, whole) ==
  LET begin == Search(whole)
      end   == MarkerEnd(whole, begin)
      head  == SubSeq(text, 1, HeadLength(text, Len(whole) - end, end - begin + 1))
  IN  /\ thought' = IF IsBlank(head) THEN thought ELSE thought \o head
      /\ output' = output \o SubSeq(whole, end + 1, Len(whole))

ContentChunk(text) ==
  /\ status = "reading"
  /\ content' = content \o text
  /\ IF ~unmarked
     THEN output' = output \o text /\ UNCHANGED <<unmarked, thought>>
     ELSE IF Markers(content') = {}
          THEN thought' = thought \o text /\ UNCHANGED <<unmarked, output>>
          ELSE unmarked' = FALSE /\ SplitChunk(text, content')
  /\ UNCHANGED <<reasoning, status>>

\* [DONE] or the end of the body, of a reply with text.
EndStream ==
  /\ status = "reading"
  /\ ~IsBlank(content)
  /\ status' = "complete"
  /\ UNCHANGED <<content, reasoning, unmarked, thought, output>>

-----------------------------------------------------------------------------
\* The end of a <think> block that a reply begins with, 0 if there is none: the first
\* </think> after a <think> that only white space precedes.
BlockEnd(s) ==
  LET ends == {j \in 1..Len(s) : s[j] = "]" /\ \E i \in 1..(j - 1) : s[i] = "[" /\ IsBlank(SubSeq(s, 1, i - 1))}
  IN  IF ends = {} THEN 0 ELSE Min(ends)

\* _split_thinking: of what follows the block, the answer is what follows the first marker,
\* or everything if there is none, without white space around it.
SplitAnswer(s) ==
  LET markers == {i \in Markers(s) : i > BlockEnd(s)}
  IN  Strip(SubSeq(s, 1 + (IF markers = {} THEN BlockEnd(s) ELSE MarkerEnd(s, Min(markers))), Len(s)))

\* A marker inside the block ends the reasoning for _read_stream, which knows no tags,
\* while _split_thinking drops it with the block.
MarkerInBlock(s) == \E i \in Markers(s) : i <= BlockEnd(s)

\* What was streamed as output is the answer that the call returns, but for white space
\* around it, unless the marker is inside a <think> block; without a marker nothing was.
OutputIsReturned ==
  IF Markers(content) = {} THEN output = <<>>
  ELSE MarkerInBlock(content) \/ Strip(output) = SplitAnswer(content)

\* Everything the model wrote before the marker was streamed as thinking, and nothing
\* it wrote after it: what was streamed is the content up to the marker, at most
\* longer by the part of the marker that came in earlier chunks, at most shorter by
\* the white space at the head of the chunk that completed it.
ThoughtComesBeforeMarker ==
  LET told  == Select(thought, {i \in 1..Len(thought) : thought[i] # "r"})
      found == Markers(content) # {}
      begin == IF found THEN Search(content) ELSE Len(content) + 1
      end   == IF found THEN MarkerEnd(content, begin) ELSE Len(content) + 1
  IN  /\ Len(told) < end
      /\ told = SubSeq(content, 1, Len(told))
      /\ IsBlank(SubSeq(content, Len(told) + 1, begin - 1))

\* _read_stream and _split_thinking divide a reply at the same place, however the marker
\* was cut into chunks: on either side of it what was streamed is what the call returns.
\* The exception is a marker inside a <think> block that the reply begins with: there
\* what was streamed as output is only known to follow the marker.
StreamedIsReturned == OutputIsReturned /\ ThoughtComesBeforeMarker
=============================================================================
