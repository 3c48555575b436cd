------------------------------- MODULE AnswerText -------------------------------
(***************************************************************************)
(* The text of an answer on its three ways: streamed to the browser chunk  *)
(* by chunk without the model's <think> blocks (assistant.service.ts),     *)
(* cleaned as a whole and saved (callModel of langgraph.flow.ts), and      *)
(* rendered by the page (MessageContent of AssistantChat.tsx), live or     *)
(* from the history.  A text is a sequence of tokens: the two tags, and    *)
(* words, of which two are enough to see one lost, doubled or misplaced.   *)
(* The model's deltas do not keep to tags: a chunk may end inside one, and *)
(* the next then begins with its rest.  Where the tag is cut makes no      *)
(* difference, nor in how many pieces: no piece contains the tag.          *)
(***************************************************************************)
EXTENDS Integers, Sequences

CONSTANTS
    MaxLength,      \* bound on the tokens of an answer
    MaxChunk        \* bound on the tokens of a chunk

ASSUME TextAssumption == MaxLength \in Nat /\ MaxChunk \in Nat \ {0}

VARIABLES
    text,                           \* what the model has generated
    streamed, isThinking, sawAgentChunk,    \* streamQuery
    tame,                           \* history: no chunk holds more than one block
    cut,                            \* history: a chunk ended inside a tag
    saved, finished                 \* the message in the table

textVars == <<text, streamed, isThinking, sawAgentChunk, tame, cut, saved, finished>>

Open == "<think>"
Close == "</think>"
Uncut == {"a", "b", Open, Close}
Heads == {"<thi", "</thi"}
Rest == "nk>"
Tokens == Uncut \cup Heads \cup {Rest}
WholeTexts == UNION {[1..n -> Uncut] : n \in 1..MaxChunk}
ChunkTexts ==
    {c \in UNION {[1..n -> Tokens] : n \in 1..MaxChunk} :
        \A i \in DOMAIN c : (c[i] = Rest => i = 1) /\ (c[i] \in Heads => i = Len(c))}

TextTypeOK ==
    /\ text \in Seq(Tokens) /\ Len(text) <= MaxLength
    /\ streamed \in Seq(Tokens) /\ saved \in Seq(Tokens)
    /\ {isThinking, sawAgentChunk, tame, cut, finished} \subseteq BOOLEAN

TextInit ==
    /\ text = <<>> /\ streamed = <<>> /\ saved = <<>>
    /\ isThinking = FALSE /\ sawAgentChunk = FALSE
    /\ tame = TRUE /\ cut = FALSE /\ finished = FALSE

Places(s, t) == {i \in DOMAIN s : s[i] = t}
Least(S) == CHOOSE i \in S : \A j \in S : i <= j

\* s + c, where the rest of a tag completes it.
EndsInTag(s) == s # <<>> /\ s[Len(s)] \in Heads
Whole(head) == IF head = "<thi" THEN Open ELSE Close
Join(s, c) ==
    IF EndsInTag(s) /\ c # <<>> /\ c[1] = Rest
    THEN [s EXCEPT ![Len(s)] = Whole(s[Len(s)])] \o Tail(c)
    ELSE s \o c

\* s.split(t)[0] and [1], of an s that holds t.
Before(s, t) == SubSeq(s, 1, Least(Places(s, t)) - 1)
After(s, t) ==
    LET rest == SubSeq(s, Least(Places(s, t)) + 1, Len(s))
    IN  IF Places(rest, t) = {} THEN rest ELSE Before(rest, t)

\* s.replace(/<think>[\s\S]*?<\/think>/g, "")
Closing(s, i) == {j \in Places(s, Close) : j > i}
CleanFrom(s) ==
    LET from[i \in 1..(Len(s) + 1)] ==
            IF i > Len(s) THEN <<>>
            ELSE IF s[i] = Open /\ Closing(s, i) # {} THEN from[Least(Closing(s, i)) + 1]
            ELSE <<s[i]>> \o from[i + 1]
    IN  from
Clean(s) == CleanFrom(s)[1]

\* s.replace(/<think>[\s\S]*?(?:<\/think>|$)/, "")
Shown(s) ==
    LET open == Least(Places(s, Open))
        rest == SubSeq(s, open + 1, Len(s))
        closed == Places(rest, Close)
    IN  IF Places(s, Open) = {} THEN s
        ELSE SubSeq(s, 1, open - 1)
             \o IF closed = {} THEN <<>> ELSE SubSeq(rest, Least(closed) + 1, Len(rest))

Tame(c) ==
    /\ \A t \in {Open, Close} : \A i, j \in Places(c, t) : i = j
    /\ \A i \in Places(c, Open), j \in Places(c, Close) : i < j

-------------------------------------------------------------------------------
\* Mutant: the text after a closing tag is left out.
YieldedDropsRest(c) ==
    LET opens == Places(c, Open) # {}
        content == IF opens THEN After(c, Open) ELSE c
    IN  (IF opens THEN Before(c, Open) ELSE <<>>)
        \o (IF isThinking \/ opens THEN <<>> ELSE content)

\* The body of the for await loop.
Yielded(c) ==
    LET opens == Places(c, Open) # {}
        content == IF opens THEN After(c, Open) ELSE c
    IN  (IF opens THEN Before(c, Open) ELSE <<>>)
        \o (IF ~isThinking /\ ~opens THEN content
            ELSE IF Places(content, Close) # {} THEN After(content, Close)
            ELSE <<>>)

StillThinking(c) ==
    LET opens == Places(c, Open) # {}
    IN  (isThinking \/ opens)
        /\ Places(IF opens THEN After(c, Open) ELSE c, Close) = {}

StreamChunk(c) ==
    /\ ~finished /\ Len(text) + Len(c) <= MaxLength
    /\ text = <<>> \/ sawAgentChunk
    /\ c[1] = Rest <=> EndsInTag(text)
    /\ text' = Join(text, c)
    /\ streamed' = Join(streamed, Yielded(c))
    /\ isThinking' = StillThinking(c)
    /\ sawAgentChunk' = TRUE
    /\ tame' = (tame /\ Tame(c)) /\ cut' = (cut \/ EndsInTag(c))
    /\ UNCHANGED <<saved, finished>>

\* model.invoke returns: callModel cleans and saves the whole, and the message
\* of the node is skipped by streamQuery, for its chunks have been seen.
StreamEnds ==
    /\ ~finished /\ sawAgentChunk
    /\ saved' = Clean(text)
    /\ finished' = TRUE
    /\ UNCHANGED <<text, streamed, isThinking, sawAgentChunk, tame, cut>>

\* A model that does not stream: the message of the node is the only one, and
\* callModel has already replaced its content by the cleaned one.
FullMessage(c) ==
    /\ ~finished /\ ~sawAgentChunk /\ Len(c) <= MaxLength
    /\ text' = c
    /\ saved' = Clean(c)
    /\ streamed' = streamed \o Clean(Clean(c))
    /\ finished' = TRUE
    /\ UNCHANGED <<isThinking, sawAgentChunk, tame, cut>>

TextNext ==
    \/ \E c \in ChunkTexts : StreamChunk(c)
    \/ \E c \in WholeTexts : FullMessage(c)
    \/ StreamEnds

TextSpec == TextInit /\ [][TextNext]_textVars

-------------------------------------------------------------------------------
(* Properties                                                              *)

\* No block is in another: a closing tag between any two opening ones, and an
\* opening tag before each closing one, with no other closing one between.
Unnested(s) ==
    /\ \A i, j \in Places(s, Open) : i < j => \E k \in Closing(s, i) : k < j
    /\ \A j \in Places(s, Close) : \E i \in Places(s, Open) : i < j /\ Least(Closing(s, i)) = j

\* What the page renders while an answer streams in is what it renders when the
\* conversation is loaded again (the saved message), and holds no tag: for every
\* answer whose blocks are not nested, closed or not, streamed in chunks of at
\* most one block that do not end inside a tag.  (streamQuery looks for a tag in
\* each chunk by itself and does not see one that two chunks share: behind a
\* closing tag that is cut, the rest of the answer is saved and never streamed.)
LiveAsReloaded ==
    finished /\ tame /\ ~cut /\ Unnested(text) =>
        /\ Shown(streamed) = Shown(saved)
        /\ Places(Shown(saved), Open) \cup Places(Shown(saved), Close) = {}

===============================================================================
