----------------------------- MODULE AnswerText -----------------------------
(***************************************************************************)
(* How a streamed answer becomes text: the provider sends frames, the      *)
(* capture collects them, a hook in the page keeps the body of the whole   *)
(* stream, and _wait_for_response_pair reads both, keeps the longest text  *)
(* it saw and cuts the reasoning out of it.                                *)
(*                                                                         *)
(* A frame is a piece of JSON with at most a word of reasoning and a word  *)
(* of content; a frame with neither carries a status label only.  A text   *)
(* is a sequence of words.  When the wait is over is left open.  A         *)
(* WebSocket frame is a response of its own (ResponseCapture).             *)
(***************************************************************************)
EXTENDS Integers, SequencesExt

CONSTANTS
    Word, Nothing,
    Frame,          \* some of [r : Word \cup {Nothing}, c : Word \cup {Nothing}]
    Junk,           \* text that is no JSON: a piece of a line, or frames run together
    Screen,         \* a word of what the page shows
    MaxFrames,      \* bound: frames of a stream
    MinBody         \* bound: so many frames always fit in what the hook keeps

VARIABLES
    sent, over,     \* the frames sent; whether the stream has ended
    transport,      \* "chunks": lines in chunks of data; "messages": of an EventSource
    got, half,      \* frames the events brought, and whether a piece follows them
    bodied,         \* the body of the finished stream was appended
    hooked,         \* the frames of the body the hook stored
    phase,          \* how far the wait is
    extracted, reasoning,
    whole           \* the last read of the capture found every frame, once

captured == <<got, half, bodied>>
network == <<sent, over, transport, captured, hooked>>
wait == <<phase, extracted, reasoning, whole>>
answerVars == <<network, wait>>

AnswerInit ==
    /\ sent = <<>> /\ over = FALSE /\ transport \in {"chunks", "messages"}
    /\ got = 0 /\ half = FALSE /\ bodied = FALSE /\ hooked = <<>>
    /\ phase = "waiting" /\ extracted = <<>> /\ reasoning = <<>> /\ whole = FALSE

-----------------------------------------------------------------------------
(* The text of a frame is its content, else its reasoning, else nothing.   *)
DeltaOf(f) == IF f.c # Nothing THEN <<f.c>> ELSE IF f.r # Nothing THEN <<f.r>> ELSE <<>>
ReasonOf(f) == IF f.r # Nothing THEN <<f.r>> ELSE <<>>

DeltaText(fs) == FlattenSeq([i \in DOMAIN fs |-> DeltaOf(fs[i])])
ReasonText(fs) == FlattenSeq([i \in DOMAIN fs |-> ReasonOf(fs[i])])

(* The lines of the captured text.  Chunks keep the ends of lines, and the *)
(* data of messages has none: they make one line.  What is appended goes   *)
(* on where the text stopped.                                              *)
LinePer(fs) == [i \in DOMAIN fs |-> <<fs[i]>>]

Lines ==
    LET seen == SubSeq(sent, 1, got)
        rest == IF half THEN <<Junk>> ELSE <<>>
        full == IF transport = "chunks" THEN LinePer(seen) ELSE <<>>
        open == IF transport = "chunks" THEN rest ELSE seen \o rest
    IN  IF bodied THEN full \o <<Append(open, Head(sent))>> \o LinePer(Tail(sent))
        ELSE IF open = <<>> THEN full ELSE Append(full, open)

(* A line of one frame is JSON.  Any other is taken literally, and that is *)
(* longer than the words in it.  When all that is JSON holds only labels,  *)
(* there is no text.                                                       *)
IsJson(line) == Len(line) = 1 /\ line[1] # Junk
Literally(n) == [i \in 1..(2 * n) |-> Junk]

CoerceSseText(lines) ==
    LET json == {i \in DOMAIN lines : IsJson(lines[i])}
        text == [i \in DOMAIN lines |->
                   IF i \in json THEN DeltaOf(lines[i][1]) ELSE Literally(Len(lines[i]))]
    IN  IF json = {} \/ \E i \in json : text[i] # <<>> THEN FlattenSeq(text) ELSE <<>>

GetResponseText == CoerceSseText(Lines)

(* _extract_response_text: the body, if it has any delta, else the page.   *)
(* The hook too runs messages together, and what it makes of them is taken *)
(* as it is.                                                               *)
PageTexts ==
    LET body == IF transport = "chunks" THEN DeltaText(hooked) ELSE Literally(Len(hooked))
    IN  IF body # <<>> THEN {body} ELSE {<<>>, <<Screen>>, <<Screen, Screen>>}

(* str.replace(part, "")                                                   *)
RECURSIVE Without(_, _)
Without(text, part) ==
    IF Len(text) < Len(part) THEN text
    ELSE IF IsPrefix(part, text) THEN Without(SubSeq(text, Len(part) + 1, Len(text)), part)
    ELSE <<Head(text)>> \o Without(Tail(text), part)

Longer(old, new) == IF Len(new) > Len(old) THEN new ELSE old

-----------------------------------------------------------------------------
(* The stream.  Its chunks end anywhere, and some carry no data.           *)
Send ==
    /\ ~over /\ Len(sent) < MaxFrames
    /\ \E f \in Frame : sent' = Append(sent, f)
    /\ UNCHANGED <<over, transport, captured, hooked, wait>>

StreamEnds ==
    /\ ~over
    /\ over' = TRUE
    /\ UNCHANGED <<sent, transport, captured, hooked, wait>>

OnChunk ==
    /\ transport = "chunks" /\ ~bodied /\ got < Len(sent)
    /\ got' \in got..Len(sent)
    /\ half' \in {b \in BOOLEAN : (b => got' < Len(sent)) /\ (half /\ got' = got => b)}
    /\ UNCHANGED <<sent, over, transport, bodied, hooked, wait>>

(* A message is a frame, or the mark of the end.                           *)
OnEventSourceMessage ==
    /\ transport = "messages" /\ ~bodied /\ ~half
    /\ \/ got < Len(sent) /\ got' = got + 1 /\ UNCHANGED half
       \/ over /\ got = Len(sent) /\ half' = TRUE /\ UNCHANGED got
    /\ UNCHANGED <<sent, over, transport, bodied, hooked, wait>>

(* The body is appended to whatever the events brought.                    *)
AppendBody ==
    /\ over /\ ~bodied /\ sent # <<>>
    /\ bodied' = TRUE
    /\ UNCHANGED <<sent, over, transport, got, half, hooked, wait>>

(* The hook keeps so many characters, and whole lines of them count.       *)
Store(by) ==
    /\ transport = by /\ over /\ hooked = <<>>
    /\ \E n \in 1..Len(sent) : (n >= MinBody \/ n = Len(sent)) /\ hooked' = SubSeq(sent, 1, n)
    /\ UNCHANGED <<sent, over, transport, captured, wait>>

(* Of what is fetched, the whole body; of an EventSource, the messages, at *)
(* its end.                                                                *)
StoreBody == Store("chunks")
StoreMessages == Store("messages")

-----------------------------------------------------------------------------
(* After a tick the captured text is read; when there is none the page is  *)
(* asked; then the wait goes on, is done, or has seen the stream close.    *)
GoesOn(text) ==
    phase' \in {"waiting", "closing"} \cup (IF text # <<>> THEN {"reasoning"} ELSE {})

Whole == over /\ Lines = LinePer(sent)

Tick ==
    /\ phase = "waiting"
    /\ extracted' = Longer(extracted, GetResponseText)
    /\ whole' = Whole
    /\ GoesOn(extracted') \/ (extracted' = <<>> /\ phase' = "looking")
    /\ UNCHANGED <<network, reasoning>>

Look ==
    /\ phase = "looking"
    /\ extracted' \in PageTexts
    /\ GoesOn(extracted')
    /\ UNCHANGED <<network, reasoning, whole>>

Settle(text) == phase' = IF text = <<>> THEN "last" ELSE "reasoning"

(* The ticks are used up.                                                  *)
TimeUp ==
    /\ phase = "waiting"
    /\ Settle(extracted)
    /\ UNCHANGED <<network, extracted, reasoning, whole>>

CloseBlind ==  \* mutant: the text is not read again after the last second
    /\ phase = "closing"
    /\ phase' = IF extracted = <<>> THEN "closeLook" ELSE "reasoning"
    /\ whole' = Whole
    /\ UNCHANGED <<network, extracted, reasoning>>

(* A second after the stream closed.                                       *)
Close ==
    /\ phase = "closing"
    /\ extracted' = Longer(extracted, GetResponseText)
    /\ phase' = IF extracted' = <<>> THEN "closeLook" ELSE "reasoning"
    /\ whole' = Whole
    /\ UNCHANGED <<network, reasoning>>

CloseLook ==
    /\ phase = "closeLook"
    /\ extracted' \in PageTexts
    /\ Settle(extracted')
    /\ UNCHANGED <<network, reasoning, whole>>

LastRead ==
    /\ phase = "last"
    /\ extracted' \in IF GetResponseText # <<>> THEN {GetResponseText} ELSE PageTexts
    /\ whole' = Whole
    /\ phase' = "reasoning"
    /\ UNCHANGED <<network, reasoning>>

(* The reasoning comes from the lines of the hooked body.                  *)
Hooked == IF transport = "chunks" THEN ReasonText(hooked) ELSE <<>>

ExtractReasoning ==
    /\ phase = "reasoning"
    /\ reasoning' = Hooked
    /\ extracted' = IF reasoning' = <<>> THEN extracted ELSE Without(extracted, reasoning')
    /\ phase' = "answered"
    /\ UNCHANGED <<network, whole>>

(* After the answer nothing is read.                                       *)
AnswerNext ==
    \/ /\ phase # "answered"
       /\ \/ Send \/ StreamEnds \/ OnChunk \/ OnEventSourceMessage \/ AppendBody
          \/ StoreBody \/ StoreMessages
    \/ Tick \/ Look \/ TimeUp \/ Close \/ CloseLook \/ LastRead \/ ExtractReasoning

-----------------------------------------------------------------------------
Contents(fs) == FlattenSeq([i \in DOMAIN fs |-> IF fs[i].c # Nothing THEN <<fs[i].c>> ELSE <<>>])

(* A provider that reasons first, then answers, and does not quote itself. *)
Orderly(fs) ==
    /\ \A i, j \in DOMAIN fs : fs[i].c # Nothing /\ fs[j].r # Nothing => j < i
    /\ Contents(fs) # <<>>
    /\ ReasonText(fs) # <<>> => Without(Contents(fs), ReasonText(fs)) = Contents(fs)

(* When the last read of the capture found the whole stream, and once,     *)
(* whichever way the wait ended, then the answer is the text of the stream *)
(* and no text that was read too early; only one that is as long and holds *)
(* pieces of lines or words of the page may have got in first.  Of an      *)
(* orderly provider, whose body was hooked in full and with its lines, the *)
(* text that is left is its content and the reasoning is its reasoning.    *)
AnswerIsTheContent ==
    [][/\ phase' = "answered" /\ phase # phase'
       /\ whole
       => \/ /\ Len(extracted) >= Len(DeltaText(sent))
             /\ \E i \in DOMAIN extracted : extracted[i] \notin Word
          \/ /\ extracted = DeltaText(sent)
             /\ Orderly(sent) /\ hooked = sent /\ transport = "chunks" =>
                  extracted' = Contents(sent) /\ reasoning' = ReasonText(sent)]_answerVars
=============================================================================
