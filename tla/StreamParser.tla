----------------------------- MODULE StreamParser -----------------------------
(***************************************************************************)
(* The three readers of a response body that may be cut into chunks        *)
(* anywhere, inside a separator or a character too: consumeCompletion      *)
(* (engineClient.ts, "ndjson"), consumeChatCompletion                      *)
(* (llamaCppEngineClient.ts, "sse") and parseSseFrames (public/app.js,     *)
(* "browser", which reads what the node itself sends).                     *)
(*                                                                         *)
(* A character of the text is a line end "nl" or stands for what a whole   *)
(* line says: a token ("a", or "e" whose UTF-8 form has two bytes), the    *)
(* end marker "done" (to the browser an event like any other), JSON that   *)
(* carries no token ("other"), or something that is not JSON ("junk").     *)
(***************************************************************************)
EXTENDS Integers, Sequences, FiniteSets, SequencesExt

CONSTANT
  Texts  \* the bodies that may be sent, as sequences of bytes

TokenChars == {"a", "e"}
AllChars == TokenChars \union {"done", "other", "junk", "nl"}
Bytes == (AllChars \ {"e"}) \union {"e1", "e2"}

ASSUME TextAssumption == Texts \subseteq Seq(Bytes)

VARIABLES
  protocol,  \* "ndjson", "sse" or "browser"
  text,      \* the bytes the other end sent; no step reads it
  unread,    \* those that no read() has returned yet
  held,      \* bytes in the TextDecoder
  buffer,    \* decoded characters without a complete frame
  out,       \* tokens yielded
  outcome    \* "reading", "returned", "malformed" (JSON.parse threw) or "rejected" (read did)

vars == <<protocol, text, unread, held, buffer, out, outcome>>

\* The elements of s at the positions in S, in order.
Picked(s, S) ==
  [k \in 1 .. Cardinality(S) |-> s[CHOOSE i \in S : Cardinality({j \in S : j <= i}) = k]]

-----------------------------------------------------------------------------
(* TextDecoder, in streaming mode.                                         *)

\* A plausible defect: each chunk is decoded by itself.
HeldNothing(bytes) == <<>>

\* The start of a character whose end is in a later chunk.
Held(bytes) == IF bytes # <<>> /\ Last(bytes) = "e1" THEN <<"e1">> ELSE <<>>

Begins(bytes, i) == bytes[i] = "e1" /\ i < Len(bytes) /\ bytes[i + 1] = "e2"
Ends(bytes, i) == bytes[i] = "e2" /\ i > 1 /\ bytes[i - 1] = "e1"

\* Half a character decodes to U+FFFD, which is no JSON.
Char(bytes, i) ==
  IF Ends(bytes, i) THEN "e" ELSE IF bytes[i] \in {"e1", "e2"} THEN "junk" ELSE bytes[i]

Decode(bytes) ==
  Picked([i \in DOMAIN bytes |-> Char(bytes, i)], {i \in DOMAIN bytes : ~Begins(bytes, i)})

-----------------------------------------------------------------------------
(* Frames, and what their lines say.                                       *)

Separator == IF protocol = "ndjson" THEN <<"nl">> ELSE <<"nl", "nl">>

SeparatorsIn(chars) ==
  {i \in 1 .. Len(chars) - Len(Separator) + 1 :
     SubSeq(chars, i, i + Len(Separator) - 1) = Separator}

\* JSON.parse is given one line, but the browser joins the data lines of a frame.
Reach == IF protocol = "browser" THEN 2 ELSE 1

Alone(chars, i) ==
  \A j \in DOMAIN chars : i - Reach <= j /\ j <= i + Reach => j = i \/ chars[j] = "nl"

\* A line says what its one character stands for; a longer line, and two JSON texts in a
\* row, are no JSON.
Said(chars) ==
  [i \in DOMAIN chars |-> IF chars[i] = "nl" \/ Alone(chars, i) THEN chars[i] ELSE "junk"]

\* What ends the generator: consumeChatCompletion catches what JSON.parse throws,
\* and the browser reads on to the end of the body.
Ending ==
  (IF protocol = "browser" THEN {} ELSE {"done"}) \union
  (IF protocol = "sse" THEN {} ELSE {"junk"})

Stops(chars) ==
  LET said == Said(chars)
  IN {i \in DOMAIN said : said[i] \in Ending}

Tokens(chars) ==
  LET said == Said(chars)
      stops == Stops(chars)
  IN Picked(said, {i \in DOMAIN said : said[i] \in TokenChars /\ \A j \in stops : i < j})

\* A plausible defect: the end marker leaves the loop over the lines only.
EndOfLoop(chars) ==
  IF Stops(chars) = {} \/ Said(chars)[Min(Stops(chars))] = "done" THEN "reading" ELSE "malformed"

EndOf(chars) ==
  IF Stops(chars) = {} THEN "reading"
  ELSE IF Said(chars)[Min(Stops(chars))] = "done" THEN "returned" ELSE "malformed"

-----------------------------------------------------------------------------
(* The generator.                                                          *)

Waiting == outcome = "reading" /\ SeparatorsIn(buffer) = {}

Read(n) ==
  /\ Waiting
  /\ LET bytes == held \o SubSeq(unread, 1, n)
     IN /\ held' = Held(bytes)
        /\ buffer' = buffer \o Decode(SubSeq(bytes, 1, Len(bytes) - Len(Held(bytes))))
  /\ unread' = SubSeq(unread, n + 1, Len(unread))
  /\ UNCHANGED <<protocol, text, out, outcome>>

\* A plausible defect: one character of the separator stays in the buffer.
TakeFrameShort ==
  /\ outcome = "reading"
  /\ SeparatorsIn(buffer) # {}
  /\ LET at == Min(SeparatorsIn(buffer))
         frame == SubSeq(buffer, 1, at - 1)
     IN /\ buffer' = SubSeq(buffer, at + Len(Separator) - 1, Len(buffer))
        /\ out' = out \o Tokens(frame)
        /\ outcome' = EndOf(frame)
  /\ UNCHANGED <<protocol, text, unread, held>>

\* One round of the inner loop, with every yield it makes.
TakeFrame ==
  /\ outcome = "reading"
  /\ SeparatorsIn(buffer) # {}
  /\ LET at == Min(SeparatorsIn(buffer))
         frame == SubSeq(buffer, 1, at - 1)
     IN /\ buffer' = SubSeq(buffer, at + Len(Separator), Len(buffer))
        /\ out' = out \o Tokens(frame)
        /\ outcome' = EndOf(frame)
  /\ UNCHANGED <<protocol, text, unread, held>>

\* read() says done, and whatever is in the buffer is dropped; or it rejects.
BodyEnds ==
  /\ Waiting
  /\ \/ unread = <<>> /\ outcome' = "returned"
     \/ outcome' = "rejected"
  /\ UNCHANGED <<protocol, text, unread, held, buffer, out>>

Init ==
  /\ protocol \in {"ndjson", "sse", "browser"}
  /\ text \in Texts
  /\ unread = text
  /\ held = <<>>
  /\ buffer = <<>>
  /\ out = <<>>
  /\ outcome = "reading"

Parse == (\E n \in 1 .. Len(unread) : Read(n)) \/ TakeFrame \/ BodyEnds

Next == Parse

Spec == Init /\ [][Next]_vars

\* Every read() is answered, with bytes, done or a rejection.
FairSpec == Spec /\ WF_vars(Parse)

-----------------------------------------------------------------------------
(* Properties, against the whole text: it delivers what comes before the   *)
(* end of its last separator.                                              *)

Delivered ==
  LET chars == Decode(text)
      last == SeparatorsIn(chars)
  IN IF last = {} THEN <<>> ELSE SubSeq(chars, 1, Max(last) + Len(Separator) - 1)

\* At no time has a token been yielded twice, out of order, in pieces or after
\* the end marker, wherever the chunks were cut.
YieldsInOrder == IsPrefix(out, Tokens(Delivered))

\* A generator that ends by itself has yielded every token of the text, and has
\* ended the way the whole text calls for.
ChunksDoNotMatter ==
  outcome \in {"returned", "malformed"} =>
    /\ out = Tokens(Delivered)
    /\ outcome = IF EndOf(Delivered) = "malformed" THEN "malformed" ELSE "returned"

\* The loops over chunks and frames end.
ParseEnds == <>(outcome # "reading")
=============================================================================
