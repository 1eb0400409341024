----------------------------- MODULE AnswerStream -----------------------------
(***************************************************************************)
(* One streamed answer: the app's NDJSON events (api.py,                   *)
(* async_prompt_stream and _iter_ndjson) and what a chat turn makes of     *)
(* them (conversation.py, _async_stream_read).                             *)
(*                                                                         *)
(* A text is a sequence of code points: "char", or a half of a surrogate   *)
(* pair, "high" or "low", which the app may put in two deltas. Joined they *)
(* are a "pair"; alone, a half is "replaced". "answer" stands for the text *)
(* of the final result, "note" for the text of a degraded one.             *)
(***************************************************************************)
EXTENDS Naturals, Sequences

CONSTANTS
    MaxDeltas,  \* bound on the deltas of an answer
    MaxDelta    \* bound on the code points of a delta

ASSUME StreamConstants == MaxDeltas \in Nat /\ MaxDelta \in Nat

VARIABLES
    streamPc,   \* "ask", "read", "done", or "raised"
    deltas,     \* how many deltas came
    sent,       \* their texts, joined
    half,       \* held: the first half of a pair that a delta ended in
    shown,      \* what was yielded to the chat log
    degraded,   \* the final result is a degraded one
    answered    \* what the turn replies with

streamVars == <<streamPc, deltas, sent, half, shown, degraded, answered>>

Raw == {"char", "high", "low"}
Delta == UNION {[1..n -> Raw] : n \in 0..MaxDelta}
Shown == {"char", "pair", "replaced", "answer", "note"}

StreamTypeOK ==
    /\ streamPc \in {"ask", "read", "done", "raised"}
    /\ deltas \in 0..MaxDeltas
    /\ sent \in Seq(Raw) /\ half \in {<<>>, <<"high">>}
    /\ shown \in Seq(Shown) /\ answered \in Seq(Shown)
    /\ degraded \in BOOLEAN

StreamInit ==
    /\ streamPc = "ask" /\ deltas = 0
    /\ sent = <<>> /\ half = <<>> /\ shown = <<>> /\ answered = <<>>
    /\ degraded = FALSE

\* _valid_unicode.
PairAt(text, i) == /\ i \in 1..(Len(text) - 1)
                   /\ text[i] = "high" /\ text[i + 1] = "low"

\* What is shown for the code point at i; the second half of a pair is shown
\* with the first.
ShownAt(text, i) ==
    CASE PairAt(text, i) -> <<"pair">>
      [] PairAt(text, i - 1) -> <<>>
      [] text[i] = "char" -> <<"char">>
      [] OTHER -> <<"replaced">>

\* What is shown for each prefix of a text, pairs seen whole.
ShownUpTo(text) ==
    LET upTo[i \in 0..Len(text)] ==
          IF i = 0 THEN <<>> ELSE upTo[i - 1] \o ShownAt(text, i)
    IN  upTo

Valid(text) == ShownUpTo(text)[Len(text)]

\* A text without the high half it ends in, and that half.
EndsInHigh(text) == text # <<>> /\ text[Len(text)] = "high"
Held(text) == IF EndsInHigh(text) THEN <<"high">> ELSE <<>>
Whole(text) == IF EndsInHigh(text) THEN SubSeq(text, 1, Len(text) - 1) ELSE text

\* Bug: a half that is held is not put before the next delta.
MutJoined(text) == text

\* What a delta adds to what is held.
Joined(text) == half \o text

\* The app answers with a stream, or at once: with a result, or an error.
Answers ==
    /\ streamPc = "ask"
    /\ \/ streamPc' = "read" /\ UNCHANGED answered
       \/ streamPc' = "done" /\ answered' = <<"answer">>
       \/ streamPc' = "raised" /\ UNCHANGED answered
    /\ UNCHANGED <<deltas, sent, half, shown, degraded>>

ReadDelta ==
    /\ streamPc = "read" /\ deltas < MaxDeltas
    /\ \E text \in Delta :
         /\ sent' = sent \o text
         /\ half' = Held(Joined(text))
         /\ shown' = shown \o Valid(Whole(Joined(text)))
    /\ deltas' = deltas + 1
    /\ UNCHANGED <<streamPc, degraded, answered>>

\* "done": what is still held is yielded, then the result; a degraded one ends
\* an answer that had begun. The turn replies with what was streamed, if
\* anything was. An expired sign-in is an error (_parse_prompt_result).
ReadDone ==
    LET streamed == shown \o Valid(half)
    IN  /\ streamPc = "read"
        /\ half' = <<>>
        /\ \E d \in BOOLEAN, expired \in BOOLEAN :
             IF expired
             THEN /\ streamPc' = "raised"
                  /\ shown' = streamed
                  /\ UNCHANGED <<degraded, answered>>
             ELSE /\ streamPc' = "done"
                  /\ degraded' = d
                  /\ shown' = IF d /\ streamed # <<>> THEN Append(streamed, "note") ELSE streamed
                  /\ answered' = IF shown' # <<>> THEN shown'
                                 ELSE <<IF d THEN "note" ELSE "answer">>
        /\ UNCHANGED <<deltas, sent>>

\* An "error" event, a malformed line, the end without a result, a timeout.
Breaks ==
    /\ streamPc = "read"
    /\ streamPc' = "raised"
    /\ UNCHANGED <<deltas, sent, half, shown, degraded, answered>>

StreamNext == Answers \/ ReadDelta \/ ReadDone \/ Breaks

StreamSpec == StreamInit /\ [][StreamNext]_streamVars

-----------------------------------------------------------------------------
(* Properties. *)

\* However the app cuts its answer into deltas, what the chat log has been
\* given is the answer so far, but for a half that waits for its other one;
\* and the reply is that answer, with the app's explanation at the end, once,
\* if it was cut (_iter_ndjson, _async_stream_read).
ShowsWhatWasSent ==
    /\ streamPc = "read" => shown \o Valid(half) = Valid(sent)
    /\ streamPc = "done" /\ sent # <<>> =>
         answered = Valid(sent) \o IF degraded THEN <<"note">> ELSE <<>>
=============================================================================
