---------------------------- MODULE StopSequences ----------------------------
(***************************************************************************)
(* Cutting an answer at the client's stop sequences: truncate_at_stop for a *)
(* whole answer and StopStreamer for one that arrives in pieces             *)
(* (app/chat_format.py).  Whatever the pieces, the client must see the same *)
(* text, and never a stop sequence.                                         *)
(***************************************************************************)
EXTENDS Naturals, Sequences, FiniteSets

CONSTANTS
  Letters,
  MaxLength,   \* bound: letters of an answer
  StopLists    \* the sets of stop sequences tried

ASSUME StopAssumption ==
  MaxLength \in Nat /\ \A s \in StopLists : s \subseteq Seq(Letters) \ {<<>>} /\ IsFiniteSet(s)

VARIABLES
  stops,    \* params.stop
  answer,   \* the text the model generates
  fed,      \* letters of it fed so far
  buffer,   \* _buffer
  stopped,
  shown,    \* what the client has been sent
  over      \* flush() was called

stopVars == <<stops, answer, fed, buffer, stopped, shown, over>>

Answers == UNION {[1..n -> Letters] : n \in 0..MaxLength}

StopTypeOK ==
  /\ stops \in StopLists /\ answer \in Answers /\ fed \in 0..Len(answer)
  /\ \A text \in {buffer, shown} : text \in Seq(Letters) /\ Len(text) <= Len(answer)
  /\ {stopped, over} \subseteq BOOLEAN

StopInit ==
  /\ stops \in StopLists /\ answer \in Answers
  /\ fed = 0 /\ buffer = <<>> /\ stopped = FALSE /\ shown = <<>> /\ over = FALSE

-----------------------------------------------------------------------------

First(text, n) == SubSeq(text, 1, n)
From(text, i) == SubSeq(text, i, Len(text))
OccursAt(stop, text, i) == i + Len(stop) - 1 <= Len(text) /\ SubSeq(text, i, i + Len(stop) - 1) = stop
Hits(text) == {i \in DOMAIN text : \E stop \in stops : OccursAt(stop, text, i)}

\* truncate_at_stop: up to the earliest occurrence of any stop sequence
Truncated(text) ==
  IF Hits(text) = {} THEN text
  ELSE First(text, (CHOOSE i \in Hits(text) : \A j \in Hits(text) : i <= j) - 1)

Longest == IF stops = {} THEN 0
           ELSE CHOOSE n \in {Len(s) : s \in stops} : \A s \in stops : Len(s) <= n

\* Regression form: nothing is held back.
HoldNothing(text) == shown' = shown \o text /\ buffer' = <<>>
\* What may still become a stop sequence is held back.
Hold(text) ==
  LET keep == Longest - 1
      free == IF Len(text) > keep THEN Len(text) - keep ELSE 0
  IN shown' = shown \o First(text, free) /\ buffer' = From(text, free + 1)

\* feed(): a piece of n letters arrives.
Feed(n) ==
  /\ ~over /\ ~stopped /\ fed + n <= Len(answer)
  /\ LET piece == SubSeq(answer, fed + 1, fed + n)
         text == buffer \o piece
     IN IF stops = {} THEN shown' = shown \o piece /\ UNCHANGED <<buffer, stopped>>
        ELSE IF Hits(text) # {}
             THEN stopped' = TRUE /\ buffer' = <<>> /\ shown' = shown \o Truncated(text)
             ELSE Hold(text) /\ UNCHANGED stopped
  /\ fed' = fed + n
  /\ UNCHANGED <<stops, answer, over>>

\* flush(), when the generation has ended or was cut
Flush ==
  /\ ~over /\ (stopped \/ fed = Len(answer))
  /\ shown' = shown \o (IF stopped THEN <<>> ELSE buffer)
  /\ buffer' = <<>> /\ over' = TRUE
  /\ UNCHANGED <<stops, answer, fed, stopped>>

StopNext == Flush \/ \E n \in 1..MaxLength : Feed(n)
StopSpec == StopInit /\ [][StopNext]_stopVars

-----------------------------------------------------------------------------
(* Properties.                                                              *)

\* One stop sequence ends inside another before that one does: only then it matters in
\* which pieces the text arrives.
Nested == \E s \in stops, t \in stops : \E i \in 2..Len(t) : i + Len(s) <= Len(t) /\ OccursAt(s, t, i)

StartsWith(text, start) == Len(start) <= Len(text) /\ First(text, Len(start)) = start

\* No stop sequence, nor the beginning of the one that ends the answer, is ever shown,
\* and nothing of the text before it is lost, for any division into pieces.
StreamShowsTheTruncatedAnswer ==
  /\ Hits(shown) = {} /\ StartsWith(answer, shown)
  /\ ~Nested => StartsWith(Truncated(answer), shown)
  /\ over => StartsWith(shown, Truncated(answer))
==============================================================================
