---------------------------- MODULE PromptWindow ----------------------------
(***************************************************************************)
(* Which messages of a conversation reach the model when it is too long:    *)
(* build_prompt_within_budget of app/chat_format.py, and its mirror         *)
(* analyze_prompt_budget of app/context_budget.py, which tells the user     *)
(* beforehand.  A message is its role and its size; a "tool" message is a   *)
(* tool result, which has the role of a user.  Rendered, a conversation     *)
(* costs its messages and a fixed overhead.                                 *)
(***************************************************************************)
EXTENDS Naturals, Sequences, FiniteSets

CONSTANTS
  MaxMessages,  \* bound: messages of a conversation
  MaxSize       \* bound: size of a message

ASSUME WindowAssumption == MaxMessages \in Nat /\ MaxSize \in Nat \ {0}

VARIABLES
  talk,    \* dict_messages
  budget,  \* max_prompt_len
  step,    \* "full", "search", "final" or "built"
  low, high, best,
  kept     \* the messages of the prompt: a set of indexes of talk

windowVars == <<talk, budget, step, low, high, best, kept>>

Roles == {"system", "user", "tool", "assistant"}
Overhead == 1
Messages == [role : Roles, size : 1..MaxSize]

WindowTypeOK ==
  /\ talk \in Seq(Messages) /\ budget \in Nat
  /\ step \in {"full", "search", "final", "built"}
  /\ {low, high, best} \subseteq 0..(Len(talk) + 1) /\ kept \subseteq DOMAIN talk

WindowInit ==
  /\ talk \in UNION {[1..n -> Messages] : n \in 1..MaxMessages}
  /\ budget \in 1..(MaxMessages * MaxSize)
  /\ step = "full" /\ low = 0 /\ high = 0 /\ best = 0 /\ kept = {}

-----------------------------------------------------------------------------
(* _split_leading_system_and_turns                                          *)

\* The system messages that lead the conversation
Prefix == {i \in DOMAIN talk : \A j \in 1..i : talk[j].role = "system"}
Remainder == DOMAIN talk \ Prefix

FromUser(i) == talk[i].role \in {"user", "tool"}

\* Regression form: a tool result begins a turn of its own.
EveryUserStarts == {i \in Remainder : FromUser(i)}
\* A turn starts at a user's message; a tool result only starts one when nothing of the
\* user came before.
TurnStarts ==
  {i \in Remainder : FromUser(i) /\ (talk[i].role = "user" \/ \A j \in Remainder : j < i => ~FromUser(j))}

\* Without any turn the last message stands for one.
Starts == IF TurnStarts # {} \/ Remainder = {} THEN TurnStarts ELSE {Len(talk)}
Turns == Cardinality(Starts)

\* The messages of the last k turns
LastTurns(k) == {i \in Remainder : \E s \in Starts : s <= i /\ Cardinality({t \in Starts : t > s}) < k}

\* A message of size n is n units of text.
Units(messages) == {p \in messages \X (1..MaxSize) : p[2] <= talk[p[1]].size}
Cost(messages) == Overhead + Cardinality(Units(messages))
Window(k) == Prefix \cup LastTurns(k)
Fits(k) == Cost(Window(k)) <= budget

-----------------------------------------------------------------------------

\* The whole conversation fits, or the search over its turns begins.
TryAll ==
  /\ step = "full"
  /\ \/ /\ Cost(DOMAIN talk) <= budget
        /\ step' = "built" /\ kept' = DOMAIN talk
        /\ UNCHANGED <<low, high, best>>
     \/ /\ Cost(DOMAIN talk) > budget /\ Starts = {}
        /\ step' = "built" /\ kept' = Prefix
        /\ UNCHANGED <<low, high, best>>
     \/ /\ Cost(DOMAIN talk) > budget /\ Starts # {}
        /\ step' = "search" /\ low' = 1 /\ high' = Turns /\ best' = 1
        /\ UNCHANGED kept
  /\ UNCHANGED <<talk, budget>>

Mid == (low + high) \div 2

\* Regression form: the search stops one candidate early.
SearchStopsEarly ==
  /\ step = "search"
  /\ IF low < high
     THEN /\ step' = step
          /\ IF Fits(Mid) THEN best' = Mid /\ low' = Mid + 1 /\ UNCHANGED high
             ELSE high' = Mid - 1 /\ UNCHANGED <<low, best>>
     ELSE step' = "final" /\ UNCHANGED <<low, high, best>>
  /\ UNCHANGED <<talk, budget, kept>>

Search ==
  /\ step = "search"
  /\ IF low <= high
     THEN /\ step' = step
          /\ IF Fits(Mid) THEN best' = Mid /\ low' = Mid + 1 /\ UNCHANGED high
             ELSE high' = Mid - 1 /\ UNCHANGED <<low, best>>
     ELSE step' = "final" /\ UNCHANGED <<low, high, best>>
  /\ UNCHANGED <<talk, budget, kept>>

Finish ==
  /\ step = "final"
  /\ step' = "built" /\ kept' = Window(best)
  /\ UNCHANGED <<talk, budget, low, high, best>>

WindowNext == TryAll \/ Search \/ Finish
WindowSpec == WindowInit /\ [][WindowNext]_windowVars

-----------------------------------------------------------------------------
(* Properties.                                                              *)

\* No shorter history is sent than the budget allows, and a longer one only when not
\* even the last turn fits.
WindowIsLargest ==
  step = "built" /\ kept # DOMAIN talk =>
    /\ Cost(DOMAIN talk) > budget
    /\ \A k \in 1..Turns : LastTurns(k) \subseteq kept \/ ~Fits(k)
    /\ Cost(kept) <= budget \/ Turns = 0 \/ kept = Window(1)

\* "Context trimming must never retain an assistant answer after dropping the user
\* message that prompted it" (chat_format.py), nor a tool result without its turn.
NoAnswerWithoutItsQuestion ==
  step = "built" /\ kept # DOMAIN talk /\ TurnStarts # {} =>
    \A i \in kept \ Prefix : \E q \in kept :
      /\ talk[q].role = "user" \/ \A j \in Remainder : talk[j].role = "user" => j > i
      /\ FromUser(q) /\ q <= i /\ \A j \in q..i : j \in kept

\* The instructions and the newest message are always sent.
NewestIsKept ==
  step = "built" => /\ Prefix \subseteq kept
                    /\ Remainder # {} => Len(talk) \in kept

WindowRight == WindowIsLargest /\ NoAnswerWithoutItsQuestion /\ NewestIsKept
=============================================================================
