------------------------------- MODULE Dialogue -------------------------------
(***************************************************************************)
(* What the assistant's store promises: a conversation is a list of whole  *)
(* turns, a question with its answer, that grows one turn at a time and    *)
(* goes as a whole when its owner deletes it.                              *)
(***************************************************************************)
CONSTANTS Convs, Turns

VARIABLES
  live,       \* conversations that exist
  gone,       \* conversations that were deleted
  questions,  \* per conversation, turns whose question it shows
  answers     \* per conversation, turns whose answer it shows

vars == <<live, gone, questions, answers>>

Init ==
  /\ live = {}
  /\ gone = {}
  /\ questions = [c \in Convs |-> {}]
  /\ answers = [c \in Convs |-> {}]

Open(c) ==
  /\ c \notin live \union gone
  /\ live' = live \union {c}
  /\ UNCHANGED <<gone, questions, answers>>

\* The first turn may open its conversation.
Add(c, t) ==
  /\ c \notin gone
  /\ live' = live \union {c}
  /\ \A d \in Convs : t \notin questions[d]
  /\ questions' = [questions EXCEPT ![c] = @ \union {t}]
  /\ answers' = [answers EXCEPT ![c] = @ \union {t}]
  /\ UNCHANGED gone

Remove(c) ==
  /\ c \in live
  /\ live' = live \ {c}
  /\ gone' = gone \union {c}
  /\ questions' = [questions EXCEPT ![c] = {}]
  /\ answers' = [answers EXCEPT ![c] = {}]

Next == \E c \in Convs : Open(c) \/ Remove(c) \/ \E t \in Turns : Add(c, t)

Spec == Init /\ [][Next]_vars
=============================================================================
