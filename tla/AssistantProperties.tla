------------------------- MODULE AssistantProperties -------------------------
(***************************************************************************)
(* What the assistant must guarantee.                                      *)
(***************************************************************************)
EXTENDS Assistant

FoundFacts == UNION {ToolFacts[tool] : tool \in Tools}

TurnState == [pc : Nodes \union Ended \union {"idle", "start", "store", "commit", "stream"},
              user : Users \union {Nothing}, conv : Convs \union {Nothing},
              new : BOOLEAN, untitled : BOOLEAN, stale : BOOLEAN, titled : BOOLEAN,
              failed : BOOLEAN,
              retrieval : SUBSET Chunks, calls : SUBSET Tools,
              known : SUBSET FoundFacts,
              answer : Texts \union {NoAnswer}, action : {"allow", "warn", "block"}]

\* Rows have their columns, and turns the fields of AgentState.
TypeOK ==
  /\ conv \in [Convs -> ConvRow]
  /\ messages \subseteq QuestionRow \union AnswerRow
  /\ turn \in [Turns -> TurnState]

Rows(t) == {m \in messages : m.turn = t}

\* The response agrees with the store: once tokens are sent, question and
\* answer are both stored in the turn's conversation, until its owner
\* deletes it; after an error event neither is; and at no time one without
\* the other.  The agent may lose the transaction to a failed statement that
\* a node or tool has caught, and another request may rename or delete the
\* conversation during the long call of the model.
AnswerMatchesStore ==
  \A t \in Turns :
    /\ Rows(t) # {} => {m.role : m \in Rows(t)} = {"user", "assistant"}
    /\ \A m \in Rows(t) : m.conv = turn[t].conv /\ conv[m.conv].status = "live"
    /\ turn[t].pc \in {"stream", "done", "denied"} =>
         Rows(t) # {} \/ conv[turn[t].conv].status = "deleted"
    /\ turn[t].pc = "error" => Rows(t) = {}

AnswerRows == {m \in messages : m.role = "assistant"}

\* A stored text of the model that leaks the prompt, extracts personal data,
\* cites what was not retrieved or rests on chunks above the user's level,
\* judged against the citations stored with it, carries at least a warning:
\* guardrail and router let no such text through as clean, on any path of
\* the graph.
HighRiskNeverClean ==
  \A m \in AnswerRows :
    m.text \in Answers /\ HighViolation(AnswerInfo[m.text], m.citations, AgentUser)
      => m.action = "warn"

\* A stored answer cites only chunks of its conversation's owner's datasets
\* and sensitivity, whose record exists and may be read by that user: what
\* the SQL filter takes from the chunk's columns is checked on the record's.
CitationsReadable ==
  \A m \in AnswerRows : \A c \in m.citations :
    LET user == UserInfo[conv[m.conv].user]
        row == RecordInfo[ChunkInfo[c].record]
    IN  /\ ChunkInfo[c].sensitivity \in AllowedSensitivities(user)
        /\ ChunkInfo[c].dataset \in AccessibleDatasets(user)
        /\ row # Nothing
        /\ "match" \in CheckOutcomes(user, "read", "record", row)

\* Nobody waits for a title longer than a commit takes: a turn that has set a
\* title without having committed it holds the conversation's row against
\* other turns and the owner, and it is the only one to, and at its commit,
\* where it waits for no row, no model and no client (AIService.chat sets the
\* title after the agent and commits before the first token is sent).
TitleHeldBriefly ==
  \A c \in Convs : \A t \in Using(c) : turn[t].titled =>
    /\ turn[t].pc = "commit"
    /\ \A s \in Others(c, t) : ~turn[s].titled

\* A title is never overwritten by one made from a question: chat() decides
\* to set it on a conversation that had none when the question came, and the
\* owner, or another turn, may have given it one during the call.
TitleKept ==
  [][\A c \in Convs :
       conv[c].title # "none" /\ conv'[c].title # conv[c].title
         => conv'[c].title \notin Turns]_vars

Asked(c) == {m.turn : m \in {n \in messages : n.conv = c /\ n.role = "user"}}
Answered(c) == {m.turn : m \in {n \in messages : n.conv = c /\ n.role = "assistant"}}

Log == INSTANCE Dialogue WITH
  live <- {c \in Convs : conv[c].status = "live"},
  gone <- {c \in Convs : conv[c].status = "deleted"},
  questions <- [c \in Convs |-> Asked(c)],
  answers <- [c \in Convs |-> Answered(c)]

\* The tables implement the dialogue: turns are added whole and once,
\* conversations appear, and go with all their turns.
ImplementsDialogue == Log!Spec

\* Every turn that is served ends: the graph has no cycle, a failed call is
\* answered by some other edge, and a turn that waits for another's title
\* waits for a transaction that ends.
TurnEnds == \A t \in Turns : Served(t) ~> ~Served(t)

-----------------------------------------------------------------------------
\* The only marks of a text are, as the prompt asks for, the first six
\* digits of records that were retrieved, and nothing else is wrong with it.
WellCited(answer, retrieval) ==
  /\ answer.marks \subseteq {ShortOf[ChunkInfo[c].record] : c \in retrieval}
  /\ ~HighViolation([answer EXCEPT !.marks = {}], retrieval, AgentUser)

\* A text that cites as the prompt tells the model to is not refused.
CitedAnswersPass ==
  \A t \in Turns :
    turn[t].pc = "respond_deny" /\ turn[t].answer \in Answers
      => ~WellCited(AnswerInfo[turn[t].answer], turn[t].retrieval)
=============================================================================
