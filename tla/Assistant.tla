------------------------------ MODULE Assistant ------------------------------
(***************************************************************************)
(* A question to the assistant: the agent's graph of nodes, and around it  *)
(* the chat transaction that stores question and answer and the stream     *)
(* that sends the answer when the transaction has committed; conversations *)
(* are opened, renamed and deleted meanwhile by other requests.            *)
(*                                                                         *)
(* A turn is one call of /ai/chat.  From the first statement to the commit *)
(* it works on one SERIALIZABLE snapshot, so what it reads is decided when *)
(* it starts, and a row it updates must not have been updated since.  What *)
(* the language model says (intent, tool calls, answer) is any of the      *)
(* possible outcomes, an exception of the call among them.                 *)
(***************************************************************************)
EXTENDS Retriever

CONSTANTS
  Turns, Convs, Users,
  UserInfo,      \* per user the loaded object that Permissions reads
  Answers,       \* texts the model may write
  AnswerInfo,    \* what the guardrails find in them
  Denial,        \* DENIAL_RESPONSE
  Apology,       \* the texts for an error
  NoAnswer,
  ToolFacts,     \* facts a call of a tool finds
  MaxCalls       \* tool calls the model makes in one turn

ASSUME AnswerAssumption ==
  /\ {Denial, Apology, NoAnswer} \intersect Answers = {}
  /\ Cardinality({Denial, Apology, NoAnswer}) = 3
ASSUME UserAssumption == \A u \in Users : \A role \in UserInfo[u].roles : role.scope \in Scopes
ASSUME MaxCallsAssumption == MaxCalls \in Nat
ASSUME TitleAssumption == {"none", "given"} \intersect Turns = {}

VARIABLES
  conv,      \* ai_conversations
  messages,  \* ai_messages
  turn       \* per turn the agent's state and the session's

vars == <<conv, messages, turn>>

Titles == {"none", "given"} \union Turns
ConvRow == [status : {"unused", "live", "deleted"}, user : Users \union {Nothing},
            title : Titles]
Texts == Answers \union {Denial, Apology}
QuestionRow == [conv : Convs, turn : Turns, role : {"user"}]
AnswerRow == [conv : Convs, turn : Turns, role : {"assistant"}, text : Texts,
              citations : SUBSET Chunks, action : {"allow", "warn", "block"}]

Nodes == {"input_filter", "classify", "permission_gate", "retrieve", "plan",
          "execute_tools", "synthesize", "guardrail", "respond_deny"}
Ended == {"done", "denied", "error", "gone"}

\* A turn that is not being served.  Fields are blanked when nothing reads
\* them any more.
Blank == [pc |-> "idle", user |-> Nothing, conv |-> Nothing, new |-> FALSE,
          untitled |-> FALSE, stale |-> FALSE, titled |-> FALSE, failed |-> FALSE,
          retrieval |-> {}, calls |-> {}, known |-> {},
          answer |-> NoAnswer, action |-> "allow"]

Init ==
  /\ conv = [c \in Convs |-> [status |-> "unused", user |-> Nothing, title |-> "none"]]
  /\ messages = {}
  /\ turn = [t \in Turns |-> Blank]

\* run_agent describes every user to the guardrails alike.
AgentUser == [sensitivity |-> "internal", readPII |-> FALSE]

InfoOf(answer) ==
  IF answer = Apology
  THEN [leaks |-> FALSE, numbers |-> 0, marks |-> {}, echoes |-> {}, facts |-> {}]
  ELSE AnswerInfo[answer]

\* What run_agent computes for a user from tables nobody changes here.
Access == [u \in Users |->
            LET user == UserInfo[u]
            IN  [tools |-> BuildTools(user), found |-> Retrieved(user),
                 searches |-> MayRetrieve(user),
                 buildMayFail |-> BuildMayFail(user), buildMustFail |-> BuildMustFail(user),
                 searchMustFail |-> MayRetrieve(user) /\ SecondCheckMustFail(user)]]
AccessOf(t) == Access[turn[t].user]

Served(t) == turn[t].pc \notin {"idle"} \union Ended

\* A slip of InTransaction: the session commits when the response is over.
HeldWhileStreaming(t) == Served(t)

\* Turns whose transaction is open on a conversation, and those besides t.
InTransaction(t) == Served(t) /\ turn[t].pc # "stream"
Using(c) == {t \in Turns : InTransaction(t) /\ turn[t].conv = c}
Others(c, t) == Using(c) \ {t}

\* The response is over: the session closes, an open transaction rolls back.
End(t, pc) == turn' = [turn EXCEPT ![t] = [Blank EXCEPT !.pc = pc, !.conv = turn[t].conv]]

-----------------------------------------------------------------------------
(* AIService.chat up to the agent.                                         *)

\* get_conversation finds the caller's own conversations; the question is
\* flushed, which locks the conversation's row against deletion.
AskIn(t, u, c) ==
  /\ conv[c].status = "live" /\ conv[c].user = u
  /\ turn' = [turn EXCEPT ![t] = [Blank EXCEPT !.pc = "start", !.user = u, !.conv = c,
                                    !.untitled = conv[c].title = "none"]]
  /\ UNCHANGED <<conv, messages>>

AskNew(t, u, c) ==
  /\ conv[c].status = "unused" /\ Others(c, t) = {}
  /\ turn' = [turn EXCEPT ![t] = [Blank EXCEPT !.pc = "start", !.user = u, !.conv = c,
                                    !.new = TRUE, !.untitled = TRUE]]
  /\ UNCHANGED <<conv, messages>>

AskMissing(t, u, c) ==
  /\ conv[c].status = "deleted" \/ (conv[c].status = "live" /\ conv[c].user # u)
  /\ turn' = [turn EXCEPT ![t] = [Blank EXCEPT !.pc = "error", !.conv = c]]
  /\ UNCHANGED <<conv, messages>>

Ask(t, u, c) ==
  /\ turn[t].pc = "idle"
  /\ AskIn(t, u, c) \/ AskNew(t, u, c) \/ AskMissing(t, u, c)

-----------------------------------------------------------------------------
(* The agent's graph: one action per node, which names the next one.       *)

Node(t, name) ==
  /\ turn[t].pc = name
  /\ UNCHANGED <<conv, messages>>

\* run_agent builds the tools first; an exception there ends the agent and
\* chat() apologises.  A statement can also fail for the database's reasons.
StartAgent(t) ==
  /\ Node(t, "start")
  /\ ~AccessOf(t).buildMustFail
  /\ turn' = [turn EXCEPT ![t].pc = "input_filter"]

AgentFails(t, broken) ==
  /\ Node(t, "start")
  /\ broken \/ AccessOf(t).buildMayFail
  /\ turn' = [turn EXCEPT ![t].pc = "store", ![t].answer = Apology, ![t].failed = broken]

\* Suspicious input is logged and goes on.
InputFilter(t) ==
  /\ Node(t, "input_filter")
  /\ turn' = [turn EXCEPT ![t].pc = "classify"]

RouteAfterClassify(intent) ==
  CASE intent = "data_query" -> "permission_gate"
    [] intent = "smalltalk" -> "synthesize"
    [] OTHER -> "respond_deny"

\* An answer that is not JSON, or no answer, is "out_of_scope".
Classify(t) ==
  \E intent \in {"data_query", "smalltalk", "out_of_scope"} :
    /\ Node(t, "classify")
    /\ turn' = [turn EXCEPT ![t].pc = RouteAfterClassify(intent)]

PermissionGate(t) ==
  /\ Node(t, "permission_gate")
  /\ turn' = [turn EXCEPT ![t].pc = "retrieve"]

Retrieve(t) ==
  /\ Node(t, "retrieve")
  /\ ~AccessOf(t).searchMustFail
  /\ turn' = [turn EXCEPT ![t].retrieval = AccessOf(t).found, ![t].pc = "plan"]

\* The node catches every exception and goes on with nothing; when it was a
\* statement that failed, the transaction is lost.
RetrieveError(t, broken) ==
  /\ Node(t, "retrieve")
  /\ broken => AccessOf(t).searches
  /\ turn' = [turn EXCEPT ![t].failed = @ \/ broken, ![t].pc = "plan"]

RouteAfterPlan(calls) == IF calls = {} THEN "synthesize" ELSE "execute_tools"

Plan(t) ==
  /\ Node(t, "plan")
  /\ \E calls \in SUBSET AccessOf(t).tools :
    /\ Cardinality(calls) <= MaxCalls
    /\ turn' = [turn EXCEPT ![t].calls = calls, ![t].pc = RouteAfterPlan(calls)]

\* What the calls find out.  An exception becomes the call's result; one of
\* a statement breaks the transaction for the rest of the turn.
ExecuteTools(t, broken) ==
  \E answered \in SUBSET turn[t].calls :
    /\ Node(t, "execute_tools")
    /\ turn[t].failed => ~\E call \in answered : UsesDatabase(call)
    /\ broken => \E call \in turn[t].calls \ answered : UsesDatabase(call)
    /\ turn' = [turn EXCEPT ![t].known = UNION {ToolFacts[call] : call \in answered},
                            ![t].failed = @ \/ broken,
                            ![t].calls = {}, ![t].pc = "synthesize"]

Synthesize(t) ==
  \E answer \in Answers \union {Apology} :
    /\ Node(t, "synthesize")
    /\ turn' = [turn EXCEPT ![t].answer = answer, ![t].pc = "guardrail"]

RouteUnchecked(action) == "store"
RouteUnmapped(action) == IF action = "block" THEN "respond_deny" ELSE "END"
RouteAfterGuardrail(action) == IF action = "block" THEN "respond_deny" ELSE "store"

Guardrail(t) ==
  LET action == OutputAction(InfoOf(turn[t].answer), turn[t].retrieval,
                             turn[t].known, AgentUser)
  IN  /\ Node(t, "guardrail")
      /\ turn' = [turn EXCEPT ![t].action = action, ![t].known = {},
                              ![t].pc = RouteAfterGuardrail(action)]

\* The denial comes with a verdict of its own.
RespondDeny(t) ==
  /\ Node(t, "respond_deny")
  /\ turn' = [turn EXCEPT ![t].answer = Denial, ![t].action = "allow", ![t].pc = "store"]

-----------------------------------------------------------------------------
(* AIService.chat after the agent, and the response.                       *)

\* UPDATE of the conversation's title: waits for another turn's uncommitted
\* one, and fails when the row was updated after this snapshot.
TitleUnread(t) == TRUE
TitleFree(t) == \A s \in Others(turn[t].conv, t) : ~turn[s].titled
TitleCurrent(t) == turn[t].untitled => ~turn[t].stale

Store(t) ==
  /\ turn[t].pc = "store"
  /\ ~turn[t].failed
  /\ turn[t].untitled => TitleFree(t)
  /\ TitleCurrent(t)
  /\ turn' = [turn EXCEPT ![t].titled = turn[t].untitled, ![t].pc = "commit"]
  /\ UNCHANGED <<conv, messages>>

\* The flush raises, chat() does not catch it, and nothing is stored.
StoreFailsStale(t) ==
  /\ turn[t].pc = "store"
  /\ ~TitleCurrent(t) /\ TitleFree(t)
  /\ End(t, "error")
  /\ UNCHANGED <<conv, messages>>
StoreFails(t) ==
  /\ turn[t].pc = "store"
  /\ turn[t].failed \/ (~TitleCurrent(t) /\ TitleFree(t))
  /\ End(t, "error")
  /\ UNCHANGED <<conv, messages>>

RowsApart(t) == {[conv |-> turn[t].conv, turn |-> t, role |-> "user"]}
RowsOf(t) ==
  {[conv |-> turn[t].conv, turn |-> t, role |-> "user"],
   [conv |-> turn[t].conv, turn |-> t, role |-> "assistant", text |-> turn[t].answer,
    citations |-> turn[t].retrieval, action |-> turn[t].action]}

\* Transactions still open on a conversation whose row was just updated.
Outdate(c, t, f) ==
  [s \in Turns |-> IF s \in Others(c, t) THEN [f[s] EXCEPT !.stale = TRUE] ELSE f[s]]

Commit(t) ==
  LET c == turn[t].conv
      streaming == [turn EXCEPT ![t].pc = "stream"]
  IN  /\ turn[t].pc = "commit"
      /\ messages' = messages \union RowsOf(t)
      /\ conv' = [conv EXCEPT ![c] =
                    [status |-> "live", user |-> turn[t].user,
                     title |-> IF turn[t].titled THEN t ELSE conv[c].title]]
      /\ turn' = IF turn[t].titled THEN Outdate(c, t, streaming) ELSE streaming

\* A serialization failure may also show at the commit.
CommitFails(t) ==
  /\ turn[t].pc = "commit"
  /\ End(t, "error")
  /\ UNCHANGED <<conv, messages>>

Stream(t) ==
  /\ turn[t].pc = "stream"
  /\ End(t, IF turn[t].action = "block" THEN "denied" ELSE "done")
  /\ UNCHANGED <<conv, messages>>

\* The client leaves; what runs is cancelled.
Hangup(t) ==
  /\ Served(t)
  /\ End(t, "gone")
  /\ UNCHANGED <<conv, messages>>

-----------------------------------------------------------------------------
(* The other requests about conversations, each one transaction.           *)

CreateConversation(u, c, title) ==
  /\ conv[c].status = "unused" /\ Using(c) = {}
  /\ conv' = [conv EXCEPT ![c] = [status |-> "live", user |-> u, title |-> title]]
  /\ UNCHANGED <<messages, turn>>

\* An empty title is accepted, and counts as none.
RenameConversation(u, c, title) ==
  /\ conv[c].status = "live" /\ conv[c].user = u
  /\ \A t \in Using(c) : ~turn[t].titled
  /\ conv' = [conv EXCEPT ![c].title = title]
  /\ turn' = [t \in Turns |-> IF t \in Using(c)
                              THEN [turn[t] EXCEPT !.stale = TRUE] ELSE turn[t]]
  /\ UNCHANGED messages

\* The foreign key's cascade takes the messages; a turn in progress holds
\* the row until its end.
Unguarded(c) == TRUE
Unused(c) == Using(c) = {}
DeleteConversation(u, c) ==
  /\ conv[c].status = "live" /\ conv[c].user = u
  /\ Unused(c)
  /\ conv' = [conv EXCEPT ![c].status = "deleted", ![c].title = "none"]
  /\ messages' = {m \in messages : m.conv # c}
  /\ UNCHANGED turn

-----------------------------------------------------------------------------

TurnNext(t) ==
  \/ StartAgent(t) \/ InputFilter(t) \/ Classify(t) \/ PermissionGate(t) \/ Retrieve(t)
  \/ Plan(t) \/ Synthesize(t) \/ Guardrail(t) \/ RespondDeny(t)
  \/ \E broken \in BOOLEAN :
       AgentFails(t, broken) \/ RetrieveError(t, broken) \/ ExecuteTools(t, broken)
  \/ Store(t) \/ StoreFails(t) \/ Commit(t) \/ CommitFails(t) \/ Stream(t)

ConversationNext ==
  \E u \in Users, c \in Convs :
    \/ \E title \in {"none", "given"} :
         CreateConversation(u, c, title) \/ RenameConversation(u, c, title)
    \/ DeleteConversation(u, c)

Next ==
  \/ \E t \in Turns : TurnNext(t) \/ Hangup(t) \/ \E u \in Users, c \in Convs : Ask(t, u, c)
  \/ ConversationNext

Spec == Init /\ [][Next]_vars

\* The server runs on: a call of the model returns or fails.
FairSpec == Spec /\ \A t \in Turns : WF_vars(TurnNext(t))
=============================================================================
