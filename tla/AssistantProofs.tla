---------------------------- MODULE AssistantProofs ----------------------------
(***************************************************************************)
(* For any number of turns, conversations, users, chunks and texts: what   *)
(* the assistant stores, sends, cites and titles.                          *)
(***************************************************************************)
EXTENDS AssistantProperties, TLAPS

(***************************************************************************)
(* What the retriever and the tools hand to a turn.                        *)
(***************************************************************************)
LEMMA NearestAmong == ASSUME NEW n, NEW S PROVE Nearest(n, S) \subseteq S
BY DEF Nearest

\* Every chunk retrieved has passed the filter and the second check.
LEMMA RetrievedReadable ==
  ASSUME NEW user, NEW c \in Retrieved(user)
  PROVE  /\ c \in Chunks
         /\ ChunkInfo[c].sensitivity \in AllowedSensitivities(user)
         /\ ChunkInfo[c].dataset \in AccessibleDatasets(user)
         /\ RecordInfo[ChunkInfo[c].record] # Nothing
         /\ "match" \in CheckOutcomes(user, "read", "record", RecordInfo[ChunkInfo[c].record])
<1>1. MayRetrieve(user) /\ c \in Readable(user)
  BY NearestAmong DEF Retrieved
<1>2. c \in Candidates(user) /\ "match" \in RecordVerdict(user, c)
  BY <1>1 DEF Readable
<1>3. c \in Chunks /\ InBundle(user, c)
  BY <1>2, NearestAmong DEF Candidates
<1> QED BY <1>1, <1>2, <1>3 DEF InBundle, MayRetrieve, RecordVerdict

LEMMA ToolsOffered == ASSUME NEW user PROVE BuildTools(user) \subseteq Tools
<1>1. OfferedDatasets(user) \subseteq Datasets
  BY ActiveAssumption DEF OfferedDatasets
<1> QED BY <1>1 DEF BuildTools, Tools, DatasetTools

LEMMA AccessFacts ==
  ASSUME NEW u \in Users
  PROVE  /\ Access[u].found = Retrieved(UserInfo[u])
         /\ Access[u].found \subseteq Chunks /\ Access[u].tools \subseteq Tools
<1>1. Access[u].found = Retrieved(UserInfo[u]) /\ Access[u].tools = BuildTools(UserInfo[u])
  BY DEF Access
<1> QED BY <1>1, RetrievedReadable, ToolsOffered

(***************************************************************************)
(* A turn on its own.                                                      *)
(***************************************************************************)
Safe(text, chunks, action) ==
  text \in Answers /\ HighViolation(AnswerInfo[text], chunks, AgentUser) => action = "warn"

\* What a turn holds: who asks and where, texts and citations that may be
\* stored, and a verdict that has seen them; a title, once it is to be stored.
Sound(s) ==
  /\ s.pc # "idle" => s.conv \in Convs
  /\ s.pc \notin {"idle"} \union Ended => s.user \in Users
  /\ \A c \in s.retrieval : s.user \in Users /\ c \in Retrieved(UserInfo[s.user])
  /\ s.pc \in {"guardrail", "store", "commit"} => s.answer \in Texts
  /\ s.pc \in {"store", "commit"} => Safe(s.answer, s.retrieval, s.action)
  /\ s.titled => s.pc \in {"commit", "stream"}

\* A step of the agent, seen from outside.
Works(t) ==
  /\ UNCHANGED <<conv, messages>>
  /\ \A s \in Turns \ {t} : turn'[s] = turn[s]
  /\ turn' \in [Turns -> TurnState] /\ Sound(turn'[t])
  /\ turn[t].pc \notin {"idle", "stream"} \union Ended
  /\ turn'[t].pc \notin {"idle", "stream"} \union Ended
  /\ turn'[t].user = turn[t].user /\ turn'[t].conv = turn[t].conv
  /\ turn'[t].new = turn[t].new /\ turn'[t].untitled = turn[t].untitled
  /\ turn'[t].stale = turn[t].stale
  /\ turn'[t].titled => \/ turn[t].titled
                        \/ turn[t].untitled /\ ~turn[t].stale /\ TitleFree(t)

AgentStep(t) ==
  \/ StartAgent(t) \/ InputFilter(t) \/ Classify(t) \/ PermissionGate(t) \/ Retrieve(t)
  \/ Plan(t) \/ Synthesize(t) \/ Guardrail(t) \/ RespondDeny(t)
  \/ \E broken \in BOOLEAN :
       AgentFails(t, broken) \/ RetrieveError(t, broken) \/ ExecuteTools(t, broken)
  \/ Store(t)

LEMMA Verdict ==
  ASSUME NEW answer \in Texts, NEW chunks, NEW known
  PROVE  LET action == OutputAction(InfoOf(answer), chunks, known, AgentUser)
         IN  /\ action \in {"allow", "warn", "block"}
             /\ action # "block" => Safe(answer, chunks, action)
<1>1. answer \in Answers => InfoOf(answer) = AnswerInfo[answer]
  BY AnswerAssumption DEF InfoOf
<1> QED BY <1>1 DEF OutputAction, RiskLevel, Safe

LEMMA AgentWorks ==
  ASSUME TypeOK, NEW t \in Turns, Sound(turn[t]), AgentStep(t)
  PROVE  Works(t)
<1> USE DEF Works, Sound, Ended, Nodes
<1>0. turn \in [Turns -> TurnState] /\ turn[t] \in TurnState
  BY DEF TypeOK
<1>1. CASE StartAgent(t)
  BY <1>0, <1>1 DEF StartAgent, Node, TurnState
<1>2. CASE InputFilter(t)
  BY <1>0, <1>2 DEF InputFilter, Node, TurnState
<1>3. CASE Classify(t)
  BY <1>0, <1>3 DEF Classify, Node, TurnState, RouteAfterClassify
<1>4. CASE PermissionGate(t)
  BY <1>0, <1>4 DEF PermissionGate, Node, TurnState
<1>5. CASE Retrieve(t)
  <2>1. turn[t].user \in Users
    BY <1>5 DEF Retrieve, Node
  <2>2. AccessOf(t).found = Retrieved(UserInfo[turn[t].user]) /\ AccessOf(t).found \subseteq Chunks
    BY <2>1, AccessFacts DEF AccessOf
  <2> QED BY <1>0, <1>5, <2>1, <2>2 DEF Retrieve, Node, TurnState
<1>6. CASE Plan(t)
  <2>1. AccessOf(t).tools \subseteq Tools
    BY <1>6, AccessFacts DEF AccessOf, Plan, Node
  <2> PICK calls \in SUBSET AccessOf(t).tools :
        turn' = [turn EXCEPT ![t].calls = calls, ![t].pc = RouteAfterPlan(calls)]
    BY <1>6 DEF Plan
  <2>2. Node(t, "plan") /\ calls \subseteq Tools
    BY <1>6, <2>1 DEF Plan
  <2>3. RouteAfterPlan(calls) \in {"synthesize", "execute_tools"}
    BY DEF RouteAfterPlan
  <2> QED BY <1>0, <2>2, <2>3 DEF Node, TurnState
<1>7. CASE Synthesize(t)
  BY <1>0, <1>7 DEF Synthesize, Node, TurnState, Texts
<1>8. CASE Guardrail(t)
  <2> DEFINE action == OutputAction(InfoOf(turn[t].answer), turn[t].retrieval, turn[t].known,
                                    AgentUser)
  <2>1. turn[t].answer \in Texts
    BY <1>8 DEF Guardrail, Node
  <2>2. /\ action \in {"allow", "warn", "block"}
        /\ action # "block" => Safe(turn[t].answer, turn[t].retrieval, action)
    BY <2>1, Verdict
  <2>3. Node(t, "guardrail") /\ turn' = [turn EXCEPT ![t].action = action, ![t].known = {},
                                          ![t].pc = RouteAfterGuardrail(action)]
    BY <1>8 DEF Guardrail
  <2> HIDE DEF action
  <2> QED BY <1>0, <2>1, <2>2, <2>3 DEF Node, TurnState, RouteAfterGuardrail
<1>9. CASE RespondDeny(t)
  BY <1>0, <1>9, AnswerAssumption DEF RespondDeny, Node, TurnState, Texts, Safe
<1>10. ASSUME NEW broken \in BOOLEAN, AgentFails(t, broken) PROVE Works(t)
  BY <1>0, <1>10, AnswerAssumption DEF AgentFails, Node, TurnState, Texts, Safe
<1>11. ASSUME NEW broken \in BOOLEAN, RetrieveError(t, broken) PROVE Works(t)
  BY <1>0, <1>11 DEF RetrieveError, Node, TurnState
<1>12. ASSUME NEW broken \in BOOLEAN, ExecuteTools(t, broken) PROVE Works(t)
  <2>0. PICK answered \in SUBSET turn[t].calls :
          turn' = [turn EXCEPT ![t].known = UNION {ToolFacts[call] : call \in answered},
                               ![t].failed = @ \/ broken,
                               ![t].calls = {}, ![t].pc = "synthesize"]
    BY <1>12 DEF ExecuteTools
  <2> DEFINE known == UNION {ToolFacts[call] : call \in answered}
             failed == turn[t].failed \/ broken
             row == [turn[t] EXCEPT !.known = known, !.failed = failed, !.calls = {},
                                    !.pc = "synthesize"]
  <2>1. answered \subseteq Tools
    BY <1>0 DEF TurnState
  <2>2. known \in SUBSET FoundFacts /\ failed \in BOOLEAN
    BY <2>1 DEF FoundFacts
  <2>3. turn' = [turn EXCEPT ![t] = row]
    BY <1>0, <2>0 DEF TurnState
  <2>4. Node(t, "execute_tools")
    BY <1>12 DEF ExecuteTools
  <2> HIDE DEF known, failed
  <2>5. row \in TurnState
    <3>1. {} \subseteq Tools /\ "synthesize" \in Nodes
      OBVIOUS
    <3> QED BY <1>0, <2>2, <3>1 DEF TurnState
  <2>6. /\ row.pc = "synthesize" /\ Sound(row)
        /\ row.user = turn[t].user /\ row.conv = turn[t].conv /\ row.new = turn[t].new
        /\ row.untitled = turn[t].untitled /\ row.stale = turn[t].stale
        /\ row.titled = turn[t].titled
    BY <1>0, <2>4 DEF TurnState, Node
  <2> HIDE DEF row, TurnState
  <2>7. turn'[t] = row /\ turn' \in [Turns -> TurnState]
        /\ \A s \in Turns \ {t} : turn'[s] = turn[s]
    BY <1>0, <2>3, <2>5
  <2> QED BY <1>0, <2>4, <2>6, <2>7 DEF Node
<1>13. CASE Store(t)
  BY <1>0, <1>13 DEF Store, TurnState, TitleCurrent
<1> QED BY <1>1, <1>2, <1>3, <1>4, <1>5, <1>6, <1>7, <1>8, <1>9, <1>10, <1>11, <1>12, <1>13
    DEF AgentStep

(***************************************************************************)
(* The shapes of the other steps.                                          *)
(***************************************************************************)
LEMMA StaleType ==
  ASSUME NEW s \in TurnState PROVE [s EXCEPT !.stale = TRUE] \in TurnState
BY DEF TurnState

LEMMA BlankType == Blank \in TurnState
BY DEF Blank, TurnState, Nodes, Ended

Begins(t, u, c) ==
  /\ UNCHANGED <<conv, messages>> /\ turn[t].pc = "idle"
  /\ \A s \in Turns \ {t} : turn'[s] = turn[s]
  /\ turn' \in [Turns -> TurnState] /\ Sound(turn'[t])
  /\ turn'[t].conv = c /\ turn'[t].user = u
  /\ turn'[t].pc = "start" /\ ~turn'[t].titled /\ ~turn'[t].stale
  /\ turn'[t].untitled => conv[c].title = "none" \/ turn'[t].new
  /\ IF turn'[t].new
     THEN conv[c].status = "unused" /\ Others(c, t) = {}
     ELSE conv[c].status = "live" /\ conv[c].user = u

Leaves(t) ==
  /\ UNCHANGED <<conv, messages>>
  /\ \A s \in Turns \ {t} : turn'[s] = turn[s]
  /\ turn' \in [Turns -> TurnState] /\ Sound(turn'[t])
  /\ turn'[t].pc \in Ended
  /\ turn[t].pc # "idle" => turn'[t].conv = turn[t].conv
  /\ turn'[t].pc \in {"done", "denied"} => turn[t].pc = "stream"
  /\ turn'[t].pc = "error" => turn[t].pc \in {"idle", "store", "commit"}
  /\ turn'[t].pc = "gone" => Served(t)

\* What another's step leaves of a turn, which may become stale by it.
Keeps(s) ==
  /\ turn'[s].pc = turn[s].pc /\ turn'[s].user = turn[s].user
  /\ turn'[s].conv = turn[s].conv /\ turn'[s].new = turn[s].new
  /\ turn'[s].untitled = turn[s].untitled /\ turn'[s].titled = turn[s].titled
  /\ turn'[s].retrieval = turn[s].retrieval /\ turn'[s].answer = turn[s].answer
  /\ turn'[s].action = turn[s].action
  /\ turn[s].stale => turn'[s].stale

Commits(t) ==
  LET c == turn[t].conv
  IN  /\ turn[t].pc = "commit" /\ turn'[t].pc = "stream"
      /\ messages' = messages \union RowsOf(t)
      /\ conv' = [conv EXCEPT ![c] =
                    [status |-> "live", user |-> turn[t].user,
                     title |-> IF turn[t].titled THEN t ELSE conv[c].title]]
      /\ turn' \in [Turns -> TurnState] /\ Sound(turn'[t])
      /\ turn'[t].conv = c
      /\ \A s \in Turns \ {t} : Keeps(s)
      /\ turn[t].titled => \A s \in Others(c, t) : turn'[s].stale
      /\ \A s \in Turns \ {t} : turn'[s].stale => turn[s].stale \/ (turn[t].titled /\ s \in Using(c))

LEMMA AskShape ==
  ASSUME TypeOK, NEW t \in Turns, NEW u \in Users, NEW c \in Convs, Ask(t, u, c)
  PROVE  Begins(t, u, c) \/ Leaves(t)
<1>0. turn \in [Turns -> TurnState] /\ turn[t].pc = "idle" /\ conv[c] \in ConvRow
  BY DEF TypeOK, Ask
<1>1. CASE AskIn(t, u, c)
  <2> DEFINE new == [Blank EXCEPT !.pc = "start", !.user = u, !.conv = c,
                                  !.untitled = conv[c].title = "none"]
  <2>1. turn' = [turn EXCEPT ![t] = new]
    BY <1>1 DEF AskIn
  <2>2. new \in TurnState
    BY BlankType DEF TurnState
  <2>3. Sound(new)
    BY DEF Sound, Blank, Ended
  <2>4. /\ new.conv = c /\ new.user = u /\ new.pc = "start" /\ ~new.titled /\ ~new.stale
        /\ ~new.new /\ (new.untitled => conv[c].title = "none")
    BY DEF Blank
  <2> HIDE DEF new
  <2> QED BY <1>0, <1>1, <2>1, <2>2, <2>3, <2>4 DEF AskIn, Begins
<1>2. CASE AskNew(t, u, c)
  <2> DEFINE new == [Blank EXCEPT !.pc = "start", !.user = u, !.conv = c,
                                  !.new = TRUE, !.untitled = TRUE]
  <2>1. turn' = [turn EXCEPT ![t] = new]
    BY <1>2 DEF AskNew
  <2>2. new \in TurnState
    BY BlankType DEF TurnState
  <2>3. Sound(new)
    BY DEF Sound, Blank, Ended
  <2>4. /\ new.conv = c /\ new.user = u /\ new.pc = "start" /\ ~new.titled /\ ~new.stale
        /\ new.new
    BY DEF Blank
  <2> HIDE DEF new
  <2> QED BY <1>0, <1>2, <2>1, <2>2, <2>3, <2>4 DEF AskNew, Begins
<1>3. CASE AskMissing(t, u, c)
  <2> DEFINE new == [Blank EXCEPT !.pc = "error", !.conv = c]
  <2>1. turn' = [turn EXCEPT ![t] = new]
    BY <1>3 DEF AskMissing
  <2>2. new \in TurnState
    BY BlankType DEF TurnState, Ended
  <2>3. Sound(new) /\ new.conv = c /\ new.pc = "error"
    BY DEF Sound, Blank, Ended
  <2> HIDE DEF new
  <2> QED BY <1>0, <1>3, <2>1, <2>2, <2>3 DEF AskMissing, Leaves, Ended
<1> QED BY <1>1, <1>2, <1>3 DEF Ask

LEMMA EndShape ==
  ASSUME TypeOK, NEW t \in Turns, Sound(turn[t]), NEW pc \in Ended, Served(t), End(t, pc),
         UNCHANGED <<conv, messages>>,
         pc \in {"done", "denied"} => turn[t].pc = "stream",
         pc = "error" => turn[t].pc \in {"store", "commit"}
  PROVE  Leaves(t)
<1> DEFINE new == [Blank EXCEPT !.pc = pc, !.conv = turn[t].conv]
<1>1. turn' = [turn EXCEPT ![t] = new] /\ turn \in [Turns -> TurnState]
  BY DEF End, TypeOK
<1>2. turn[t].conv \in Convs
  BY DEF Sound, Served
<1>3. new \in TurnState
  BY <1>2, BlankType DEF TurnState
<1>4. Sound(new) /\ new.conv = turn[t].conv /\ new.pc = pc
  BY <1>2 DEF Sound, Blank, Ended
<1> HIDE DEF new
<1> QED BY <1>1, <1>3, <1>4 DEF Leaves

LEMMA LeaveShape ==
  ASSUME TypeOK, NEW t \in Turns, Sound(turn[t]),
         StoreFails(t) \/ CommitFails(t) \/ Stream(t) \/ Hangup(t)
  PROVE  Leaves(t)
<1>1. CASE StoreFails(t)
  <2>1. End(t, "error") /\ UNCHANGED <<conv, messages>> /\ turn[t].pc = "store" /\ Served(t)
    BY <1>1 DEF StoreFails, Served, Ended
  <2> QED BY <2>1, EndShape DEF Ended
<1>2. CASE CommitFails(t)
  <2>1. End(t, "error") /\ UNCHANGED <<conv, messages>> /\ turn[t].pc = "commit" /\ Served(t)
    BY <1>2 DEF CommitFails, Served, Ended
  <2> QED BY <2>1, EndShape DEF Ended
<1>3. CASE Stream(t)
  <2>1. /\ End(t, "denied") \/ End(t, "done")
        /\ UNCHANGED <<conv, messages>> /\ turn[t].pc = "stream" /\ Served(t)
    BY <1>3 DEF Stream, Served, Ended
  <2> QED BY <2>1, EndShape DEF Ended
<1>4. CASE Hangup(t)
  <2>1. End(t, "gone") /\ UNCHANGED <<conv, messages>> /\ Served(t)
    BY <1>4 DEF Hangup
  <2> QED BY <2>1, EndShape DEF Ended
<1> QED BY <1>1, <1>2, <1>3, <1>4

LEMMA CommitShape ==
  ASSUME TypeOK, NEW t \in Turns, Sound(turn[t]), Commit(t)
  PROVE  Commits(t)
<1> DEFINE streaming == [turn EXCEPT ![t].pc = "stream"]
           c == turn[t].conv
<1>0. turn \in [Turns -> TurnState] /\ turn[t].pc = "commit"
  BY DEF TypeOK, Commit
<1>1. streaming \in [Turns -> TurnState]
  BY <1>0 DEF TurnState
<1>2. /\ streaming[t].pc = "stream" /\ streaming[t].conv = c /\ Sound(streaming[t])
      /\ \A s \in Turns \ {t} : streaming[s] = turn[s]
  BY <1>0 DEF TurnState, Sound, Ended
<1>3. CASE ~turn[t].titled
  <2>1. turn' = streaming
    BY <1>3 DEF Commit
  <2> QED BY <1>0, <1>1, <1>2, <1>3, <2>1 DEF Commits, Commit, Keeps
<1>4. CASE turn[t].titled
  <2>1. turn' = [s \in Turns |-> IF s \in Others(c, t) THEN [streaming[s] EXCEPT !.stale = TRUE]
                                 ELSE streaming[s]]
    BY <1>4 DEF Commit, Outdate
  <2> HIDE DEF streaming
  <2>2. turn' \in [Turns -> TurnState]
    <3>1. \A s \in Turns : [streaming[s] EXCEPT !.stale = TRUE] \in TurnState
      BY <1>1, StaleType
    <3> QED BY <1>1, <2>1, <3>1
  <2>3. t \notin Others(c, t)
    BY DEF Others
  <2>4. turn'[t] = streaming[t]
    BY <2>1, <2>3
  <2>5. \A s \in Turns \ {t} :
          /\ Keeps(s) /\ (s \in Others(c, t) => turn'[s].stale)
          /\ turn'[s].stale => turn[s].stale \/ s \in Using(c)
    BY <1>0, <1>2, <2>1 DEF Keeps, TurnState, Others
  <2>6. \A s \in Others(c, t) : s \in Turns \ {t}
    BY DEF Others, Using
  <2>7. messages' = messages \union RowsOf(t) /\ turn[t].titled
    BY <1>4 DEF Commit
  <2>8. turn'[t].pc = "stream" /\ turn'[t].conv = c /\ Sound(turn'[t])
    BY <1>2, <2>4
  <2>9. /\ \A s \in Turns \ {t} : Keeps(s)
        /\ \A s \in Others(c, t) : turn'[s].stale
        /\ \A s \in Turns \ {t} : turn'[s].stale => turn[s].stale \/ s \in Using(c)
    BY <2>5, <2>6
  <2>10. conv' = [conv EXCEPT ![c] = [status |-> "live", user |-> turn[t].user,
                    title |-> IF turn[t].titled THEN t ELSE conv[c].title]]
    BY DEF Commit
  <2> QED BY <1>0, <2>2, <2>7, <2>8, <2>9, <2>10 DEF Commits
<1> QED BY <1>3, <1>4

\* The other requests: they change a conversation's row and at most outdate turns.
Edits(c) ==
  /\ turn' \in [Turns -> TurnState] /\ \A s \in Turns : Keeps(s) /\ Sound(turn'[s])
  /\ \A s \in Turns : turn'[s].stale => turn[s].stale \/ s \in Using(c)
  /\ \A d \in Convs \ {c} : conv'[d] = conv[d]
  /\ \/ /\ conv[c].status = "unused" /\ conv'[c].status = "live"
        /\ conv'[c].user \in Users /\ Using(c) = {}
        /\ conv'[c].title \notin Turns /\ messages' = messages
     \/ /\ conv[c].status = "live" /\ conv'[c].status = "live"
        /\ conv'[c].user = conv[c].user /\ conv'[c].title \notin Turns
        /\ messages' = messages
        /\ \A s \in Using(c) : ~turn[s].titled /\ turn'[s].stale
     \/ /\ conv[c].status = "live" /\ conv'[c].status = "deleted"
        /\ Using(c) = {}
        /\ conv'[c].title = "none"
        /\ messages' = {m \in messages : m.conv # c}

LEMMA EditShape ==
  ASSUME TypeOK, \A s \in Turns : Sound(turn[s]),
         NEW u \in Users, NEW c \in Convs, NEW title \in {"none", "given"},
         \/ CreateConversation(u, c, title) \/ RenameConversation(u, c, title)
         \/ DeleteConversation(u, c)
  PROVE  Edits(c) /\ conv' \in [Convs -> ConvRow]
<1>0. /\ turn \in [Turns -> TurnState] /\ conv \in [Convs -> ConvRow] /\ conv[c] \in ConvRow
      /\ title \notin Turns
  BY TitleAssumption DEF TypeOK
<1>1. CASE CreateConversation(u, c, title)
  <2>1. \A s \in Turns : Keeps(s) /\ Sound(turn'[s])
    BY <1>1 DEF CreateConversation, Keeps
  <2>2. /\ \A d \in Convs \ {c} : conv'[d] = conv[d]
        /\ conv'[c] = [status |-> "live", user |-> u, title |-> title]
        /\ conv' \in [Convs -> ConvRow]
    BY <1>0, <1>1 DEF CreateConversation, ConvRow, Titles
  <2> QED BY <1>0, <1>1, <2>1, <2>2 DEF CreateConversation, Edits
<1>2. CASE RenameConversation(u, c, title)
  <2>1. \A s \in Turns : turn'[s] = IF s \in Using(c)
                                    THEN [turn[s] EXCEPT !.stale = TRUE] ELSE turn[s]
    BY <1>2 DEF RenameConversation
  <2>2. turn' \in [Turns -> TurnState]
    <3>1. \A s \in Turns : [turn[s] EXCEPT !.stale = TRUE] \in TurnState
      BY <1>0, StaleType
    <3> QED BY <1>0, <1>2, <3>1 DEF RenameConversation
  <2>3. ASSUME NEW s \in Turns PROVE Keeps(s)
    <3>1. turn[s] \in TurnState /\ turn'[s] \in {turn[s], [turn[s] EXCEPT !.stale = TRUE]}
      BY <1>0, <2>1
    <3> QED BY <3>1 DEF Keeps, TurnState
  <2>4. \A s \in Turns : Sound(turn'[s])
    BY <2>3 DEF Keeps, Sound
  <2>5. /\ \A d \in Convs \ {c} : conv'[d] = conv[d]
        /\ conv'[c] = [conv[c] EXCEPT !.title = title]
        /\ conv' \in [Convs -> ConvRow]
    BY <1>0, <1>2 DEF RenameConversation, ConvRow, Titles
  <2>6. /\ \A s \in Using(c) : ~turn[s].titled /\ turn'[s].stale
        /\ \A s \in Turns : turn'[s].stale => turn[s].stale \/ s \in Using(c)
    BY <1>0, <1>2, <2>1 DEF RenameConversation, Using, TurnState
  <2>7. /\ conv[c].status = "live" /\ conv'[c].status = "live" /\ conv'[c].user = conv[c].user
        /\ conv'[c].title = title /\ messages' = messages
    BY <1>0, <1>2, <2>5 DEF RenameConversation, ConvRow
  <2> QED BY <1>0, <2>2, <2>3, <2>4, <2>5, <2>6, <2>7 DEF Edits
<1>3. CASE DeleteConversation(u, c)
  <2>1. \A s \in Turns : Keeps(s) /\ Sound(turn'[s])
    BY <1>3 DEF DeleteConversation, Keeps
  <2>2. /\ \A d \in Convs \ {c} : conv'[d] = conv[d]
        /\ conv'[c] = [conv[c] EXCEPT !.status = "deleted", !.title = "none"]
        /\ conv' \in [Convs -> ConvRow]
    BY <1>0, <1>3 DEF DeleteConversation, ConvRow, Titles
  <2>3. conv'[c].status = "deleted" /\ conv'[c].title = "none"
    BY <1>0, <2>2 DEF ConvRow
  <2> QED BY <1>0, <1>3, <2>1, <2>2, <2>3 DEF DeleteConversation, Unused, Edits
<1> QED BY <1>1, <1>2, <1>3

\* Every step has one of five shapes.
LEMMA StepShape ==
  ASSUME TypeOK, \A s \in Turns : Sound(turn[s]), [Next]_vars
  PROVE  \/ \E t \in Turns : Works(t) \/ Leaves(t) \/ Commits(t)
         \/ \E t \in Turns, u \in Users, c \in Convs : Begins(t, u, c)
         \/ \E c \in Convs : Edits(c) /\ conv' \in [Convs -> ConvRow]
         \/ UNCHANGED vars
<1>1. ASSUME NEW t \in Turns, TurnNext(t)
      PROVE  Works(t) \/ Leaves(t) \/ Commits(t)
  <2>1. AgentStep(t) \/ StoreFails(t) \/ CommitFails(t) \/ Stream(t) \/ Commit(t)
    BY <1>1 DEF TurnNext, AgentStep
  <2> QED BY <2>1, AgentWorks, LeaveShape, CommitShape
<1> QED BY <1>1, LeaveShape, AskShape, EditShape DEF Next, ConversationNext

(***************************************************************************)
(* Turns, conversations and rows together.                                 *)
(***************************************************************************)
AllSound == \A t \in Turns : Sound(turn[t])

\* A turn that opens a conversation is alone in it; any other is in one of
\* its own user's.
Bound ==
  \A t \in Turns : InTransaction(t) =>
    LET row == conv[turn[t].conv]
    IN  IF turn[t].new THEN row.status = "unused" /\ Using(turn[t].conv) = {t}
        ELSE row.status = "live" /\ row.user = turn[t].user

\* Rows come with the commit.
CommittedRows ==
  \A t \in Turns : Rows(t) # {} => turn[t].pc \in {"stream", "done", "denied", "gone"}

RowsSound ==
  \A m \in AnswerRows :
    /\ Safe(m.text, m.citations, m.action)
    /\ \A k \in m.citations : k \in Retrieved(UserInfo[conv[m.conv].user])

\* Who has set a title uncommitted is the only one, and it is still missing
\* in the table.
TitlesFree ==
  /\ \A c \in Convs : conv[c].status = "unused" => conv[c].title = "none"
  /\ \A t \in Turns : InTransaction(t) =>
       /\ turn[t].untitled /\ ~turn[t].stale => conv[turn[t].conv].title = "none"
       /\ turn[t].titled => turn[t].untitled /\ ~turn[t].stale
       /\ turn[t].titled => \A s \in Others(turn[t].conv, t) : ~turn[s].titled

IInv == TypeOK /\ AllSound /\ Bound /\ AnswerMatchesStore /\ CommittedRows /\ RowsSound /\ TitlesFree

LEMMA InitInv == ASSUME Init PROVE IInv
<1>0. \A t \in Turns : turn[t] = Blank /\ turn[t].pc = "idle"
  BY DEF Init, Blank
<1>1. TypeOK
  BY BlankType DEF Init, TypeOK, ConvRow, Titles
<1>2. AllSound
  BY <1>0 DEF AllSound, Sound, Blank, Ended
<1>3. \A t \in Turns : ~InTransaction(t) /\ Rows(t) = {}
  BY <1>0 DEF Init, InTransaction, Served, Rows
<1>4. AnswerRows = {}
  BY DEF Init, AnswerRows
<1> QED BY <1>0, <1>1, <1>2, <1>3, <1>4
    DEF Init, IInv, Bound, AnswerMatchesStore, CommittedRows, RowsSound, TitlesFree

\* Rows of a turn are in its conversation, and in no one's that is not live.
LEMMA RowsOfConv ==
  ASSUME TypeOK, AnswerMatchesStore, NEW m \in messages
  PROVE  /\ m.turn \in Turns /\ m \in Rows(m.turn) /\ m.conv \in Convs
         /\ conv[m.conv].status = "live" /\ m.conv = turn[m.turn].conv
<1>1. m.turn \in Turns /\ m.conv \in Convs
  BY DEF TypeOK, QuestionRow, AnswerRow
<1> QED BY <1>1 DEF AnswerMatchesStore, Rows

(***************************************************************************)
(* A step of the agent.                                                    *)
(***************************************************************************)
LEMMA WorksSeats ==
  ASSUME NEW t \in Turns, Works(t)
  PROVE  /\ \A s \in Turns : InTransaction(s)' <=> InTransaction(s)
         /\ \A c : Using(c)' = Using(c)
         /\ \A s \in Turns : /\ turn'[s].conv = turn[s].conv /\ turn'[s].user = turn[s].user
                             /\ turn'[s].new = turn[s].new /\ turn'[s].stale = turn[s].stale
                             /\ turn'[s].untitled = turn[s].untitled
<1>1. \A s \in Turns : InTransaction(s)' <=> InTransaction(s)
  BY DEF Works, InTransaction, Served
<1>2. \A s \in Turns : /\ turn'[s].conv = turn[s].conv /\ turn'[s].user = turn[s].user
                       /\ turn'[s].new = turn[s].new /\ turn'[s].stale = turn[s].stale
                       /\ turn'[s].untitled = turn[s].untitled
  BY DEF Works
<1> QED BY <1>1, <1>2 DEF Using

LEMMA WorksInv ==
  ASSUME IInv, NEW t \in Turns, Works(t)
  PROVE  IInv'
<1> USE DEF IInv
<1>1. TypeOK' /\ AllSound'
  BY DEF TypeOK, AllSound, Works
<1>2. conv' = conv /\ messages' = messages
  BY DEF Works
<1>3. Bound'
  BY <1>2, WorksSeats DEF Bound
<1>4. \A s \in Turns : Rows(s)' = Rows(s)
  BY <1>2 DEF Rows
<1>5. Rows(t) = {} /\ turn'[t].pc \notin {"stream", "done", "denied", "error"}
  BY DEF CommittedRows, Works, Ended
<1>6. \A s \in Turns \ {t} : turn'[s] = turn[s]
  BY DEF Works
<1>7. AnswerMatchesStore' /\ CommittedRows'
  BY <1>2, <1>4, <1>5, <1>6 DEF AnswerMatchesStore, CommittedRows
<1>8. RowsSound'
  BY <1>2 DEF RowsSound, AnswerRows
<1>9. TitlesFree'
  <2>1. \A s \in Turns \ {t} : turn'[s].titled = turn[s].titled
    BY <1>6
  <2>2. turn'[t].titled =>
          \/ turn[t].titled
          \/ turn[t].untitled /\ ~turn[t].stale /\ TitleFree(t)
    BY DEF Works
  <2>3. InTransaction(t)
    BY DEF Works, InTransaction, Served
  <2>4. ASSUME NEW s \in Turns, InTransaction(s)
        PROVE  turn'[s].titled => /\ turn[s].untitled /\ ~turn[s].stale
                                  /\ \A r \in Others(turn[s].conv, s) : ~turn'[r].titled
    <3>1. CASE s = t
      BY <2>1, <2>2, <2>3, <2>4, <3>1 DEF TitlesFree, TitleFree, Others, Using
    <3>2. CASE s # t
      <4>1. turn[s].titled /\ t \in Others(turn[s].conv, s) => ~turn[t].titled /\ ~TitleFree(t)
        BY <2>3, <2>4, <3>2 DEF TitlesFree, TitleFree, Others, Using
      <4> QED BY <2>1, <2>2, <2>4, <3>2, <4>1 DEF TitlesFree, Others, Using
    <3> QED BY <3>1, <3>2
  <2> QED BY <1>2, <2>4, WorksSeats DEF TitlesFree, Others
<1> QED BY <1>1, <1>3, <1>7, <1>8, <1>9

(***************************************************************************)
(* A turn ends, or begins.                                                 *)
(***************************************************************************)
\* With the tables as they are, what the rows say depends on the turns' states.
LEMMA SameRows ==
  ASSUME IInv, NEW t \in Turns, UNCHANGED <<conv, messages>>,
         \A s \in Turns \ {t} : turn'[s] = turn[s],
         Rows(t) # {} => /\ turn'[t].conv = turn[t].conv
                         /\ turn'[t].pc \in {"stream", "done", "denied", "gone"},
         turn'[t].pc \in {"stream", "done", "denied"}
           => turn[t].pc = "stream" /\ turn'[t].conv = turn[t].conv
  PROVE  AnswerMatchesStore' /\ CommittedRows' /\ RowsSound'
<1> USE DEF IInv
<1>1. \A s \in Turns : Rows(s)' = Rows(s)
  BY DEF Rows
<1>2. AnswerMatchesStore'
  BY <1>1 DEF AnswerMatchesStore
<1>3. CommittedRows'
  BY <1>1 DEF CommittedRows
<1>4. RowsSound'
  BY DEF RowsSound, AnswerRows
<1> QED BY <1>2, <1>3, <1>4

LEMMA LeavesInv ==
  ASSUME IInv, NEW t \in Turns, Leaves(t)
  PROVE  IInv'
<1> USE DEF IInv
<1>1. TypeOK' /\ AllSound'
  BY DEF TypeOK, AllSound, Leaves
<1>2. UNCHANGED <<conv, messages>> /\ \A s \in Turns \ {t} : turn'[s] = turn[s]
  BY DEF Leaves
<1>3. Rows(t) # {} => turn'[t].conv = turn[t].conv /\ turn'[t].pc \in {"done", "denied", "gone"}
  BY DEF Leaves, CommittedRows, Ended
<1>4. turn'[t].pc \in {"stream", "done", "denied"}
        => turn[t].pc = "stream" /\ turn'[t].conv = turn[t].conv
  BY DEF Leaves, Ended
<1>5. AnswerMatchesStore' /\ CommittedRows' /\ RowsSound'
  BY <1>2, <1>3, <1>4, SameRows
<1>6. ~InTransaction(t)'
  BY DEF Leaves, InTransaction, Served
<1>7. \A s \in Turns \ {t} : InTransaction(s)' <=> InTransaction(s)
  BY <1>2 DEF InTransaction, Served
<1>8. \A c : Using(c)' = Using(c) \ {t}
  BY <1>2, <1>6, <1>7 DEF Using
<1>9. Bound'
  <2> SUFFICES ASSUME NEW s \in Turns \ {t}, InTransaction(s)
               PROVE  LET row == conv[turn[s].conv]
                      IN  IF turn[s].new THEN row.status = "unused" /\ Using(turn[s].conv)' = {s}
                          ELSE row.status = "live" /\ row.user = turn[s].user
    BY <1>2, <1>6, <1>7 DEF Bound
  <2>1. Using(turn[s].conv)' = Using(turn[s].conv) \ {t}
    BY <1>2, <1>8
  <2> QED BY <2>1 DEF Bound
<1>10. TitlesFree'
  <2> SUFFICES ASSUME NEW s \in Turns \ {t}, InTransaction(s)
               PROVE  /\ turn[s].untitled /\ ~turn[s].stale => conv[turn[s].conv].title = "none"
                      /\ turn[s].titled => turn[s].untitled /\ ~turn[s].stale
                      /\ turn[s].titled => \A r \in Others(turn[s].conv, s)' : ~turn'[r].titled
    BY <1>2, <1>6, <1>7 DEF TitlesFree
  <2>1. \A r \in Others(turn[s].conv, s)' : r \in Others(turn[s].conv, s) /\ turn'[r] = turn[r]
    BY <1>2, <1>8 DEF Others, Using
  <2> QED BY <2>1 DEF TitlesFree
<1> QED BY <1>1, <1>5, <1>9, <1>10

LEMMA BeginsInv ==
  ASSUME IInv, NEW t \in Turns, NEW u \in Users, NEW c \in Convs, Begins(t, u, c)
  PROVE  IInv'
<1> USE DEF IInv
<1>1. TypeOK' /\ AllSound'
  BY DEF TypeOK, AllSound, Begins
<1>2. UNCHANGED <<conv, messages>> /\ \A s \in Turns \ {t} : turn'[s] = turn[s]
  BY DEF Begins
<1>3. /\ turn[t].pc = "idle" /\ turn'[t].pc = "start" /\ turn'[t].conv = c
      /\ turn'[t].user = u /\ ~turn'[t].titled /\ ~turn'[t].stale
  BY DEF Begins
<1>4. AnswerMatchesStore' /\ CommittedRows' /\ RowsSound'
  BY <1>2, <1>3, SameRows DEF CommittedRows
<1>5. ~InTransaction(t) /\ InTransaction(t)'
  BY <1>3 DEF InTransaction, Served, Ended
<1>6. \A s \in Turns \ {t} : InTransaction(s)' <=> InTransaction(s)
  BY <1>2 DEF InTransaction, Served
<1>7. /\ Using(c)' = Using(c) \union {t} /\ t \notin Using(c)
      /\ \A d : d # c => Using(d)' = Using(d)
  BY <1>2, <1>3, <1>5, <1>6 DEF Using
<1>8. turn'[t].new => Using(c) = {}
  BY <1>7 DEF Begins, Others
<1>9. \A s \in Turns \ {t} : InTransaction(s) /\ turn[s].conv = c => ~turn[s].new
  <2> SUFFICES ASSUME NEW s \in Turns \ {t}, InTransaction(s), turn[s].conv = c, turn[s].new
               PROVE  FALSE
    OBVIOUS
  <2>1. conv[c].status = "unused" /\ s \in Using(c)
    BY DEF Bound, Using
  <2> QED BY <1>8, <2>1 DEF Begins
<1>10. Bound'
  <2>1. CASE turn'[t].new
    BY <1>2, <1>3, <1>5, <1>6, <1>7, <1>8, <1>9, <2>1 DEF Bound, Begins
  <2>2. CASE ~turn'[t].new
    BY <1>2, <1>3, <1>5, <1>6, <1>7, <1>9, <2>2 DEF Bound, Begins
  <2> QED BY <2>1, <2>2
<1>11. TitlesFree'
  <2>1. turn'[t].untitled => conv[c].title = "none"
    BY DEF Begins, TitlesFree
  <2>2. ASSUME NEW s \in Turns \ {t}, InTransaction(s), turn[s].titled
        PROVE  \A r \in Others(turn[s].conv, s)' : ~turn'[r].titled
    BY <1>2, <1>3, <1>7, <2>2 DEF TitlesFree, Others, Using
  <2> QED BY <1>2, <1>3, <1>6, <2>1, <2>2 DEF TitlesFree
<1> QED BY <1>1, <1>4, <1>10, <1>11

(***************************************************************************)
(* A commit.                                                               *)
(***************************************************************************)
LEMMA CommitsSeats ==
  ASSUME IInv, NEW t \in Turns, Commits(t)
  PROVE  /\ InTransaction(t) /\ ~InTransaction(t)' /\ turn[t].conv \in Convs
         /\ turn[t].user \in Users
         /\ \A s \in Turns \ {t} : Keeps(s) /\ (InTransaction(s)' <=> InTransaction(s))
         /\ \A c : Using(c)' = Using(c) \ {t}
         /\ conv[turn[t].conv].status \in {"unused", "live"}
         /\ \A s \in Using(turn[t].conv) \ {t} :
              ~turn[s].new /\ ~turn[t].new /\ turn[s].user = turn[t].user
         /\ Rows(t) = {}
<1> USE DEF IInv
<1>1. InTransaction(t) /\ ~InTransaction(t)'
  BY DEF Commits, InTransaction, Served, Ended
<1>2. turn[t].conv \in Convs /\ turn[t].user \in Users
  BY DEF Commits, AllSound, Sound, Ended
<1>3. \A s \in Turns \ {t} : Keeps(s)
  BY DEF Commits
<1>4. \A s \in Turns \ {t} : InTransaction(s)' <=> InTransaction(s)
  BY <1>3 DEF Keeps, InTransaction, Served
<1>5. \A c : Using(c)' = Using(c) \ {t}
  BY <1>1, <1>3, <1>4 DEF Using, Keeps
<1>6. conv[turn[t].conv].status \in {"unused", "live"}
  BY <1>1 DEF Bound
<1>7. ASSUME NEW s \in Using(turn[t].conv) \ {t}
      PROVE  ~turn[s].new /\ ~turn[t].new /\ turn[s].user = turn[t].user
  <2>1. InTransaction(s) /\ turn[s].conv = turn[t].conv /\ s \in Turns
    BY DEF Using
  <2>2. {s, t} \subseteq Using(turn[t].conv)
    BY <1>1 DEF Using
  <2>3. ~turn[s].new /\ ~turn[t].new
    BY <1>1, <2>1, <2>2 DEF Bound
  <2> QED BY <1>1, <2>1, <2>3 DEF Bound
<1>8. Rows(t) = {}
  BY DEF CommittedRows, Commits
<1> QED BY <1>1, <1>2, <1>3, <1>4, <1>5, <1>6, <1>7, <1>8

\* The rows a commit adds, and what it leaves in place.
LEMMA CommitsRows ==
  ASSUME IInv, NEW t \in Turns, Commits(t)
  PROVE  /\ messages' \subseteq QuestionRow \union AnswerRow
         /\ Rows(t)' = RowsOf(t) /\ \A s \in Turns \ {t} : Rows(s)' = Rows(s)
         /\ \A m \in messages : m.turn # t
         /\ conv'[turn[t].conv].status = "live" /\ conv'[turn[t].conv].user = turn[t].user
         /\ \A d \in Convs \ {turn[t].conv} : conv'[d] = conv[d]
         /\ conv' \in [Convs -> ConvRow]
<1> USE DEF IInv
<1>1. messages' = messages \union RowsOf(t) /\ turn[t].pc = "commit"
  BY DEF Commits
<1>2. RowsOf(t) \subseteq QuestionRow \union AnswerRow
  <2>1. turn[t] \in TurnState /\ turn[t].answer \in Texts
    BY <1>1 DEF TypeOK, AllSound, Sound
  <2> QED BY <2>1, CommitsSeats DEF RowsOf, QuestionRow, AnswerRow, TurnState
<1>3. \A m \in RowsOf(t) : m.turn = t
  BY DEF RowsOf
<1>4. Rows(t) = {}
  BY CommitsSeats
<1>5. conv' = [conv EXCEPT ![turn[t].conv] =
                [status |-> "live", user |-> turn[t].user,
                 title |-> IF turn[t].titled THEN t ELSE conv[turn[t].conv].title]]
  BY DEF Commits
<1>6. conv \in [Convs -> ConvRow] /\ turn[t].conv \in Convs /\ turn[t].user \in Users
  BY CommitsSeats DEF TypeOK
<1>7. conv' \in [Convs -> ConvRow]
  BY <1>5, <1>6 DEF ConvRow, Titles
<1>8. messages \subseteq QuestionRow \union AnswerRow
  BY DEF TypeOK
<1>9. /\ Rows(t)' = RowsOf(t) /\ \A s \in Turns \ {t} : Rows(s)' = Rows(s)
      /\ \A m \in messages : m.turn # t
  BY <1>1, <1>3, <1>4 DEF Rows
<1> QED BY <1>1, <1>2, <1>5, <1>6, <1>7, <1>8, <1>9

LEMMA CommitsInv ==
  ASSUME IInv, NEW t \in Turns, Commits(t)
  PROVE  IInv'
<1> USE DEF IInv
<1> DEFINE c == turn[t].conv
<1>1. /\ turn' \in [Turns -> TurnState] /\ Sound(turn'[t]) /\ turn[t].pc = "commit"
      /\ turn'[t].pc = "stream" /\ turn'[t].conv = c /\ \A s \in Turns \ {t} : Keeps(s)
  BY DEF Commits
<1>2. TypeOK'
  BY <1>1, CommitsRows DEF TypeOK
<1>3. AllSound'
  <2>1. \A s \in Turns \ {t} : Sound(turn'[s])
    BY <1>1 DEF AllSound, Sound, Keeps
  <2> QED BY <1>1, <2>1 DEF AllSound
<1>4. Bound'
  <2> SUFFICES ASSUME NEW s \in Turns \ {t}, InTransaction(s)
               PROVE  LET row == conv'[turn[s].conv]
                      IN  IF turn[s].new
                          THEN row.status = "unused" /\ Using(turn[s].conv) \ {t} = {s}
                          ELSE row.status = "live" /\ row.user = turn[s].user
    BY CommitsSeats DEF Bound, Keeps
  <2>1. turn[s].conv \in Convs
    BY DEF AllSound, Sound, InTransaction, Served
  <2>2. CASE turn[s].conv = c
    <3>1. s \in Using(c) \ {t}
      BY <2>2 DEF Using
    <3> QED BY <2>2, <3>1, CommitsSeats, CommitsRows
  <2>3. CASE turn[s].conv # c
    BY <2>1, <2>3, CommitsRows DEF Bound
  <2> QED BY <2>2, <2>3
<1>5. CommittedRows'
  BY <1>1, CommitsRows DEF CommittedRows, Keeps
<1>6. AnswerMatchesStore'
  <2>1. /\ {m.role : m \in RowsOf(t)} = {"user", "assistant"} /\ RowsOf(t) # {}
        /\ \A m \in RowsOf(t) : m.conv = c
    BY DEF RowsOf
  <2>2. ASSUME NEW s \in Turns \ {t}
        PROVE  /\ Rows(s) # {} => {m.role : m \in Rows(s)} = {"user", "assistant"}
               /\ \A m \in Rows(s) : m.conv = turn[s].conv /\ conv'[m.conv].status = "live"
               /\ turn[s].pc \in {"stream", "done", "denied"} =>
                    Rows(s) # {} \/ conv'[turn[s].conv].status = "deleted"
               /\ turn[s].pc = "error" => Rows(s) = {}
    <3>1. \A m \in Rows(s) : m.conv \in Convs
      BY RowsOfConv DEF Rows
    <3>2. turn[s].pc \in {"stream", "done", "denied"} => turn[s].conv \in Convs
      BY DEF AllSound, Sound
    <3>3. \A d \in Convs : /\ conv[d].status = "live" => conv'[d].status = "live"
                           /\ conv[d].status = "deleted" => conv'[d].status = "deleted"
      BY CommitsRows, CommitsSeats
    <3> QED BY <3>1, <3>2, <3>3 DEF AnswerMatchesStore
  <2>3. \A s \in Turns \ {t} : /\ turn'[s].pc = turn[s].pc /\ turn'[s].conv = turn[s].conv
                              /\ Rows(s)' = Rows(s)
    BY <1>1, CommitsRows DEF Keeps
  <2>4. Rows(t)' = RowsOf(t) /\ conv'[c].status = "live"
    BY CommitsRows
  <2>5. ASSUME NEW s \in Turns
        PROVE  /\ Rows(s)' # {} => {m.role : m \in Rows(s)'} = {"user", "assistant"}
               /\ \A m \in Rows(s)' : m.conv = turn'[s].conv /\ conv'[m.conv].status = "live"
               /\ turn'[s].pc \in {"stream", "done", "denied"} =>
                    Rows(s)' # {} \/ conv'[turn'[s].conv].status = "deleted"
               /\ turn'[s].pc = "error" => Rows(s)' = {}
    <3>1. CASE s = t
      BY <1>1, <2>1, <2>4, <3>1
    <3>2. CASE s # t
      BY <2>2, <2>3, <3>2
    <3> QED BY <3>1, <3>2
  <2> QED BY <2>5 DEF AnswerMatchesStore
<1>7. RowsSound'
  <2>1. ASSUME NEW m \in AnswerRows
        PROVE  conv'[m.conv].user = conv[m.conv].user
    <3>1. m.conv \in Convs /\ conv[m.conv].status = "live"
      BY RowsOfConv DEF AnswerRows
    <3>2. m.conv = c => conv[c].user = turn[t].user
      BY <3>1, CommitsSeats DEF Bound
    <3> QED BY <3>1, <3>2, CommitsRows
  <2>2. ASSUME NEW m \in RowsOf(t), m.role = "assistant"
        PROVE  /\ Safe(m.text, m.citations, m.action)
               /\ \A k \in m.citations : k \in Retrieved(UserInfo[conv'[m.conv].user])
    <3>1. /\ m.text = turn[t].answer /\ m.citations = turn[t].retrieval
          /\ m.action = turn[t].action /\ m.conv = c
      BY <2>2 DEF RowsOf
    <3>2. Sound(turn[t])
      BY DEF AllSound
    <3> QED BY <1>1, <3>1, <3>2, CommitsRows DEF Sound
  <2>3. \A m \in AnswerRows' : m \in AnswerRows \/ (m \in RowsOf(t) /\ m.role = "assistant")
    BY DEF Commits, AnswerRows
  <2> QED BY <2>1, <2>2, <2>3 DEF RowsSound
<1>8. TitlesFree'
  <2>1. \A d \in Convs : conv'[d].status = "unused" => conv'[d].title = "none"
    BY CommitsRows DEF TitlesFree
  <2> SUFFICES ASSUME NEW s \in Turns \ {t}, InTransaction(s)
               PROVE  /\ turn[s].untitled /\ ~turn'[s].stale
                           => conv'[turn[s].conv].title = "none"
                      /\ turn[s].titled => turn[s].untitled /\ ~turn'[s].stale
                      /\ turn[s].titled => \A r \in Others(turn[s].conv, s) \ {t} : ~turn[r].titled
    <3>1. \A r \in Turns \ {t} : turn'[r].titled = turn[r].titled
      BY <1>1 DEF Keeps
    <3>2. \A d, r : Others(d, r)' = Others(d, r) \ {t} /\ Others(d, r) \subseteq Turns
      BY CommitsSeats DEF Others, Using
    <3> QED BY <2>1, <3>1, <3>2, CommitsSeats DEF TitlesFree, Keeps
  <2>2. turn[s].conv \in Convs
    BY DEF AllSound, Sound, InTransaction, Served
  <2>3. turn[s].conv = c => s \in Others(c, t)
    BY DEF Others, Using
  <2>4. turn[s].titled => ~(turn[t].titled /\ turn[s].conv = c)
    BY <2>3, CommitsSeats DEF TitlesFree
  <2>5. turn'[s].stale => turn[s].stale \/ (turn[t].titled /\ turn[s].conv = c)
    BY DEF Commits, Using
  <2>6. turn[s].stale => turn'[s].stale
    BY <1>1 DEF Keeps
  <2>7. turn[t].titled /\ turn[s].conv = c => turn'[s].stale
    BY <2>3 DEF Commits
  <2>8. ~turn[t].titled \/ turn[s].conv # c => conv'[turn[s].conv].title = conv[turn[s].conv].title
    BY <2>2 DEF Commits, TypeOK
  <2> QED BY <2>4, <2>5, <2>6, <2>7, <2>8 DEF TitlesFree
<1> QED BY <1>2, <1>3, <1>4, <1>5, <1>6, <1>7, <1>8

(***************************************************************************)
(* The other requests.                                                     *)
(***************************************************************************)
LEMMA EditsInv ==
  ASSUME IInv, NEW c \in Convs, Edits(c), conv' \in [Convs -> ConvRow]
  PROVE  IInv'
<1> USE DEF IInv
<1>1. \A s \in Turns : /\ Keeps(s) /\ Sound(turn'[s])
                       /\ turn'[s].stale => turn[s].stale \/ s \in Using(c)
  BY DEF Edits
<1>2. \A d \in Convs \ {c} : conv'[d] = conv[d]
  BY DEF Edits
<1>3. messages' \subseteq messages
  BY DEF Edits
<1>4. TypeOK' /\ AllSound'
  BY <1>1, <1>3 DEF Edits, TypeOK, AllSound
<1>5. /\ \A s \in Turns : InTransaction(s)' <=> InTransaction(s)
      /\ \A d : Using(d)' = Using(d)
  BY <1>1 DEF Keeps, InTransaction, Served, Using
<1>6. \A s \in Turns : InTransaction(s) => turn[s].conv \in Convs
  BY DEF AllSound, Sound, InTransaction, Served
<1>7. Using(c) # {} => /\ conv[c].status = "live" /\ conv'[c].status = "live"
                       /\ conv'[c].user = conv[c].user
                       /\ \A s \in Using(c) : ~turn[s].titled /\ turn'[s].stale
  BY DEF Edits
<1>8. Bound'
  <2> SUFFICES ASSUME NEW s \in Turns, InTransaction(s)
               PROVE  LET row == conv'[turn[s].conv]
                      IN  IF turn[s].new THEN row.status = "unused" /\ Using(turn[s].conv) = {s}
                          ELSE row.status = "live" /\ row.user = turn[s].user
    BY <1>1, <1>5 DEF Bound, Keeps
  <2>1. CASE turn[s].conv = c
    <3>1. s \in Using(c)
      BY <2>1 DEF Using
    <3> QED BY <1>7, <2>1, <3>1 DEF Bound
  <2>2. CASE turn[s].conv # c
    BY <1>2, <1>6, <2>2 DEF Bound
  <2> QED BY <2>1, <2>2
<1>9. \A m \in messages' : m.conv = c => conv[c].status = "live" /\ conv'[c].status = "live"
                                        /\ conv'[c].user = conv[c].user
  BY RowsOfConv DEF Edits
<1>10. \A s \in Turns : Rows(s)' = Rows(s) \/ (Rows(s)' = {} /\ turn[s].conv = c
                                              /\ conv'[c].status = "deleted")
  <2>1. CASE messages' = messages
    BY <2>1 DEF Rows
  <2>2. CASE messages' # messages
    <3>1. messages' = {m \in messages : m.conv # c} /\ conv'[c].status = "deleted"
      BY <2>2 DEF Edits
    <3>2. \A s \in Turns : \A m \in Rows(s) : m.conv = turn[s].conv
      BY DEF AnswerMatchesStore
    <3> QED BY <3>1, <3>2 DEF Rows
  <2> QED BY <2>1, <2>2
<1>11. CommittedRows'
  BY <1>1, <1>10 DEF CommittedRows, Keeps
<1>12. AnswerMatchesStore'
  <2> SUFFICES ASSUME NEW s \in Turns
               PROVE  /\ Rows(s)' # {} => {m.role : m \in Rows(s)'} = {"user", "assistant"}
                      /\ \A m \in Rows(s)' : m.conv = turn[s].conv /\ conv'[m.conv].status = "live"
                      /\ turn[s].pc \in {"stream", "done", "denied"} =>
                           Rows(s)' # {} \/ conv'[turn[s].conv].status = "deleted"
                      /\ turn[s].pc = "error" => Rows(s)' = {}
    BY <1>1 DEF AnswerMatchesStore, Keeps
  <2>1. \A m \in Rows(s)' : m \in Rows(s) /\ m \in messages' /\ m.conv \in Convs
    BY <1>3, RowsOfConv DEF Rows
  <2>2. \A m \in Rows(s)' : m.conv = turn[s].conv /\ conv'[m.conv].status = "live"
    BY <1>2, <1>9, <2>1 DEF AnswerMatchesStore
  <2>3. turn[s].pc \in {"stream", "done", "denied"} => turn[s].conv \in Convs
    BY DEF AllSound, Sound
  <2>4. conv[c].status = "deleted" => conv'[c].status = "deleted"
    BY DEF Edits
  <2>5. CASE Rows(s)' = Rows(s)
    BY <1>2, <2>2, <2>3, <2>4, <2>5 DEF AnswerMatchesStore
  <2>6. CASE Rows(s)' = {} /\ turn[s].conv = c /\ conv'[c].status = "deleted"
    BY <2>6
  <2> QED BY <1>10, <2>5, <2>6
<1>13. RowsSound'
  <2> SUFFICES ASSUME NEW m \in AnswerRows'
               PROVE  m \in AnswerRows /\ conv'[m.conv].user = conv[m.conv].user
    BY DEF RowsSound
  <2>1. m \in AnswerRows /\ m \in messages'
    BY <1>3 DEF AnswerRows
  <2>2. m.conv \in Convs
    BY <1>3, <2>1, RowsOfConv
  <2> QED BY <1>2, <1>9, <2>1, <2>2
<1>14. TitlesFree'
  <2>1. \A d \in Convs : conv'[d].status = "unused" => conv'[d].title = "none"
    BY <1>2 DEF TitlesFree, Edits
  <2> SUFFICES ASSUME NEW s \in Turns, InTransaction(s)
               PROVE  /\ turn[s].untitled /\ ~turn'[s].stale
                           => conv'[turn[s].conv].title = "none"
                      /\ turn[s].titled => turn[s].untitled /\ ~turn'[s].stale
                      /\ turn[s].titled => \A r \in Others(turn[s].conv, s) : ~turn[r].titled
    <3>1. \A d, r : Others(d, r)' = Others(d, r) /\ Others(d, r) \subseteq Turns
      BY <1>5 DEF Others, Using
    <3> QED BY <1>1, <1>5, <2>1, <3>1 DEF TitlesFree, Keeps
  <2>2. turn[s].stale => turn'[s].stale
    BY <1>1 DEF Keeps
  <2>3. CASE turn[s].conv = c
    <3>1. s \in Using(c)
      BY <2>3 DEF Using
    <3> QED BY <1>7, <3>1 DEF TitlesFree
  <2>4. CASE turn[s].conv # c
    <3>1. s \notin Using(c)
      BY <2>4 DEF Using
    <3> QED BY <1>1, <1>2, <1>6, <2>2, <2>4, <3>1 DEF TitlesFree
  <2> QED BY <2>3, <2>4
<1> QED BY <1>4, <1>8, <1>11, <1>12, <1>13, <1>14

LEMMA StepInv == ASSUME IInv, [Next]_vars PROVE IInv'
<1>1. CASE UNCHANGED vars
  <2>1. TypeOK' /\ AllSound' /\ RowsSound'
    BY <1>1 DEF vars, IInv, TypeOK, AllSound, Sound, RowsSound, AnswerRows
  <2>2. AnswerMatchesStore' /\ CommittedRows'
    BY <1>1 DEF vars, IInv, AnswerMatchesStore, Rows, CommittedRows
  <2>3. Bound' /\ TitlesFree'
    BY <1>1 DEF vars, IInv, Bound, TitlesFree, InTransaction, Served, Using, Others
  <2> QED BY <2>1, <2>2, <2>3 DEF IInv
<1>2. CASE ~UNCHANGED vars
  BY <1>2, StepShape, WorksInv, LeavesInv, CommitsInv, BeginsInv, EditsInv DEF IInv, AllSound
<1> QED BY <1>1, <1>2

(***************************************************************************)
(* The promises.                                                           *)
(***************************************************************************)
\* Tables keep their columns, and turns the fields of AgentState.
THEOREM TypeCorrect == Spec => []TypeOK
BY InitInv, StepInv, PTL DEF Spec, IInv

\* What was sent is what is stored, and nothing half.
THEOREM StoredIsSent == Spec => []AnswerMatchesStore
BY InitInv, StepInv, PTL DEF Spec, IInv

LEMMA SoundRows ==
  ASSUME RowsSound PROVE HighRiskNeverClean /\ CitationsReadable
<1>1. HighRiskNeverClean
  BY DEF RowsSound, Safe, HighRiskNeverClean
<1>2. CitationsReadable
  BY RetrievedReadable DEF RowsSound, CitationsReadable
<1> QED BY <1>1, <1>2

\* No text of high risk is stored without its warning.
THEOREM RiskIsMarked == Spec => []HighRiskNeverClean
BY InitInv, StepInv, SoundRows, PTL DEF Spec, IInv

\* Nobody is shown a citation of what they may not read.
THEOREM CitesReadable == Spec => []CitationsReadable
BY InitInv, StepInv, SoundRows, PTL DEF Spec, IInv

\* A title is uncommitted for the time of a commit only, and one at a time.
THEOREM TitlesHeldBriefly == Spec => []TitleHeldBriefly
<1>1. AllSound /\ TitlesFree => TitleHeldBriefly
  BY DEF AllSound, Sound, TitlesFree, TitleHeldBriefly, Using, InTransaction
<1> QED BY <1>1, InitInv, StepInv, PTL DEF Spec, IInv

\* A turn titles a conversation only while it has no title.
LEMMA StepKeepsTitles ==
  ASSUME IInv, [Next]_vars, NEW c \in Convs,
         conv[c].title # "none", conv'[c].title # conv[c].title
  PROVE  conv'[c].title \notin Turns
<1> USE DEF IInv
<1>1. ASSUME NEW t \in Turns, Commits(t) PROVE conv'[c].title \notin Turns
  <2>1. turn[t].conv = c
    BY <1>1, CommitsRows
  <2>2. turn[t].titled => conv[c].title = "none"
    BY <1>1, <2>1, CommitsSeats DEF TitlesFree
  <2> QED BY <1>1, <2>1, <2>2 DEF Commits, TypeOK
<1>2. ASSUME NEW d \in Convs, Edits(d) PROVE conv'[c].title \notin Turns
  <2>1. c = d
    BY <1>2 DEF Edits
  <2> QED BY <1>2, <2>1, TitleAssumption DEF Edits
<1>3. CASE conv' = conv
  BY <1>3
<1> QED BY <1>1, <1>2, <1>3, StepShape DEF AllSound, Works, Leaves, Begins, vars

\* No title is overwritten by a question.
THEOREM TitlesKept == Spec => TitleKept
<1>1. IInv /\ [Next]_vars =>
        [\A c \in Convs :
           conv[c].title # "none" /\ conv'[c].title # conv[c].title
             => conv'[c].title \notin Turns]_vars
  BY StepKeepsTitles
<1> QED BY <1>1, InitInv, StepInv, PTL DEF Spec, TitleKept

(***************************************************************************)
(* The refinement of Dialogue.                                             *)
(***************************************************************************)
LEMMA InitDialogue == ASSUME Init PROVE Log!Init
BY DEF Init, Log!Init, Asked, Answered

LEMMA CommitAdds ==
  ASSUME IInv, NEW t \in Turns, Commits(t)
  PROVE  Log!Next
<1> DEFINE c == turn[t].conv
<1>1. /\ c \in Convs /\ conv[c].status # "deleted" /\ conv'[c].status = "live"
      /\ \A d \in Convs \ {c} : conv'[d] = conv[d]
  BY CommitsSeats, CommitsRows
<1>2. messages' = messages \union RowsOf(t) /\ \A m \in messages : m.turn # t
  BY CommitsRows DEF Commits
<1>3. \A d : t \notin Asked(d)
  BY <1>2 DEF Asked
<1>4. \A d : /\ Asked(d)' = IF d = c THEN Asked(d) \union {t} ELSE Asked(d)
            /\ Answered(d)' = IF d = c THEN Answered(d) \union {t} ELSE Answered(d)
  <2>1. PICK q, a : /\ RowsOf(t) = {q, a} /\ q.conv = c /\ a.conv = c /\ q.turn = t /\ a.turn = t
                    /\ q.role = "user" /\ a.role = "assistant"
    <3> DEFINE q == [conv |-> c, turn |-> t, role |-> "user"]
               a == [conv |-> c, turn |-> t, role |-> "assistant", text |-> turn[t].answer,
                     citations |-> turn[t].retrieval, action |-> turn[t].action]
    <3>1. RowsOf(t) = {q, a}
      BY DEF RowsOf
    <3>2. /\ q.conv = c /\ a.conv = c /\ q.turn = t /\ a.turn = t
          /\ q.role = "user" /\ a.role = "assistant"
      OBVIOUS
    <3> HIDE DEF q, a
    <3> QED BY <3>1, <3>2
  <2>2. messages' = messages \union {q, a}
    BY <1>2, <2>1
  <2> HIDE DEF c
  <2>3. \A d : {n \in messages' : n.conv = d /\ n.role = "user"} =
             {n \in messages : n.conv = d /\ n.role = "user"} \union (IF d = c THEN {q} ELSE {})
    BY <2>1, <2>2
  <2>4. \A d : {n \in messages' : n.conv = d /\ n.role = "assistant"} =
             {n \in messages : n.conv = d /\ n.role = "assistant"} \union (IF d = c THEN {a} ELSE {})
    BY <2>1, <2>2
  <2>5. \A d : Asked(d)' = IF d = c THEN Asked(d) \union {t} ELSE Asked(d)
    BY <2>1, <2>3 DEF Asked
  <2>6. \A d : Answered(d)' = IF d = c THEN Answered(d) \union {t} ELSE Answered(d)
    BY <2>1, <2>4 DEF Answered
  <2> QED BY <2>5, <2>6
<1>5. {d \in Convs : conv'[d].status = "live"} = {d \in Convs : conv[d].status = "live"} \union {c}
  BY <1>1
<1>6. {d \in Convs : conv'[d].status = "deleted"} = {d \in Convs : conv[d].status = "deleted"}
  BY <1>1
<1> HIDE DEF c
<1>7. Log!Add(c, t)
  BY <1>1, <1>3, <1>4, <1>5, <1>6 DEF Log!Add
<1> QED BY <1>1, <1>7 DEF Log!Next

LEMMA EditMaps ==
  ASSUME IInv, NEW c \in Convs, Edits(c)
  PROVE  Log!Next \/ UNCHANGED Log!vars
<1> USE DEF IInv
<1>1. \A d \in Convs \ {c} : conv'[d] = conv[d]
  BY DEF Edits
<1>2. CASE messages' = messages /\ conv'[c].status = conv[c].status
  <2>1. \A d : Asked(d)' = Asked(d) /\ Answered(d)' = Answered(d)
    BY <1>2 DEF Asked, Answered
  <2>2. \A d \in Convs : conv'[d].status = conv[d].status
    BY <1>1, <1>2
  <2> QED BY <2>1, <2>2 DEF Log!vars
<1>3. CASE messages' = messages /\ conv[c].status = "unused" /\ conv'[c].status = "live"
  <2>1. \A d : Asked(d)' = Asked(d) /\ Answered(d)' = Answered(d)
    BY <1>3 DEF Asked, Answered
  <2>2. Log!Open(c)
    BY <1>1, <1>3, <2>1 DEF Log!Open
  <2> QED BY <2>2 DEF Log!Next
<1>4. CASE /\ messages' = {m \in messages : m.conv # c}
           /\ conv[c].status = "live" /\ conv'[c].status = "deleted"
  <2>1. \A d : /\ Asked(d)' = IF d = c THEN {} ELSE Asked(d)
              /\ Answered(d)' = IF d = c THEN {} ELSE Answered(d)
    BY <1>4 DEF Asked, Answered
  <2>2. Log!Remove(c)
    BY <1>1, <1>4, <2>1 DEF Log!Remove
  <2> QED BY <2>2 DEF Log!Next
<1> QED BY <1>2, <1>3, <1>4 DEF Edits

\* The tables implement the dialogue.
THEOREM Refinement == Spec => ImplementsDialogue
<1>1. IInv /\ [Next]_vars => [Log!Next]_(Log!vars)
  <2> SUFFICES ASSUME IInv, [Next]_vars PROVE Log!Next \/ UNCHANGED Log!vars
    OBVIOUS
  <2>1. CASE UNCHANGED <<conv, messages>>
    BY <2>1 DEF Log!vars, Asked, Answered
  <2> QED BY <2>1, StepShape, CommitAdds, EditMaps
      DEF IInv, AllSound, Works, Leaves, Begins, vars
<1> QED BY <1>1, InitInv, StepInv, InitDialogue, PTL DEF Spec, ImplementsDialogue, Log!Spec

(***************************************************************************)
(* What becomes of an answer that cites as the prompt asks.                *)
(***************************************************************************)
\* An answer that marks at least one chunk it was given, by the first six
\* digits of its record as the prompt asks, and is otherwise well cited, is
\* never passed as it is, whoever asks and whatever it states: a short mark
\* is extracted, and no whole id equals it.  The counterexample to
\* CitedAnswersPass is no accident of its instance.
THEOREM CitedIsNeverClean ==
  ASSUME NEW answer, NEW context \in SUBSET Chunks, NEW toolFacts, NEW user,
         WellCited(answer, context), answer.marks # {}
  PROVE  OutputAction(answer, context, toolFacts, user) # "allow"
<1>1. PICK c \in context : ShortOf[ChunkInfo[c].record] \in answer.marks
  BY DEF WellCited
<1> DEFINE mark == ShortOf[ChunkInfo[c].record]
<1>2. \A k \in context : ChunkInfo[k].record \in Records
  BY ChunkAssumption
<1>3. mark \notin Records
  BY <1>2, ShortIdAssumption
<1>4. mark \in UnauthorizedCitations(answer, context)
  BY <1>1, <1>2, <1>3 DEF UnauthorizedCitations, ExtractCitations
<1>5. RiskLevel(answer, context, toolFacts, user) \in {"medium", "high"}
  BY <1>4 DEF RiskLevel, HighViolation
<1> QED BY <1>5 DEF OutputAction
=============================================================================
