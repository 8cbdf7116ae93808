------------------------------ MODULE Guardrails ------------------------------
(***************************************************************************)
(* The checks of an answer before it is sent.                              *)
(*                                                                         *)
(* An answer is described by what the checks' patterns find in it:         *)
(*   leaks    phrases of the system prompt                                 *)
(*   numbers  how many phone and identity numbers                          *)
(*   marks    the ids in [#...] marks, whole record ids or 6-digit ones    *)
(*   echoes   chunks of which a paragraph repeats more than 80%            *)
(*   facts    the numbers and proper nouns it states                       *)
(***************************************************************************)
EXTENDS Integers, FiniteSets

CONSTANTS
  Chunks,
  ChunkInfo,     \* per chunk [record, dept, dataset, sensitivity, facts]
  Records,
  ShortOf        \* per record the first six digits of its id

ASSUME ShortIdAssumption == \A r \in Records : ShortOf[r] \notin Records
ASSUME ChunkAssumption == \A c \in Chunks : ChunkInfo[c].record \in Records

Level(s) == CASE s = "public" -> 0 [] s = "internal" -> 1
              [] s = "confidential" -> 2 [] s = "restricted" -> 3

\* The pattern takes hexadecimal digits only, so a whole id with its dashes
\* is never extracted.
ExtractCitations(answer) == answer.marks \ Records

PromptLeaked(answer) == answer.leaks
PIIExtracted(answer) == answer.numbers >= 3

UnauthorizedCitations(answer, context) ==
  ExtractCitations(answer) \ {ChunkInfo[c].record : c \in context}

TooSensitive(context, sensitivity) ==
  {c \in context : Level(ChunkInfo[c].sensitivity) > Level(sensitivity)}

TextReflected(answer, context) == answer.echoes \intersect context # {}

\* Fewer than 70% of the answer's facts are in the chunks or tool results.
Hallucinated(answer, context, toolFacts) ==
  LET known == toolFacts \union UNION {ChunkInfo[c].facts : c \in context}
  IN  Cardinality(answer.facts \intersect known) * 10 < 7 * Cardinality(answer.facts)

HighViolation(answer, context, user) ==
  \/ PromptLeaked(answer)
  \/ ~user.readPII /\ PIIExtracted(answer)
  \/ UnauthorizedCitations(answer, context) # {}
  \/ TooSensitive(context, user.sensitivity) # {}

\* risk_level is one variable that the later checks overwrite: a medium
\* finding replaces a high one.
RiskLevel(answer, context, toolFacts, user) ==
  IF TextReflected(answer, context) \/ Hallucinated(answer, context, toolFacts)
  THEN "medium"
  ELSE IF HighViolation(answer, context, user) THEN "high" ELSE "low"

OutputAction(answer, context, toolFacts, user) ==
  LET risk == RiskLevel(answer, context, toolFacts, user)
  IN  CASE risk = "high" -> "block" [] risk = "medium" -> "warn" [] OTHER -> "allow"
=============================================================================
