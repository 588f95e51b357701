---------------------------- MODULE MCRunAnswers -----------------------------
(***************************************************************************)
(* The answers of one Run at three levels, chosen by scene: CursorRun over *)
(* three requests, q3 without a stream, of a client that takes one tool    *)
(* call at a time ("serial") or batches of up to MaxSlots ("parallel");    *)
(* the frames of its calls in ToolStream, and its text in AnswerStream.    *)
(***************************************************************************)
EXTENDS MCCursorRun, ToolStream, AnswerStream

CONSTANTS v1, v2

VARIABLE scene

S == INSTANCE CursorRun WITH Parallel <- FALSE, MaxSlots <- 2

AnswersVars == <<scene, vars, toolVars, answerVars>>

\* The state of the tool calls while they rest.
ToolsRest ==
    /\ made = [k \in UpstreamCalls |-> [value |-> "none", opening |-> "none", said |-> 0,
                                        completed |-> FALSE, exec |-> <<>>]]
    /\ serial = FALSE
    /\ tools = [slots |-> <<>>, aliases |-> <<>>]
    /\ heldCalls = {} /\ resultOf = {} /\ told = {}
    /\ response = NoCalls /\ stage = "running" /\ rounds = 1 /\ frames = 0

AnswersInit ==
    /\ scene \in {"serial", "parallel", "tools", "text"}
    /\ Init
    /\ IF scene = "tools" THEN ToolInit ELSE ToolsRest
    /\ AnswerInit /\ (scene = "text" \/ toolUse = "auto")

AnswersNext ==
    /\ UNCHANGED scene
    /\ \/ scene = "serial" /\ S!Next /\ UNCHANGED <<toolVars, answerVars>>
       \/ scene = "parallel" /\ Next /\ UNCHANGED <<toolVars, answerVars>>
       \/ scene = "tools" /\ ToolNext /\ UNCHANGED <<vars, answerVars>>
       \/ scene = "text" /\ AnswerNext /\ UNCHANGED <<vars, toolVars>>

AnswersSpec == AnswersInit /\ [][AnswersNext]_AnswersVars

AnswersSymmetry == Permutations({q1, q2}) \cup Permutations({v1, v2})
=============================================================================
