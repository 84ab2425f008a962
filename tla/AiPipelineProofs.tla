-------------------------- MODULE AiPipelineProofs --------------------------
(***************************************************************************)
(* Proofs about AiPipeline: whatever the number of users, requests and     *)
(* workers, the limit, the texts of exceptions and the replies of the LLM. *)
(***************************************************************************)
EXTENDS AiPipeline, FiniteSetTheorems, TLAPS

-----------------------------------------------------------------------------
(***************************************************************************)
(* Types.                                                                  *)
(***************************************************************************)
\* The normalised code is a language code.
LEMMA NormalisedIsCode ==
  ASSUME NEW raw PROVE NormaliseLangCode(raw) \in LangCodes
BY DEF NormaliseLangCode, LangCodes

\* The graph goes from a node to the action, to fallback or to the end.
LEMMA EdgeLeadsOn ==
  ASSUME NEW node, NEW r \in Requests, NEW st
  PROVE  EdgeOf(node, r, st) \in Actions \cup {"fallback", "end"}
BY RequestsAssumption DEF EdgeOf, ConditionRouter, AfterAction

\* What the nodes write to the state, and what they leave alone.
LEMMA LanguageUpdate ==
  ASSUME NEW st \in GraphStates, NEW lang \in LangCodes
  PROVE  LET new == [st EXCEPT !.source_language = lang]
         IN /\ new \in GraphStates
            /\ new.source_language = lang /\ new.error = st.error
            /\ new.translation = st.translation /\ new.summary = st.summary
BY DEF GraphStates, MaybeLang

LEMMA TranslationUpdate ==
  ASSUME NEW st \in GraphStates
  PROVE  LET new == [st EXCEPT !.translation = "text"]
         IN /\ new \in GraphStates
            /\ new.source_language = st.source_language /\ new.error = st.error
            /\ new.translation = "text" /\ new.summary = st.summary
BY DEF GraphStates

LEMMA SummaryUpdate ==
  ASSUME NEW st \in GraphStates, NEW lang \in LangCodes
  PROVE  LET new == [st EXCEPT !.summary = lang]
         IN /\ new \in GraphStates
            /\ new.source_language = st.source_language /\ new.error = st.error
            /\ new.translation = st.translation /\ new.summary = lang
BY DEF GraphStates, MaybeLang

LEMMA ErrorUpdate ==
  ASSUME NEW st \in GraphStates, NEW node \in Nodes, NEW e \in ErrorTexts,
         NEW new, new = [st EXCEPT !.error = e, !.failed_node = node]
  PROVE  /\ new \in GraphStates
         /\ new.error = e /\ new.failed_node = node
         /\ new.translation = st.translation /\ new.summary = st.summary
BY DEF GraphStates

LEMMA FallbackUpdate ==
  ASSUME NEW st \in GraphStates
  PROVE  LET new == [st EXCEPT !.error = IF st.error = Absent
                                        THEN "unknown error" ELSE st.error]
         IN new \in GraphStates /\ (st.error # Absent => new = st)
BY DEF GraphStates

LEMMA ResponseTypes ==
  ASSUME NEW st \in GraphStates
  PROVE  IF HasError(st)
         THEN [status |-> "503", detail |-> st.error] \in Responses
         ELSE [status |-> "200",
               source_language |-> IF st.source_language = Absent
                                   THEN "en" ELSE st.source_language,
               translation |-> st.translation,
               summary |-> st.summary] \in Responses
<1>1. HasError(st) => st.error \in ErrorTexts \cup {"unknown error"}
  BY DEF HasError, GraphStates
<1>2. (IF st.source_language = Absent THEN "en" ELSE st.source_language)
        \in LangCodes
  BY DEF GraphStates, MaybeLang, LangCodes
<1>3. st.translation \in {Absent, "text"} /\ st.summary \in MaybeLang
  BY DEF GraphStates
<1> QED BY <1>1, <1>2, <1>3 DEF Responses

\* Every step keeps the types.
LEMMA TypeStep == TypeOK /\ [Next]_vars => TypeOK'
<1> SUFFICES ASSUME TypeOK, [Next]_vars PROVE TypeOK'
  OBVIOUS
<1> USE DEF TypeOK, Busy, InGraph, Nodes, Actions, Goto
<1>1. ASSUME NEW r \in Requests, TakeRequest(r) PROVE TypeOK'
  BY <1>1 DEF TakeRequest
<1>2. ASSUME NEW r \in Requests, CountRequest(r) PROVE TypeOK'
  <2>1. UserOf[r] \in Users /\ count[UserOf[r]][window] \in Nat
    BY RequestsAssumption
  <2>2. count' \in [Users -> [Windows -> Nat]]
    BY <1>2, <2>1 DEF CountRequest
  <2>3. /\ pc' \in [Requests -> Busy \cup {"new", "done"}]
        /\ counted' \in [Requests -> Windows \cup {-1}]
    BY <1>2 DEF CountRequest, Answer
  <2>4. [status |-> "429"] \in Responses
    BY DEF Responses
  <2>5. reply' \in [Requests -> Responses]
    BY <1>2, <2>4 DEF CountRequest, Answer
  <2> QED BY <1>2, <2>2, <2>3, <2>5 DEF CountRequest
<1>3. ASSUME NEW r \in Requests, CountFails(r) PROVE TypeOK'
  BY <1>3 DEF CountFails, Answer, Responses
<1>4. ASSUME NEW r \in Requests, ValidateFails(r) PROVE TypeOK'
  BY <1>4 DEF ValidateFails, Answer, Responses
<1>5. ASSUME NEW r \in Requests, Validate(r) PROVE TypeOK'
  BY <1>5 DEF Validate
<1>6. ASSUME NEW r \in Requests, NEW node, NEW st \in GraphStates,
             NodeReturns(r, node, st)
      PROVE  TypeOK'
  BY <1>6, EdgeLeadsOn DEF NodeReturns
<1>7. ASSUME NEW r \in Requests, DetectLang(r) PROVE TypeOK'
  <2> PICK raw \in Replies :
        NodeReturns(r, "detect_lang",
          [state[r] EXCEPT !.source_language = NormaliseLangCode(raw)])
    BY <1>7 DEF DetectLang
  <2>1. [state[r] EXCEPT !.source_language = NormaliseLangCode(raw)]
          \in GraphStates
    BY NormalisedIsCode, LanguageUpdate
  <2> QED BY <1>6, <2>1
<1>8. ASSUME NEW r \in Requests, TranslateNode(r) PROVE TypeOK'
  <2>1. [state[r] EXCEPT !.translation = "text"] \in GraphStates
    BY TranslationUpdate
  <2> QED BY <1>6, <1>8, <2>1 DEF TranslateNode
<1>9. ASSUME NEW r \in Requests, SummarizeNode(r) PROVE TypeOK'
  <2> DEFINE lang == IF state[r].source_language = Absent THEN "en"
                     ELSE state[r].source_language
  <2>1. [state[r] EXCEPT !.summary = lang] \in GraphStates
    <3>1. lang \in LangCodes
      BY DEF GraphStates, MaybeLang, LangCodes
    <3> QED BY <3>1, SummaryUpdate
  <2> QED BY <1>6, <1>9, <2>1 DEF SummarizeNode
<1>10. ASSUME NEW r \in Requests, NodeRaises(r) PROVE TypeOK'
  <2> PICK node \in Nodes, e \in ErrorTexts :
        LET st == [state[r] EXCEPT !.error = e, !.failed_node = node]
        IN /\ Goto(r, node, EdgeOf(node, r, st))
           /\ state' = [state EXCEPT ![r] = st]
           /\ raised' = [raised EXCEPT ![r] = @ \cup {node}]
           /\ UNCHANGED <<window, count, reply, counted>>
    BY <1>10 DEF NodeRaises
  <2> DEFINE st == [state[r] EXCEPT !.error = e, !.failed_node = node]
  <2> DEFINE before == state[r]
  <2>1. st \in GraphStates
    <3>1. before \in GraphStates /\ st = [before EXCEPT !.error = e, !.failed_node = node]
      OBVIOUS
    <3> HIDE DEF st, before
    <3> QED BY ONLY <3>1, node \in Nodes, e \in ErrorTexts, ErrorUpdate
  <2> HIDE DEF st
  <2>2. EdgeOf(node, r, st) \in Actions \cup {"fallback", "end"}
    BY EdgeLeadsOn
  <2>3. /\ pc' = [pc EXCEPT ![r] = EdgeOf(node, r, st)]
        /\ state' = [state EXCEPT ![r] = st]
        /\ raised' = [raised EXCEPT ![r] = raised[r] \cup {node}]
        /\ UNCHANGED <<window, count, reply, counted>>
    BY DEF st
  <2> QED BY <2>1, <2>2, <2>3
<1>11. ASSUME NEW r \in Requests, FallbackNode(r) PROVE TypeOK'
  <2> DEFINE e == IF state[r].error = Absent THEN "unknown error"
                  ELSE state[r].error
  <2>1. [state[r] EXCEPT !.error = e] \in GraphStates
    BY FallbackUpdate
  <2>2. state' = [state EXCEPT ![r] = [state[r] EXCEPT !.error = e]]
    BY <1>11 DEF FallbackNode
  <2>3. state' \in [Requests -> GraphStates]
    BY <2>1, <2>2
  <2>4. pc' = [pc EXCEPT ![r] = "end"] /\ UNCHANGED <<window, count, reply, counted, raised>>
    BY <1>11 DEF FallbackNode
  <2> QED BY <2>3, <2>4
<1>12. ASSUME NEW r \in Requests, Respond(r) PROVE TypeOK'
  <2>1. state[r] \in GraphStates
    OBVIOUS
  <2>2. reply' \in [Requests -> Responses]
    BY <1>12, <2>1, ResponseTypes DEF Respond, Answer
  <2> QED BY <1>12, <2>2 DEF Respond, Answer
<1>13. ASSUME NEW r \in Requests, KillWorker(r) PROVE TypeOK'
  BY <1>13 DEF KillWorker, Answer, Responses
<1>14. CASE NextWindow
  BY <1>14, LimitsAssumption DEF NextWindow, Windows
<1>15. CASE UNCHANGED vars
  BY <1>15 DEF vars
<1> QED
  BY <1>1, <1>2, <1>3, <1>4, <1>5, <1>7, <1>8, <1>9, <1>10, <1>11, <1>12,
     <1>13, <1>14, <1>15
  DEF Next, Step, Quiet

\* Every variable of the pipeline has its type.
THEOREM PipelineTypes == Spec => []TypeOK
<1>1. Init => TypeOK
  BY LimitsAssumption
  DEF Init, TypeOK, Windows, EmptyState, GraphStates, MaybeLang, NoReply, Responses
<1> QED BY <1>1, TypeStep, PTL DEF Spec

-----------------------------------------------------------------------------
(***************************************************************************)
(* A step is one request's: of the others it changes nothing.              *)
(***************************************************************************)
StepOf(r) == Step(r) \/ KillWorker(r)

OthersKeep(r) ==
  \A q \in Requests \ {r} :
    /\ pc'[q] = pc[q] /\ state'[q] = state[q] /\ reply'[q] = reply[q]
    /\ counted'[q] = counted[q] /\ raised'[q] = raised[q]

\* Every action writes its own request's entries only.
LEMMA StepKeepsOthers ==
  ASSUME TypeOK, NEW r \in Requests, StepOf(r)
  PROVE  OthersKeep(r)
<1> USE DEF OthersKeep, Goto, Answer, TypeOK
<1>1. CASE TakeRequest(r) \/ Validate(r)
  BY <1>1 DEF TakeRequest, Validate
<1>2. CASE CountRequest(r)
  BY <1>2 DEF CountRequest
<1>3. CASE CountFails(r) \/ ValidateFails(r) \/ KillWorker(r)
  BY <1>3 DEF CountFails, ValidateFails, KillWorker
<1>4. ASSUME NEW node, NEW st, NodeReturns(r, node, st) PROVE OthersKeep(r)
  BY <1>4 DEF NodeReturns
<1>5. CASE DetectLang(r) \/ TranslateNode(r) \/ SummarizeNode(r)
  BY <1>4, <1>5 DEF DetectLang, TranslateNode, SummarizeNode
<1>6. CASE NodeRaises(r)
  BY <1>6 DEF NodeRaises
<1>7. CASE FallbackNode(r)
  BY <1>7 DEF FallbackNode
<1>8. CASE Respond(r)
  BY <1>8 DEF Respond
<1> QED
  BY <1>1, <1>2, <1>3, <1>5, <1>6, <1>7, <1>8 DEF StepOf, Step

\* The steps of the specification.
LEMMA NextSteps ==
  [Next]_vars =>
    \/ \E r \in Requests : StepOf(r)
    \/ UNCHANGED <<pc, count, state, reply, counted, raised>>
BY DEF Next, StepOf, NextWindow, Quiet, vars

-----------------------------------------------------------------------------
(***************************************************************************)
(* Where requests stand, and what became of them.                          *)
(***************************************************************************)
\* A step keeps track of what is set when in the request it is about.
LEMMA ProgressOfStep ==
  ASSUME TypeOK, NEW r \in Requests, ProgressOf(r), StepOf(r)
  PROVE  ProgressOf(r)'
<1> USE DEF TypeOK, ProgressOf, Busy, InGraph, Nodes, Actions, Goto, NoReply
<1>1. CASE TakeRequest(r)
  BY <1>1 DEF TakeRequest
<1>2. CASE CountRequest(r)
  BY <1>2 DEF CountRequest, Answer
<1>3. CASE CountFails(r)
  BY <1>3 DEF CountFails, Answer
<1>4. CASE ValidateFails(r)
  BY <1>4 DEF ValidateFails, Answer
<1>5. CASE Validate(r)
  BY <1>5 DEF Validate
<1>6. ASSUME NEW node \in Nodes, NEW st,
             Goto(r, node, EdgeOf(node, r, st)),
             UNCHANGED <<reply, counted>>
      PROVE  ProgressOf(r)'
  <2>1. EdgeOf(node, r, st) \in {ActionOf[r], "fallback", "end"}
    BY DEF EdgeOf, ConditionRouter, AfterAction
  <2>2. EdgeOf(node, r, st) \in Actions \cup {"fallback", "end"}
    BY EdgeLeadsOn
  <2>3. pc'[r] \in {"translate", "summarize", "fallback", "end"}
    BY <1>6, <2>2
  <2>4. pc'[r] \in Actions => pc'[r] = ActionOf[r]
    BY <1>6, <2>1
  <2>5. pc[r] # "done"
    BY <1>6
  <2>6. reply'[r] = NoReply
    BY <1>6, <2>5
  <2> QED BY <2>3, <2>4, <2>6
<1>7. CASE DetectLang(r) \/ TranslateNode(r) \/ SummarizeNode(r)
  <2>1. ASSUME NEW node \in Nodes, NEW st, NodeReturns(r, node, st)
        PROVE  ProgressOf(r)'
    <3> HIDE DEF TypeOK, ProgressOf, Nodes, Goto
    <3> QED BY <1>6, <2>1 DEF NodeReturns
  <2> HIDE DEF TypeOK, ProgressOf, Goto
  <2>2. CASE DetectLang(r)
    BY <2>1, <2>2 DEF DetectLang
  <2>3. CASE TranslateNode(r)
    BY <2>1, <2>3 DEF TranslateNode
  <2>4. CASE SummarizeNode(r)
    BY <2>1, <2>4 DEF SummarizeNode
  <2> QED BY <1>7, <2>2, <2>3, <2>4
<1>8. CASE NodeRaises(r)
  <2> HIDE DEF TypeOK, ProgressOf, Nodes, Goto
  <2> QED BY <1>6, <1>8 DEF NodeRaises
<1>9. CASE FallbackNode(r)
  BY <1>9 DEF FallbackNode
<1>10. CASE Respond(r)
  <2>1. pc'[r] = "done" /\ reply'[r].status \in {"200", "503"}
    BY <1>10 DEF Respond, Answer
  <2> QED BY <2>1
<1>11. CASE KillWorker(r)
  BY <1>11 DEF KillWorker, Answer
<1> QED
  BY <1>1, <1>2, <1>3, <1>4, <1>5, <1>7, <1>8, <1>9, <1>10, <1>11
  DEF StepOf, Step

\* Every step keeps track of what is set when.
LEMMA ProgressStep == TypeOK /\ Progress /\ [Next]_vars => Progress'
<1> SUFFICES ASSUME TypeOK, Progress, [Next]_vars, NEW q \in Requests
             PROVE  ProgressOf(q)'
  BY DEF Progress
<1>1. ProgressOf(q)
  BY DEF Progress
<1>2. CASE StepOf(q)
  BY <1>1, <1>2, ProgressOfStep
<1>3. ASSUME NEW r \in Requests \ {q}, StepOf(r) PROVE ProgressOf(q)'
  <2>1. OthersKeep(r)
    BY <1>3, StepKeepsOthers
  <2> QED BY <1>1, <2>1 DEF OthersKeep, ProgressOf
<1>4. CASE UNCHANGED <<pc, count, state, reply, counted, raised>>
  BY <1>1, <1>4 DEF ProgressOf
<1> QED BY <1>2, <1>3, <1>4, NextSteps

\* If exceptions have texts, a step leaves state and response of its request
\* telling what happened.
LEMMA OutcomeOfStep ==
  ASSUME ErrorsHaveText, TypeOK, NEW r \in Requests,
         ProgressOf(r), OutcomeOf(r), StepOf(r)
  PROVE  OutcomeOf(r)'
<1> DEFINE Waiting == {"new", "limit", "validate", "detect_lang"}
<1>0. state[r] \in GraphStates
  BY DEF TypeOK
<1>1. ASSUME pc[r] # "done", pc'[r] \in Waiting, UNCHANGED <<state, reply, raised>>
      PROVE  OutcomeOf(r)'
  BY <1>1 DEF OutcomeOf, NoOutputs, Actions, ProgressOf, NoReply
<1>2. ASSUME pc'[r] = "done", UNCHANGED <<state, raised>>,
             reply'[r].status \notin {"200", "503"}
      PROVE  OutcomeOf(r)'
  BY <1>2 DEF OutcomeOf, NoOutputs, Actions
<1>3. CASE TakeRequest(r) \/ Validate(r)
  BY <1>1, <1>3 DEF TakeRequest, Validate, Goto, TypeOK
<1>4. CASE CountRequest(r)
  <2>1. CASE pc'[r] = "validate"
    BY <1>1, <1>4, <2>1 DEF CountRequest, Goto, TypeOK, Answer
  <2>2. CASE pc'[r] # "validate"
    BY <1>2, <1>4, <2>2 DEF CountRequest, Goto, TypeOK, Answer
  <2> QED BY <2>1, <2>2
<1>5. CASE CountFails(r) \/ ValidateFails(r) \/ KillWorker(r)
  BY <1>2, <1>5 DEF CountFails, ValidateFails, KillWorker, Answer, TypeOK
<1>6. ASSUME NEW node \in Nodes, NEW st,
             Goto(r, node, EdgeOf(node, r, st)),
             state' = [state EXCEPT ![r] = st],
             UNCHANGED reply
      PROVE  /\ pc'[r] = EdgeOf(node, r, st)
             /\ state'[r] = st
             /\ reply'[r].status = "none"
             /\ raised[r] = {}
             /\ state[r].error = Absent
             /\ NoOutputs(state[r])
  BY <1>6
  DEF Goto, TypeOK, ProgressOf, OutcomeOf, NoOutputs, Nodes, Actions, NoReply,
      EmptyState
<1>7. CASE DetectLang(r)
  <2> PICK raw \in Replies :
        NodeReturns(r, "detect_lang",
          [state[r] EXCEPT !.source_language = NormaliseLangCode(raw)])
    BY <1>7 DEF DetectLang
  <2> DEFINE st == [state[r] EXCEPT !.source_language = NormaliseLangCode(raw)]
  <2>1. /\ pc'[r] = EdgeOf("detect_lang", r, st) /\ state'[r] = st
        /\ reply'[r].status = "none" /\ raised'[r] = {}
        /\ state[r].error = Absent /\ NoOutputs(state[r])
    BY <1>6 DEF NodeReturns, Nodes
  <2>2. NormaliseLangCode(raw) # Absent
    BY NormalisedIsCode DEF LangCodes, Absent
  <2>3. st.error = Absent /\ st.source_language # Absent /\ NoOutputs(st)
    BY <1>0, <2>1, <2>2, LanguageUpdate, NormalisedIsCode DEF NoOutputs
  <2>4. EdgeOf("detect_lang", r, st) = ActionOf[r]
    BY <2>3 DEF EdgeOf, ConditionRouter, HasError
  <2> HIDE DEF st
  <2> QED BY <2>1, <2>3, <2>4, RequestsAssumption DEF OutcomeOf, Actions
<1>8. CASE TranslateNode(r)
  <2> DEFINE st == [state[r] EXCEPT !.translation = "text"]
  <2>1. /\ pc'[r] = EdgeOf("translate", r, st) /\ state'[r] = st
        /\ reply'[r].status = "none" /\ raised'[r] = {}
        /\ state[r].error = Absent /\ NoOutputs(state[r])
    BY <1>6, <1>8 DEF TranslateNode, NodeReturns, Nodes, Actions
  <2>2. ActionOf[r] = "translate" /\ state[r].source_language # Absent
    BY <1>8 DEF TranslateNode, NodeReturns, Goto, ProgressOf, OutcomeOf, Actions
  <2>3. st.error = Absent /\ OutputsMatch(r, st)
    BY <1>0, <2>1, <2>2, TranslationUpdate DEF NoOutputs, OutputsMatch, Absent
  <2>4. EdgeOf("translate", r, st) = "end"
    BY <2>3 DEF EdgeOf, AfterAction, HasError
  <2> HIDE DEF st
  <2> QED BY <2>1, <2>3, <2>4 DEF OutcomeOf, Actions
<1>9. CASE SummarizeNode(r)
  <2> DEFINE st == [state[r] EXCEPT !.summary = state[r].source_language]
  <2>1. ActionOf[r] = "summarize" /\ state[r].source_language # Absent
    BY <1>9 DEF SummarizeNode, NodeReturns, Goto, ProgressOf, OutcomeOf, Actions
  <2>2. NodeReturns(r, "summarize", st)
    BY <1>9, <2>1 DEF SummarizeNode
  <2>3. /\ pc'[r] = EdgeOf("summarize", r, st) /\ state'[r] = st
        /\ reply'[r].status = "none" /\ raised'[r] = {}
        /\ state[r].error = Absent /\ NoOutputs(state[r])
    BY <1>6, <2>2 DEF NodeReturns, Nodes, Actions
  <2>4. st.error = Absent /\ OutputsMatch(r, st)
    <3>1. state[r].source_language \in LangCodes
      BY <1>0, <2>1 DEF GraphStates, MaybeLang
    <3> QED BY <1>0, <2>1, <2>3, <3>1, SummaryUpdate DEF NoOutputs, OutputsMatch
  <2>5. EdgeOf("summarize", r, st) = "end"
    BY <2>4 DEF EdgeOf, AfterAction, HasError
  <2> HIDE DEF st
  <2> QED BY <2>3, <2>4, <2>5 DEF OutcomeOf, Actions
<1>10. CASE NodeRaises(r)
  <2> PICK node \in Nodes, e \in ErrorTexts :
        LET st == [state[r] EXCEPT !.error = e, !.failed_node = node]
        IN /\ Goto(r, node, EdgeOf(node, r, st))
           /\ state' = [state EXCEPT ![r] = st]
           /\ raised' = [raised EXCEPT ![r] = @ \cup {node}]
           /\ UNCHANGED <<window, count, reply, counted>>
    BY <1>10 DEF NodeRaises
  <2> DEFINE st == [state[r] EXCEPT !.error = e, !.failed_node = node]
  <2>1. /\ pc'[r] = EdgeOf(node, r, st) /\ state'[r] = st
        /\ reply'[r].status = "none" /\ raised[r] = {} /\ NoOutputs(state[r])
    BY <1>6
  <2>2. raised'[r] = {node}
    BY <2>1 DEF TypeOK
  <2>3. st.error = e /\ st.failed_node = node /\ NoOutputs(st)
    <3>1. /\ st.error = e /\ st.failed_node = node
          /\ st.translation = state[r].translation
          /\ st.summary = state[r].summary
      <4> DEFINE before == state[r]
      <4>1. before \in GraphStates /\ st = [before EXCEPT !.error = e, !.failed_node = node]
        BY <1>0
      <4>2. st.error = e /\ st.failed_node = node
            /\ st.translation = before.translation /\ st.summary = before.summary
        <5> HIDE DEF st, before
        <5> QED BY ONLY <4>1, node \in Nodes, e \in ErrorTexts DEF GraphStates
      <4> QED BY <4>2
    <3> HIDE DEF st
    <3> QED BY <2>1, <3>1 DEF NoOutputs
  <2>4. EdgeOf(node, r, st) = "fallback"
    BY <2>3, ErrorTextsAssumption
    DEF EdgeOf, ConditionRouter, AfterAction, HasError, ErrorsHaveText
  <2> HIDE DEF st
  <2> QED BY <2>1, <2>2, <2>3, <2>4 DEF OutcomeOf, Actions
<1>11. CASE FallbackNode(r)
  <2>1. raised[r] # {} /\ state[r].error # Absent /\ reply[r].status = "none"
    <3>1. pc[r] = "fallback"
      BY <1>11 DEF FallbackNode, Goto
    <3>2. raised[r] # {} /\ state[r].error \in ErrorTexts
      BY <3>1 DEF OutcomeOf
    <3>3. reply[r].status = "none"
      BY <3>1 DEF ProgressOf, NoReply
    <3> QED BY <3>2, <3>3, ErrorTextsAssumption
  <2>2. state'[r] = state[r]
    BY <1>0, <1>11, <2>1, FallbackUpdate DEF FallbackNode, TypeOK
  <2>3. pc'[r] = "end" /\ UNCHANGED <<reply, raised>>
    BY <1>11 DEF FallbackNode, Goto, TypeOK
  <2> QED BY <2>1, <2>2, <2>3 DEF OutcomeOf, NoOutputs, Actions
<1>12. CASE Respond(r)
  <2>1. HasError(state[r]) <=> raised[r] # {}
    BY ErrorTextsAssumption DEF HasError, OutcomeOf, ErrorsHaveText
  <2>2. /\ pc[r] = "end" /\ pc'[r] = "done" /\ UNCHANGED <<state, raised>>
        /\ raised[r] # {} => reply'[r].status = "503"
        /\ raised[r] = {} =>
             reply'[r] = [status |-> "200",
                          source_language |->
                            IF state[r].source_language = Absent THEN "en"
                            ELSE state[r].source_language,
                          translation |-> state[r].translation,
                          summary |-> state[r].summary]
    BY <1>12, <2>1 DEF Respond, Answer, TypeOK
  <2>3. CASE raised[r] # {}
    BY <2>2, <2>3 DEF OutcomeOf, NoOutputs, Actions
  <2>4. CASE raised[r] = {}
    <3>1. OutputsMatch(r, state[r])
      BY <2>2, <2>4 DEF OutcomeOf
    <3>2. OutputsMatch(r, reply'[r]) /\ reply'[r].status = "200"
      BY <2>2, <2>4, <3>1 DEF OutputsMatch
    <3> QED BY <2>2, <2>4, <3>2 DEF OutcomeOf, OutputsMatch, Actions
  <2> QED BY <2>3, <2>4
<1> QED
  BY <1>3, <1>4, <1>5, <1>7, <1>8, <1>9, <1>10, <1>11, <1>12 DEF StepOf, Step

\* If exceptions have texts, state and response tell what happened.
LEMMA OutcomeStep ==
  ErrorsHaveText /\ TypeOK /\ Progress /\ Outcome /\ [Next]_vars => Outcome'
<1> SUFFICES ASSUME ErrorsHaveText, TypeOK, Progress, Outcome, [Next]_vars,
                    NEW q \in Requests
             PROVE  OutcomeOf(q)'
  BY DEF Outcome
<1>1. ProgressOf(q) /\ OutcomeOf(q)
  BY DEF Progress, Outcome
<1>2. CASE StepOf(q)
  BY <1>1, <1>2, OutcomeOfStep
<1>3. ASSUME NEW r \in Requests \ {q}, StepOf(r) PROVE OutcomeOf(q)'
  <2>1. OthersKeep(r)
    BY <1>3, StepKeepsOthers
  <2> QED BY <1>1, <2>1 DEF OthersKeep, OutcomeOf, NoOutputs, OutputsMatch
<1>4. CASE UNCHANGED <<pc, count, state, reply, counted, raised>>
  BY <1>1, <1>4 DEF OutcomeOf, NoOutputs, OutputsMatch
<1> QED BY <1>2, <1>3, <1>4, NextSteps

-----------------------------------------------------------------------------
(***************************************************************************)
(* The rate limit.                                                         *)
(***************************************************************************)
\* Requests counted or passed are finitely many.
LEMMA CountedIsFinite ==
  ASSUME NEW u, NEW w
  PROVE  /\ IsFiniteSet(CountedIn(u, w)) /\ Cardinality(CountedIn(u, w)) \in Nat
         /\ IsFiniteSet(PassedIn(u, w)) /\ Cardinality(PassedIn(u, w)) \in Nat
<1>1. CountedIn(u, w) \subseteq Requests /\ PassedIn(u, w) \subseteq Requests
  BY DEF CountedIn, PassedIn
<1>2. IsFiniteSet(CountedIn(u, w)) /\ IsFiniteSet(PassedIn(u, w))
  BY <1>1, RequestsAssumption, FS_Subset
<1> QED BY <1>2, FS_CardinalityType

\* Only CountRequest counts, and only it answers 429.
LEMMA OthersDoNotCount ==
  ASSUME TypeOK, Progress, [Next]_vars,
         \A r \in Requests : ~CountRequest(r)
  PROVE  /\ UNCHANGED <<count, counted>>
         /\ \A q \in Requests :
              reply'[q].status = "429" <=> reply[q].status = "429"
<1> USE DEF TypeOK, Goto, Answer
<1>1. ASSUME NEW r \in Requests, pc[r] # "done", NEW response,
             reply' = [reply EXCEPT ![r] = response], response.status # "429"
      PROVE  \A q \in Requests :
               reply'[q].status = "429" <=> reply[q].status = "429"
  <2>1. reply[r].status = "none"
    BY <1>1 DEF Progress, ProgressOf, NoReply
  <2> QED BY <1>1, <2>1
<1>2. ASSUME NEW r \in Requests, CountFails(r) \/ ValidateFails(r) \/ KillWorker(r)
      PROVE  /\ UNCHANGED <<count, counted>>
             /\ \A q \in Requests :
                  reply'[q].status = "429" <=> reply[q].status = "429"
  <2>1. CASE CountFails(r)
    BY <1>1, <2>1 DEF CountFails
  <2>2. CASE ValidateFails(r)
    BY <1>1, <2>2 DEF ValidateFails
  <2>3. CASE KillWorker(r)
    BY <1>1, <2>3 DEF KillWorker, Nodes, Actions
  <2> QED BY <1>2, <2>1, <2>2, <2>3
<1>3. ASSUME NEW r \in Requests, Respond(r)
      PROVE  /\ UNCHANGED <<count, counted>>
             /\ \A q \in Requests :
                  reply'[q].status = "429" <=> reply[q].status = "429"
  <2> DEFINE st == state[r]
             response == IF HasError(st) THEN [status |-> "503", detail |-> st.error]
                         ELSE [status |-> "200",
                               source_language |-> IF st.source_language = Absent
                                                   THEN "en" ELSE st.source_language,
                               translation |-> st.translation,
                               summary |-> st.summary]
  <2>1. reply' = [reply EXCEPT ![r] = response] /\ pc[r] # "done"
    BY <1>3 DEF Respond
  <2>2. response.status # "429"
    OBVIOUS
  <2> HIDE DEF response
  <2> QED BY <1>1, <1>3, <2>1, <2>2 DEF Respond
<1>4. ASSUME NEW r \in Requests,
             \/ TakeRequest(r) \/ Validate(r) \/ DetectLang(r) \/ TranslateNode(r)
             \/ SummarizeNode(r) \/ NodeRaises(r) \/ FallbackNode(r)
      PROVE  UNCHANGED <<count, counted, reply>>
  BY <1>4
  DEF TakeRequest, Validate, DetectLang, TranslateNode, SummarizeNode,
      NodeReturns, NodeRaises, FallbackNode
<1>5. CASE UNCHANGED <<pc, count, state, reply, counted, raised>>
  BY <1>5
<1> QED BY <1>2, <1>3, <1>4, <1>5, NextSteps DEF StepOf, Step

\* Counters and limit stay exact.
LEMMA LimitStep ==
  /\ TypeOK /\ Progress /\ CountersAreExact /\ LimitIsExact /\ [Next]_vars
  => CountersAreExact' /\ LimitIsExact'
<1> SUFFICES ASSUME TypeOK, Progress, CountersAreExact, LimitIsExact, [Next]_vars,
                    NEW u \in Users, NEW w \in Windows
             PROVE  /\ count'[u][w] = Cardinality(CountedIn(u, w)')
                    /\ Cardinality(PassedIn(u, w)') =
                         IF Cardinality(CountedIn(u, w)') < Limit
                         THEN Cardinality(CountedIn(u, w)') ELSE Limit
  BY DEF CountersAreExact, LimitIsExact
<1> DEFINE asked == Cardinality(CountedIn(u, w))
           passed == Cardinality(PassedIn(u, w))
<1>1. /\ count[u][w] = asked
      /\ passed = IF asked < Limit THEN asked ELSE Limit
      /\ asked \in Nat /\ passed \in Nat /\ Limit \in Nat
  BY CountedIsFinite, LimitsAssumption DEF CountersAreExact, LimitIsExact
<1>2. CASE \A r \in Requests : ~CountRequest(r)
  <2>1. /\ UNCHANGED <<count, counted>>
        /\ \A q \in Requests :
              reply'[q].status = "429" <=> reply[q].status = "429"
    BY <1>2, OthersDoNotCount
  <2>2. CountedIn(u, w)' = CountedIn(u, w) /\ PassedIn(u, w)' = PassedIn(u, w)
    BY <2>1 DEF CountedIn, PassedIn
  <2> QED BY <1>1, <2>1, <2>2
<1>3. ASSUME NEW r \in Requests, CountRequest(r)
      PROVE  /\ count'[u][w] = Cardinality(CountedIn(u, w)')
             /\ Cardinality(PassedIn(u, w)') =
                  IF Cardinality(CountedIn(u, w)') < Limit
                  THEN Cardinality(CountedIn(u, w)') ELSE Limit
  <2>1. /\ counted[r] = -1 /\ reply[r].status = "none"
        /\ counted' = [counted EXCEPT ![r] = window]
        /\ UserOf[r] \in Users
    BY <1>3, RequestsAssumption
    DEF CountRequest, Progress, ProgressOf, NoReply
  <2>2. \A q \in Requests \ {r} : counted'[q] = counted[q] /\ reply'[q] = reply[q]
    BY <1>3, StepKeepsOthers DEF StepOf, Step, OthersKeep
  <2>3. CASE u = UserOf[r] /\ w = window
    <3>1. r \notin CountedIn(u, w) /\ r \notin PassedIn(u, w)
      BY <2>1, <2>3, LimitsAssumption DEF CountedIn, PassedIn, Windows
    <3>2. counted'[r] = w
      BY <2>1, <2>3 DEF TypeOK
    <3>3. CountedIn(u, w)' = CountedIn(u, w) \cup {r}
      BY <2>2, <2>3, <3>2 DEF CountedIn
    <3>4. Cardinality(CountedIn(u, w)') = asked + 1
      BY <3>1, <3>3, CountedIsFinite, FS_AddElement
    <3>5. count'[u][w] = asked + 1
      BY <1>1, <1>3, <2>3 DEF CountRequest, TypeOK
    <3>6. CASE asked + 1 > Limit
      <4>1. reply'[r].status = "429"
        <5>1. reply' = [reply EXCEPT ![r] = [status |-> "429"]]
          BY <1>1, <1>3, <2>3, <3>6 DEF CountRequest, Answer
        <5> QED BY <5>1 DEF TypeOK
      <4>2. PassedIn(u, w)' = PassedIn(u, w)
        <5>1. \A q \in CountedIn(u, w) : q \in Requests \ {r}
          BY <3>1 DEF CountedIn
        <5> QED BY <2>2, <3>3, <4>1, <5>1 DEF PassedIn
      <4> QED BY <1>1, <3>4, <3>5, <3>6, <4>2
    <3>7. CASE ~(asked + 1 > Limit)
      <4>1. reply'[r].status = "none"
        BY <1>1, <1>3, <2>1, <2>3, <3>7 DEF CountRequest
      <4>2. PassedIn(u, w)' = PassedIn(u, w) \cup {r}
        BY <2>2, <3>3, <4>1 DEF PassedIn, CountedIn
      <4>3. Cardinality(PassedIn(u, w)') = passed + 1
        BY <3>1, <4>2, CountedIsFinite, FS_AddElement
      <4> QED BY <1>1, <3>4, <3>5, <3>7, <4>3
    <3> QED BY <3>6, <3>7
  <2>4. CASE ~(u = UserOf[r] /\ w = window)
    <3>1. CountedIn(u, w)' = CountedIn(u, w)
      <4>1. counted'[r] = window /\ w # -1
        BY <2>1, LimitsAssumption DEF TypeOK, Windows
      <4> QED BY <2>1, <2>2, <2>4, <4>1 DEF CountedIn
    <3>2. r \notin CountedIn(u, w)
      BY <2>1, LimitsAssumption DEF CountedIn, Windows
    <3>3. PassedIn(u, w)' = PassedIn(u, w)
      BY <2>2, <3>1, <3>2 DEF PassedIn, CountedIn
    <3>4. count'[u][w] = count[u][w]
      BY <1>3, <2>1, <2>4 DEF CountRequest, TypeOK
    <3> QED BY <1>1, <3>1, <3>3, <3>4
  <2> QED BY <2>3, <2>4
<1> QED BY <1>2, <1>3

-----------------------------------------------------------------------------
(***************************************************************************)
(* The theorems.                                                           *)
(***************************************************************************)
\* The invariant of AiPipeline is one.
THEOREM PipelineInvariance == Spec => []IInv
<1>1. Init => IInv
  <2> SUFFICES ASSUME Init PROVE IInv
    OBVIOUS
  <2>1. TypeOK
    BY LimitsAssumption
    DEF Init, TypeOK, Windows, EmptyState, GraphStates, MaybeLang, NoReply,
        Responses
  <2>2. Progress
    BY DEF Init, Progress, ProgressOf, Actions
  <2>3. Outcome
    BY DEF Init, Outcome, OutcomeOf, NoOutputs, EmptyState, NoReply, Actions
  <2>4. ASSUME NEW u \in Users, NEW w \in Windows
        PROVE  /\ count[u][w] = 0
               /\ CountedIn(u, w) = {} /\ PassedIn(u, w) = {}
    BY <2>4, LimitsAssumption DEF Init, CountedIn, PassedIn, Windows
  <2>5. CountersAreExact /\ LimitIsExact
    BY <2>4, FS_EmptySet, LimitsAssumption DEF CountersAreExact, LimitIsExact
  <2> QED BY <2>1, <2>2, <2>3, <2>5 DEF IInv
<1>2. IInv /\ [Next]_vars => IInv'
  <2>1. ErrorsHaveText' = ErrorsHaveText
    BY DEF ErrorsHaveText
  <2> QED BY <2>1, TypeStep, ProgressStep, OutcomeStep, LimitStep DEF IInv
<1> QED BY <1>1, <1>2, PTL DEF Spec

\* ratelimit(rate=LLM_RATE_LIMIT) lets through exactly as many requests of a
\* user and window as it says, for any number of workers and requests.
THEOREM Limited == Spec => []LimitIsExact
<1>1. IInv => LimitIsExact
  BY DEF IInv
<1> QED BY <1>1, PipelineInvariance, PTL

\* If no exception has an empty text, a 200 carries the output that was asked
\* for and no other: the comment on GraphState.
THEOREM OneOutput == ErrorsHaveText => (Spec => []ExactlyOneOutput)
<1> SUFFICES ASSUME ErrorsHaveText PROVE Spec => []ExactlyOneOutput
  OBVIOUS
<1>1. IInv => ExactlyOneOutput
  BY DEF IInv, Outcome, OutcomeOf, OutputsMatch, ExactlyOneOutput
<1> QED BY <1>1, PipelineInvariance, PTL

\* If no exception has an empty text, 503 is answered only when a node raised,
\* the one the state names, and 200 only when none did.
THEOREM FailureTold == ErrorsHaveText => (Spec => []StatusTellsFailure)
<1> SUFFICES ASSUME ErrorsHaveText PROVE Spec => []StatusTellsFailure
  OBVIOUS
<1>1. IInv => StatusTellsFailure
  BY DEF IInv, Outcome, OutcomeOf, StatusTellsFailure
<1> QED BY <1>1, PipelineInvariance, PTL

\* If no exception has an empty text, a request of which a node raised has no
\* output.
THEOREM NoHalfResults == ErrorsHaveText => (Spec => []FailureLeavesNoOutput)
<1> SUFFICES ASSUME ErrorsHaveText PROVE Spec => []FailureLeavesNoOutput
  OBVIOUS
<1>1. IInv => FailureLeavesNoOutput
  BY DEF IInv, Outcome, OutcomeOf, NoOutputs, FailureLeavesNoOutput
<1> QED BY <1>1, PipelineInvariance, PTL

\* If no exception has an empty text, a summary is in the language that the
\* response says was detected, and that is one of the six.
THEOREM SummaryLanguage ==
  ErrorsHaveText => (Spec => []SummaryIsInDetectedLanguage)
<1> SUFFICES ASSUME ErrorsHaveText PROVE Spec => []SummaryIsInDetectedLanguage
  OBVIOUS
<1>1. IInv => SummaryIsInDetectedLanguage
  <2> SUFFICES ASSUME IInv, NEW r \in Requests, reply[r].status = "200"
               PROVE  /\ reply[r].source_language \in LangCodes
                      /\ ActionOf[r] = "summarize" =>
                           reply[r].summary = reply[r].source_language
    BY DEF SummaryIsInDetectedLanguage
  <2>1. reply[r] \in Responses
    BY DEF IInv, TypeOK
  <2>2. reply[r].source_language \in LangCodes
    BY <2>1 DEF Responses
  <2>3. OutputsMatch(r, reply[r])
    BY DEF IInv, Outcome, OutcomeOf
  <2> QED BY <2>2, <2>3 DEF OutputsMatch
<1> QED BY <1>1, PipelineInvariance, PTL

-----------------------------------------------------------------------------
(***************************************************************************)
(* Progress, as long as a request with a worker has a next step.           *)
(***************************************************************************)
\* How far a request is from its end.
Stage(r) ==
  IF pc[r] = "new" THEN 8 ELSE IF pc[r] = "limit" THEN 7 ELSE IF pc[r] = "validate" THEN 6
  ELSE IF pc[r] = "detect_lang" THEN 5 ELSE IF pc[r] \in Actions THEN 4
  ELSE IF pc[r] = "fallback" THEN 3 ELSE IF pc[r] = "end" THEN 2 ELSE 1

\* r has been taken and has fewer than n steps left.
Under(r, n) == pc[r] # "new" /\ Stage(r) < n

\* Every step of a request brings it closer to its end: the graph has no cycle,
\* and no error handler goes back.
LEMMA StageFalls ==
  ASSUME TypeOK, NEW r \in Requests, Step(r)
  PROVE  pc'[r] # "new" /\ Stage(r)' < Stage(r)
<1> USE DEF TypeOK, Goto, Answer, Stage, Actions
<1>1. CASE TakeRequest(r)
  BY <1>1 DEF TakeRequest
<1>2. CASE CountRequest(r)
  BY <1>2 DEF CountRequest
<1>3. CASE CountFails(r) \/ ValidateFails(r) \/ Validate(r)
  BY <1>3 DEF CountFails, ValidateFails, Validate
<1>4. ASSUME NEW node \in Nodes, NEW st, Goto(r, node, EdgeOf(node, r, st))
      PROVE  pc'[r] # "new" /\ Stage(r)' < Stage(r)
  <2>1. pc[r] = node /\ pc'[r] = EdgeOf(node, r, st)
    BY <1>4
  <2>2. EdgeOf(node, r, st) \in Actions \cup {"fallback", "end"}
    BY EdgeLeadsOn
  <2>3. node # "detect_lang" => EdgeOf(node, r, st) \in {"fallback", "end"}
    BY DEF EdgeOf, AfterAction
  <2> QED BY <2>1, <2>2, <2>3 DEF Nodes
<1>5. CASE DetectLang(r) \/ TranslateNode(r) \/ SummarizeNode(r)
  BY <1>4, <1>5 DEF DetectLang, TranslateNode, SummarizeNode, NodeReturns, Nodes
<1>6. CASE NodeRaises(r)
  BY <1>4, <1>6 DEF NodeRaises
<1>7. CASE FallbackNode(r)
  <2>1. Goto(r, "fallback", "end")
    BY <1>7 DEF FallbackNode
  <2> QED BY <2>1
<1>8. CASE Respond(r)
  BY <1>8 DEF Respond
<1> QED
  BY <1>1, <1>2, <1>3, <1>5, <1>6, <1>7, <1>8 DEF Step

\* Only its own steps and the loss of its worker move a request.
LEMMA OthersDoNotMove ==
  ASSUME TypeOK, NEW r \in Requests, [Next]_vars
  PROVE  Step(r) \/ pc'[r] = "done" \/ pc'[r] = pc[r]
<1>1. ASSUME NEW q \in Requests, StepOf(q) PROVE q = r \/ pc'[r] = pc[r]
  BY <1>1, StepKeepsOthers DEF OthersKeep
<1>2. KillWorker(r) => pc'[r] = "done"
  BY DEF KillWorker, Answer, TypeOK
<1> QED BY <1>1, <1>2, NextSteps DEF StepOf

\* Nothing moves a request away from its end.
LEMMA UnderStep ==
  ASSUME TypeOK, NEW r \in Requests, NEW n \in Nat, Under(r, n + 1), pc[r] # "done", [Next]_vars
  PROVE  \/ pc'[r] = "done"
         \/ Under(r, n + 1)' /\ (Step(r) => Under(r, n)')
<1>1. CASE Step(r)
  <2>1. Stage(r) \in Nat /\ Stage(r)' \in Nat
    BY DEF Stage
  <2> QED BY <1>1, <2>1, StageFalls DEF Under
<1>2. CASE ~Step(r) /\ pc'[r] = pc[r]
  BY <1>2 DEF Under, Stage
<1> QED BY <1>1, <1>2, OthersDoNotMove

\* A request that a worker has taken ends, whichever nodes raise and whatever
\* the others do: no exception and no edge of the graph leaves it without a
\* response, as long as a request with a worker has a next step.
THEOREM TakenEnds ==
  ASSUME NEW r \in Requests
  PROVE  Spec /\ []RequestsCanMove => (pc[r] # "new" ~> pc[r] = "done")
<1> DEFINE Done == pc[r] = "done"
           F(n) == Spec /\ []RequestsCanMove => (Under(r, n) ~> Done)
<1>1. F(0)
  <2>1. ~Under(r, 0)
    BY DEF Under, Stage
  <2> QED BY <2>1, PTL
<1>2. ASSUME NEW n \in Nat PROVE F(n) => F(n + 1)
  <2>1. TypeOK /\ Under(r, n + 1) /\ ~Done /\ [Next]_vars => Under(r, n + 1)' \/ Done'
    BY UnderStep
  <2>2. TypeOK /\ Under(r, n + 1) /\ ~Done /\ <<Step(r)>>_vars => Under(r, n)' \/ Done'
    <3>1. Step(r) => Next
      BY DEF Next
    <3> QED BY <3>1, UnderStep
  <2>3. RequestsCanMove /\ TypeOK /\ Under(r, n + 1) /\ ~Done => ENABLED <<Step(r)>>_vars
    BY DEF RequestsCanMove, TypeOK, Under
  <2>4. Fairness => Fair(r)
    BY DEF Fairness
  <2> HIDE DEF Done
  <2> QED BY <2>1, <2>2, <2>3, <2>4, PipelineTypes, PTL DEF Spec, Fair
<1>3. F(9)
  <2> HIDE DEF F
  <2> QED BY <1>1, <1>2
<1>4. pc[r] # "new" => Under(r, 9)
  BY DEF Under, Stage
<1> QED BY <1>3, <1>4, PTL

=============================================================================
