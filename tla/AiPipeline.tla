----------------------------- MODULE AiPipeline -----------------------------
(***************************************************************************)
(* POST /api/ai/process/: the rate limit, the validation, the LangGraph of *)
(* src/app/ai/graph.py with the nodes of src/app/ai/nodes.py, and the      *)
(* response AIProcessView makes of the final graph state.  Requests run in *)
(* a few gunicorn workers, each busy with one request at a time, and share *)
(* the counters of the rate limit in Redis.                                *)
(*                                                                         *)
(* Texts are abstracted: an LLM reply to a translation is "text", a        *)
(* summary is the language it was asked for, a language reply is the two   *)
(* letters that _normalise_lang_code looks at.                             *)
(***************************************************************************)
EXTENDS Integers, FiniteSets

CONSTANTS
  Requests,    \* requests, each of an authenticated user
  Users,
  UserOf,      \* Requests -> Users
  ActionOf,    \* Requests -> Actions
  Workers,     \* number of gunicorn workers
  Limit,       \* LLM_RATE_LIMIT: requests per user and window
  MaxWindow,   \* bound: last window of the rate limit
  Replies,     \* what the LLM may answer to detect_lang
  ErrorTexts,  \* str(exc) of what a node may raise; "" is a legal one
  Faults       \* subset of {"cache", "kill"}

Actions == {"translate", "summarize"}
LangCodes == {"ru", "en", "uk", "fr", "es", "de"}
Nodes == Actions \cup {"detect_lang"}
Absent == "absent"

ASSUME RequestsAssumption ==
  /\ IsFiniteSet(Requests)
  /\ UserOf \in [Requests -> Users]
  /\ ActionOf \in [Requests -> Actions]

ASSUME LimitsAssumption ==
  /\ Workers \in Nat \ {0}
  /\ Limit \in Nat
  /\ MaxWindow \in Nat

\* An exception text is not one of the values the code writes itself.
ASSUME ErrorTextsAssumption ==
  /\ ErrorTexts \cap {Absent, "unknown error"} = {}
  /\ Faults \subseteq {"cache", "kill"}

VARIABLES
  pc,      \* pc[r]: where request r is
  window,  \* the current window of the rate limit
  count,   \* count[u][w]: the counter of user u in window w
  state,   \* state[r]: the GraphState of r
  reply,   \* reply[r]: the response, [status |-> "none"] before it
  \* History
  counted, \* counted[r]: the window r was counted in, -1 if none
  raised   \* raised[r]: the nodes of r that raised

vars == <<pc, window, count, state, reply, counted, raised>>

InGraph == Nodes \cup {"fallback", "end"}
Busy == InGraph \cup {"limit", "validate"}

Windows == 0..MaxWindow

\* The keys of GraphState that nodes write; Absent stands for a missing key.
EmptyState ==
  [error |-> Absent, failed_node |-> Absent, source_language |-> Absent,
   translation |-> Absent, summary |-> Absent]

NoReply == [status |-> "none"]

\* state.get("error") as a condition: missing and "" are both false.
HasError(st) == st.error \notin {Absent, ""}

Init ==
  /\ pc = [r \in Requests |-> "new"]
  /\ window = 0
  /\ count = [u \in Users |-> [w \in Windows |-> 0]]
  /\ state = [r \in Requests |-> EmptyState]
  /\ reply = [r \in Requests |-> NoReply]
  /\ counted = [r \in Requests |-> -1]
  /\ raised = [r \in Requests |-> {}]

Goto(r, from, to) == pc[r] = from /\ pc' = [pc EXCEPT ![r] = to]

\* The response ends the request and frees its worker.
Answer(r, response) ==
  /\ pc' = [pc EXCEPT ![r] = "done"]
  /\ reply' = [reply EXCEPT ![r] = response]

(***************************************************************************)
(* From the socket to the graph.                                           *)
(***************************************************************************)
\* A worker that is free takes the request; authentication has no effects.
TakeRequest(r) ==
  /\ Goto(r, "new", "limit")
  /\ Cardinality({q \in Requests : pc[q] \in Busy}) < Workers
  /\ UNCHANGED <<window, count, state, reply, counted, raised>>

\* Slip: the counter is compared before it is incremented.
CountRequestLate(r) ==
  LET u == UserOf[r]
      n == count[u][window]
  IN /\ pc[r] = "limit"
     /\ count' = [count EXCEPT ![u][window] = n + 1]
     /\ counted' = [counted EXCEPT ![r] = window]
     /\ IF n > Limit THEN Answer(r, [status |-> "429"])
        ELSE Goto(r, "limit", "validate") /\ UNCHANGED reply
     /\ UNCHANGED <<window, state, raised>>

\* The ratelimit decorator counts first: one atomic add-or-incr of the key of
\* this user and window.  Beyond the limit Ratelimited becomes a 429.
CountRequest(r) ==
  LET u == UserOf[r]
      n == count[u][window] + 1
  IN /\ pc[r] = "limit"
     /\ count' = [count EXCEPT ![u][window] = n]
     /\ counted' = [counted EXCEPT ![r] = window]
     /\ IF n > Limit THEN Answer(r, [status |-> "429"])
        ELSE Goto(r, "limit", "validate") /\ UNCHANGED reply
     /\ UNCHANGED <<window, state, raised>>

\* Redis does not answer the counter: nobody catches the exception.
CountFails(r) ==
  /\ "cache" \in Faults
  /\ pc[r] = "limit"
  /\ Answer(r, [status |-> "500"])
  /\ UNCHANGED <<window, count, state, counted, raised>>

\* A field is missing or out of range: the request has already been counted.
ValidateFails(r) ==
  /\ pc[r] = "validate"
  /\ Answer(r, [status |-> "400"])
  /\ UNCHANGED <<window, count, state, counted, raised>>

Validate(r) ==
  /\ Goto(r, "validate", "detect_lang")
  /\ UNCHANGED <<window, count, state, reply, counted, raised>>

(***************************************************************************)
(* The graph.  A node and the edge that leaves it are one step: the state  *)
(* of a run is its own.                                                    *)
(***************************************************************************)
\* Slip: the reply is passed on as it is.
NormaliseNothing(raw) == raw

\* _normalise_lang_code: what is not a code counts as English.
NormaliseLangCode(raw) == IF raw \in LangCodes THEN raw ELSE "en"

\* Slip: the router looks at the action only.
ConditionRouterOnAction(r, st) == ActionOf[r]

\* condition_router, behind detect_lang.
ConditionRouter(r, st) == IF HasError(st) THEN "fallback" ELSE ActionOf[r]

\* Slip: an action that failed is tried again.
AfterActionRetry(r, st) == IF HasError(st) THEN ActionOf[r] ELSE "end"

\* The edges behind translate and summarize.
AfterAction(r, st) == IF HasError(st) THEN "fallback" ELSE "end"

EdgeOf(node, r, st) ==
  IF node = "detect_lang" THEN ConditionRouter(r, st) ELSE AfterAction(r, st)

\* The node returned: its update is merged into the state.
NodeReturns(r, node, st) ==
  /\ Goto(r, node, EdgeOf(node, r, st))
  /\ state' = [state EXCEPT ![r] = st]
  /\ UNCHANGED <<window, count, reply, counted, raised>>

DetectLang(r) ==
  \E raw \in Replies :
    NodeReturns(r, "detect_lang",
      [state[r] EXCEPT !.source_language = NormaliseLangCode(raw)])

TranslateNode(r) ==
  NodeReturns(r, "translate", [state[r] EXCEPT !.translation = "text"])

\* The summary is asked for in state.get("source_language", "en").
SummarizeNode(r) ==
  LET lang == IF state[r].source_language = Absent THEN "en"
              ELSE state[r].source_language
  IN NodeReturns(r, "summarize", [state[r] EXCEPT !.summary = lang])

\* The wrapper _safe: the exception becomes an update of the state.
NodeRaises(r) ==
  \E node \in Nodes, e \in ErrorTexts :
    LET st == [state[r] EXCEPT !.error = e, !.failed_node = node]
    IN /\ Goto(r, node, EdgeOf(node, r, st))
       /\ state' = [state EXCEPT ![r] = st]
       /\ raised' = [raised EXCEPT ![r] = @ \cup {node}]
       /\ UNCHANGED <<window, count, reply, counted>>

FallbackNode(r) ==
  /\ Goto(r, "fallback", "end")
  /\ state' = [state EXCEPT ![r].error = IF @ = Absent THEN "unknown error" ELSE @]
  /\ UNCHANGED <<window, count, reply, counted, raised>>

(***************************************************************************)
(* The response.                                                           *)
(***************************************************************************)
\* Slip: the view looks for outputs before it looks for an error.
RespondWithoutError(r) ==
  /\ pc[r] = "end"
  /\ Answer(r, [status |-> "200",
                source_language |-> IF state[r].source_language = Absent
                                    THEN "en" ELSE state[r].source_language,
                translation |-> state[r].translation,
                summary |-> state[r].summary])
  /\ UNCHANGED <<window, count, state, counted, raised>>

\* 503 with the error, or 200 with the outputs that are set.
Respond(r) ==
  LET st == state[r]
  IN /\ pc[r] = "end"
     /\ Answer(r, IF HasError(st) THEN [status |-> "503", detail |-> st.error]
                  ELSE [status |-> "200",
                        source_language |-> IF st.source_language = Absent
                                            THEN "en" ELSE st.source_language,
                        translation |-> st.translation,
                        summary |-> st.summary])
     /\ UNCHANGED <<window, count, state, counted, raised>>

\* gunicorn kills a worker whose request outlasts --timeout: no response.
KillWorker(r) ==
  /\ "kill" \in Faults
  /\ pc[r] \in Nodes
  /\ Answer(r, [status |-> "dropped"])
  /\ UNCHANGED <<window, count, state, counted, raised>>

\* A new window starts with new keys.
NextWindow ==
  /\ window < MaxWindow
  /\ window' = window + 1
  /\ UNCHANGED <<pc, count, state, reply, counted, raised>>

\* All requests of this instance have been answered.
Quiet ==
  /\ \A r \in Requests : pc[r] = "done"
  /\ UNCHANGED vars

(***************************************************************************)
(* Specification.  Workers are fair: accepted requests are taken, and an   *)
(* LLM call ends, with a reply or the client's time-out.                   *)
(***************************************************************************)
Step(r) ==
  \/ TakeRequest(r) \/ CountRequest(r) \/ CountFails(r)
  \/ ValidateFails(r) \/ Validate(r)
  \/ DetectLang(r) \/ TranslateNode(r) \/ SummarizeNode(r) \/ NodeRaises(r)
  \/ FallbackNode(r) \/ Respond(r)

Next ==
  \/ \E r \in Requests : Step(r) \/ KillWorker(r)
  \/ NextWindow
  \/ Quiet

Fair(r) == WF_vars(Step(r))
Fairness == \A r \in Requests : Fair(r)

Spec == Init /\ [][Next]_vars /\ Fairness

\* No node waits for another request: a request with a worker has a next step.
RequestsCanMove ==
  \A r \in Requests : pc[r] \in Busy => ENABLED <<Step(r)>>_vars

-----------------------------------------------------------------------------
(***************************************************************************)
(* Properties.                                                             *)
(***************************************************************************)
MaybeLang == LangCodes \cup {Absent}

GraphStates ==
  [error : ErrorTexts \cup {Absent, "unknown error"},
   failed_node : Nodes \cup {Absent},
   source_language : MaybeLang,
   translation : {Absent, "text"},
   summary : MaybeLang]

Responses ==
  [status : {"none", "400", "429", "500", "dropped"}]
  \cup [status : {"503"}, detail : ErrorTexts \cup {"unknown error"}]
  \cup [status : {"200"}, source_language : LangCodes,
        translation : {Absent, "text"}, summary : MaybeLang]

\* Every variable has its type.
TypeOK ==
  /\ pc \in [Requests -> Busy \cup {"new", "done"}]
  /\ window \in Windows
  /\ count \in [Users -> [Windows -> Nat]]
  /\ state \in [Requests -> GraphStates]
  /\ reply \in [Requests -> Responses]
  /\ counted \in [Requests -> Windows \cup {-1}]
  /\ raised \in [Requests -> SUBSET Nodes]

CountedIn(u, w) == {r \in Requests : UserOf[r] = u /\ counted[r] = w}
PassedIn(u, w) == {r \in CountedIn(u, w) : reply[r].status # "429"}

\* In each window a user has exactly as many requests let through as the
\* limit allows and as were counted, however requests of this user and of
\* others interleave in the workers.
LimitIsExact ==
  \A u \in Users, w \in Windows :
    Cardinality(PassedIn(u, w)) = IF Cardinality(CountedIn(u, w)) < Limit
                                 THEN Cardinality(CountedIn(u, w)) ELSE Limit

\* The comment on GraphState: on success exactly one of the outputs is set,
\* the one that was asked for.
ExactlyOneOutput ==
  \A r \in Requests : reply[r].status = "200" =>
    /\ reply[r].translation # Absent <=> ActionOf[r] = "translate"
    /\ reply[r].summary # Absent <=> ActionOf[r] = "summarize"

\* docs/api/rest.md: 503 says that a node raised, and only one can have, the
\* one the state names; 200 says that none did.
StatusTellsFailure ==
  \A r \in Requests :
    /\ reply[r].status = "503" => raised[r] = {state[r].failed_node}
    /\ reply[r].status = "200" => raised[r] = {}

\* A request of which a node raised has no output in its state.
FailureLeavesNoOutput ==
  \A r \in Requests : raised[r] # {} =>
    state[r].translation = Absent /\ state[r].summary = Absent

\* docs/api/rest.md: a summary is in the language that was detected, which the
\* response names, whatever the LLM answered to detect_lang.
SummaryIsInDetectedLanguage ==
  \A r \in Requests :
    /\ reply[r].status = "200" => reply[r].source_language \in LangCodes
    /\ reply[r].status = "200" /\ ActionOf[r] = "summarize" =>
         reply[r].summary = reply[r].source_language

\* Every request is answered, or dropped with its worker, although there are
\* fewer workers than requests.
EveryRequestEnds == \A r \in Requests : <>(pc[r] = "done")

(***************************************************************************)
(* The inductive invariant behind the safety properties.                   *)
(***************************************************************************)
\* No exception that a node may raise has an empty text.
ErrorsHaveText == "" \notin ErrorTexts

\* What is set, and what is not yet, wherever a request is.
ProgressOf(r) ==
  /\ pc[r] = "done" <=> reply[r] # NoReply
  /\ pc[r] \in {"new", "limit"} => counted[r] = -1
  /\ pc[r] \in {"new", "limit", "validate", "detect_lang"} =>
       state[r] = EmptyState /\ raised[r] = {}
  /\ pc[r] \in Actions => pc[r] = ActionOf[r]

Progress == \A r \in Requests : ProgressOf(r)

\* The outputs are those of a request that succeeded.
OutputsMatch(r, out) ==
  /\ out.source_language # Absent
  /\ out.translation # Absent <=> ActionOf[r] = "translate"
  /\ out.summary = IF ActionOf[r] = "summarize" THEN out.source_language
                   ELSE Absent

NoOutputs(st) == st.translation = Absent /\ st.summary = Absent

\* The state tells whether a node raised, and so does the response.
OutcomeOf(r) ==
  /\ IF raised[r] = {} THEN state[r].error = Absent
     ELSE /\ raised[r] = {state[r].failed_node}
          /\ state[r].error \in ErrorTexts
          /\ NoOutputs(state[r])
  /\ pc[r] \in Actions =>
       /\ raised[r] = {}
       /\ state[r].source_language # Absent
       /\ NoOutputs(state[r])
  /\ pc[r] = "fallback" => raised[r] # {}
  /\ pc[r] = "end" /\ raised[r] = {} => OutputsMatch(r, state[r])
  /\ reply[r].status = "503" => raised[r] # {}
  /\ reply[r].status = "200" => raised[r] = {} /\ OutputsMatch(r, reply[r])

Outcome == \A r \in Requests : OutcomeOf(r)

\* A counter holds how many requests were counted in its window.
CountersAreExact ==
  \A u \in Users, w \in Windows :
    count[u][w] = Cardinality(CountedIn(u, w))

IInv ==
  /\ TypeOK /\ Progress /\ CountersAreExact /\ LimitIsExact
  /\ ErrorsHaveText => Outcome

=============================================================================
