------------------------- MODULE ConversationProofs -------------------------
(***************************************************************************)
(* What becomes of a prompt's data, for any texts, profiles, decisions,    *)
(* histories and outcomes, and conversations of any length.                *)
(***************************************************************************)
EXTENDS Conversation, SequenceTheorems, TLAPS

-----------------------------------------------------------------------------
(* Requests                                                                *)

\* A list of exchanges a prompt may replay.
Replayable(history) ==
    /\ history \in Seq(Exchange)
    /\ \A i \in 1..Len(history) : ValidTurn(history[i])

\* Every history a valid body brings is one.
LEMMA ValidHistory ==
    ASSUME NEW b \in Bodies, ValidRequest(b), Replayable(turns)
    PROVE  Replayable(HistoryOf(b)) /\ b.message \in Texts
<1>1. b.message \in Texts
    BY TextsAssumption DEF Bodies, ValidRequest, NotBlank, IsText
<1>2. CASE b.history = Absent
    BY <1>1, <1>2, EmptySeq DEF HistoryOf, Replayable
<1>3. CASE b.history = turns /\ b.history # Absent
    BY <1>1, <1>3 DEF HistoryOf
<1>4. CASE b.history \in Histories /\ b.history # Absent
    <2> DEFINE h == b.history
               Turn == [user : Texts \cup {NotText}, assistant : Texts \cup {NotText}]
    <2>1. h \in Seq(Turn)
        BY <1>4, TextsAssumption DEF ValidRequest
    <2>2. h \in [1..Len(h) -> Turn] /\ Len(h) \in Nat /\ DOMAIN h = 1..Len(h)
        BY <2>1, LenProperties
    <2>3. \A i \in 1..Len(h) : ValidTurn(h[i])
        BY <1>4, <2>2 DEF ValidRequest
    <2>4. \A i \in 1..Len(h) : h[i] \in Exchange
        <3> SUFFICES ASSUME NEW i \in 1..Len(h) PROVE h[i] \in Exchange
            OBVIOUS
        <3>1. h[i] \in Turn /\ ValidTurn(h[i])
            BY <2>2, <2>3
        <3> QED BY <3>1 DEF ValidTurn, NotBlank, IsText, Exchange
    <2>5. h \in [1..Len(h) -> Exchange]
        BY <2>2, <2>4
    <2>6. h \in Seq(Exchange)
        BY <2>2, <2>5, SeqDef
    <2> QED BY <1>1, <1>4, <2>3, <2>6 DEF HistoryOf, Replayable
<1> QED BY <1>2, <1>3, <1>4 DEF Bodies

\* The exchanges a client has had pass the validation of the next body, whatever
\* is asked in it.
LEMMA ReplayIsValid ==
    ASSUME NEW b \in Bodies, Replayable(turns), HistoryOf(b) = turns,
           b.explicit_profile = Absent, ~b.extra,
           NotBlank(b.message), b.message.chars <= MaxMessageChars
    PROVE  ValidRequest(b)
<1>1. CASE b.history = Absent
    BY <1>1 DEF ValidRequest
<1>2. CASE b.history # Absent
    <2>1. b.history = turns /\ DOMAIN turns = 1..Len(turns)
        BY <1>2, LenProperties DEF HistoryOf, Replayable
    <2>2. IsList(b.history)
        BY <2>1, SentinelsAssumption DEF Replayable, IsList
    <2> QED BY <2>1, <2>2 DEF ValidRequest, Replayable
<1> QED BY <1>1, <1>2

-----------------------------------------------------------------------------
(* The chat                                                                *)

Messages == [role : {"system", "user", "assistant"}, content : Texts]

\* Each exchange becomes two messages, in its place.
LEMMA TurnsInPlace ==
    ASSUME NEW h \in Seq(Exchange)
    PROVE  /\ TurnMessages(h) \in Seq(Messages) /\ Len(TurnMessages(h)) = 2 * Len(h)
           /\ \A i \in 1..Len(h) :
                  /\ TurnMessages(h)[2 * i - 1] = Says("user", h[i].user)
                  /\ TurnMessages(h)[2 * i] = Says("assistant", h[i].assistant)
<1> DEFINE n == Len(h)
           t == TurnMessages(h)
<1>1. n \in Nat /\ h \in [1..n -> Exchange]
    BY LenProperties
<1>2. t \in [1..(2 * n) -> Messages]
    <2> SUFFICES ASSUME NEW i \in 1..(2 * n)
                 PROVE  (IF i % 2 = 1 THEN Says("user", h[(i + 1) \div 2].user)
                                      ELSE Says("assistant", h[(i + 1) \div 2].assistant))
                        \in Messages
        BY DEF TurnMessages
    <2>1. (i + 1) \div 2 \in 1..n
        BY <1>1
    <2>2. h[(i + 1) \div 2] \in Exchange
        BY <1>1, <2>1
    <2> QED BY <2>2 DEF Exchange, Says, Messages
<1>3. 2 * n \in Nat /\ t \in Seq(Messages)
    BY <1>1, <1>2, SeqDef
<1>4. Len(t) = 2 * n
    BY <1>2, <1>3, LenProperties
<1>5. ASSUME NEW i \in 1..n
      PROVE  /\ t[2 * i - 1] = Says("user", h[i].user)
             /\ t[2 * i] = Says("assistant", h[i].assistant)
    <2>1. /\ 2 * i - 1 \in 1..(2 * n) /\ (2 * i - 1) % 2 = 1 /\ ((2 * i - 1) + 1) \div 2 = i
          /\ 2 * i \in 1..(2 * n) /\ (2 * i) % 2 = 0 /\ (2 * i + 1) \div 2 = i
        BY <1>1
    <2> QED BY <2>1 DEF TurnMessages
<1> QED BY <1>3, <1>4, <1>5

\* The chat is the system prompt, the history and the question, in this order.
LEMMA ChatInOrder ==
    ASSUME NEW plan, NEW b, HistoryOf(b) \in Seq(Exchange), b.message \in Texts,
           SystemPrompt[plan.profile_id] \in Texts
    PROVE  LET m == ChatPayload(plan, b).messages
               h == HistoryOf(b)
               n == Len(h)
           IN  /\ m \in Seq(Messages) /\ Len(m) = 2 * n + 2
               /\ m[1] = Says("system", SystemPrompt[plan.profile_id])
               /\ \A i \in 1..n : /\ m[2 * i] = Says("user", h[i].user)
                                  /\ m[2 * i + 1] = Says("assistant", h[i].assistant)
               /\ m[2 * n + 2] = Says("user", b.message)
<1> DEFINE h == HistoryOf(b)
           n == Len(h)
           t == TurnMessages(h)
           first == << Says("system", SystemPrompt[plan.profile_id]) >>
           last == << Says("user", b.message) >>
           m == (first \o t) \o last
<1>1. ChatPayload(plan, b).messages = m
    BY DEF ChatPayload
<1>2. /\ first \in Seq(Messages) /\ Len(first) = 1
      /\ last \in Seq(Messages) /\ Len(last) = 1
      /\ first[1] = Says("system", SystemPrompt[plan.profile_id])
      /\ last[1] = Says("user", b.message)
    BY DEF Says, Messages
<1>3. /\ n \in Nat /\ t \in Seq(Messages) /\ Len(t) = 2 * n
      /\ \A i \in 1..n : /\ t[2 * i - 1] = Says("user", h[i].user)
                         /\ t[2 * i] = Says("assistant", h[i].assistant)
    BY TurnsInPlace, LenProperties
<1> HIDE DEF h, n, t, first, last
<1>4. /\ first \o t \in Seq(Messages) /\ Len(first \o t) = 2 * n + 1
      /\ \A i \in 1..(2 * n + 1) :
             (first \o t)[i] = IF i <= 1 THEN first[i] ELSE t[i - 1]
    <2>1. /\ first \o t \in Seq(Messages) /\ Len(first \o t) = Len(first) + Len(t)
          /\ \A i \in 1..(Len(first) + Len(t)) :
                 (first \o t)[i] = IF i <= Len(first) THEN first[i] ELSE t[i - Len(first)]
        BY <1>2, <1>3, ConcatProperties
    <2>2. Len(first) + Len(t) = 2 * n + 1
        BY <1>2, <1>3
    <2> QED BY <2>1, <2>2, <1>2
<1>5. /\ m \in Seq(Messages) /\ Len(m) = 2 * n + 2
      /\ \A i \in 1..(2 * n + 2) :
             m[i] = IF i <= 2 * n + 1 THEN (first \o t)[i] ELSE last[i - (2 * n + 1)]
    BY <1>2, <1>3, <1>4, ConcatProperties
<1> HIDE DEF m
<1>6. m[1] = Says("system", SystemPrompt[plan.profile_id])
    BY <1>2, <1>3, <1>4, <1>5
<1>7. ASSUME NEW i \in 1..n
      PROVE  /\ m[2 * i] = Says("user", h[i].user)
             /\ m[2 * i + 1] = Says("assistant", h[i].assistant)
    <2>1. /\ 2 * i \in 1..(2 * n + 1) /\ 2 * i + 1 \in 1..(2 * n + 1) /\ ~ (2 * i <= 1)
          /\ 2 * i \in 1..(2 * n + 2) /\ 2 * i + 1 \in 1..(2 * n + 2) /\ ~ (2 * i + 1 <= 1)
          /\ 2 * i + 1 - 1 = 2 * i /\ 2 * i <= 2 * n + 1 /\ 2 * i + 1 <= 2 * n + 1
        BY <1>3
    <2>2. m[2 * i] = (first \o t)[2 * i] /\ m[2 * i + 1] = (first \o t)[2 * i + 1]
        BY <2>1, <1>5
    <2>3. (first \o t)[2 * i] = t[2 * i - 1] /\ (first \o t)[2 * i + 1] = t[2 * i + 1 - 1]
        BY <2>1, <1>4
    <2> QED BY <2>1, <2>2, <2>3, <1>3
<1>8. m[2 * n + 2] = Says("user", b.message)
    <2>1. 2 * n + 2 \in 1..(2 * n + 2) /\ ~ (2 * n + 2 <= 2 * n + 1)
          /\ 2 * n + 2 - (2 * n + 1) = 1
        BY <1>3
    <2>2. m[2 * n + 2] = last[2 * n + 2 - (2 * n + 1)]
        BY <2>1, <1>3, <1>5
    <2> QED BY <2>1, <2>2, <1>2
<1>9. ChatPayload(plan, b).messages = m /\ h = HistoryOf(b) /\ n = Len(HistoryOf(b))
    BY <1>1 DEF h, n
<1> QED BY <1>5, <1>6, <1>7, <1>8, <1>9

-----------------------------------------------------------------------------
(* Decisions                                                               *)

\* A decision there is a plan for, and the plan.
Dispatchable(d) ==
    /\ ~Failed(d) /\ d.state \in {"routed", "explicit"}
    /\ d.profile \in DOMAIN Profiles /\ Profiles[d.profile]
    /\ (d.state = "routed") = (d.route_id # None)
    /\ d.route_id \in {None} \cup {e.route_id : e \in Returned}

PlanOf(d) ==
    [profile_id |-> d.profile, model |-> d.profile,
     source_state |-> d.state, route_id |-> d.route_id]

LEMMA PlanIsGiven ==
    ASSUME NEW d, Dispatchable(d)
    PROVE  Answer(d, registry) = PlanOf(d) /\ "status" \notin DOMAIN Answer(d, registry)
<1>1. /\ d.profile \in DOMAIN registry /\ registry[d.profile].enabled
      /\ registry[d.profile].model = d.profile
    BY DEF registry, Dispatchable
<1>2. d.profile # None /\ (d.state = "routed") # (d.route_id = None)
    BY ProfilesAssumption DEF Dispatchable
<1>3. DispatchPlan(d, registry) = PlanOf(d)
    BY <1>1, <1>2 DEF DispatchPlan, Dispatchable, PlanOf
<1>4. ~Failed(PlanOf(d)) /\ "status" \notin DOMAIN PlanOf(d)
    BY DEF Failed, PlanOf
<1>5. Answer(d, registry) = PlanOf(d)
    BY <1>3, <1>4 DEF Answer, Dispatchable
<1> QED BY <1>4, <1>5

\* A decision whose candidates the client is shown.
Shown(d) ==
    /\ d \in Returned /\ d.state = "ambiguous"
    /\ CoherentError("AMBIGUOUS_ROUTE", d.candidates)

\* What routing may come to, and what the adapter makes of it.
DecisionCases(d) ==
    \/ Failed(d) /\ Answer(d, registry) \in {PublicError(422, "INVALID_PROFILE"),
                                             PublicError(500, "INTERNAL_ERROR")}
    \/ /\ ~Failed(d) /\ d.state = "unrouted"
       /\ Answer(d, registry) = PublicError(422, "UNROUTED")
    \/ ~Failed(d) /\ Shown(d) /\ Answer(d, registry) = PublicError(409, "AMBIGUOUS_ROUTE")
    \/ Dispatchable(d)

LEMMA AutomaticCases ==
    ASSUME NEW d \in AutomaticDecisions
    PROVE  DecisionCases(d)
<1>1. CASE Failed(d)
    BY <1>1 DEF Answer, DecisionCases
<1>2. CASE ~Failed(d) /\ d.state = "unrouted"
    BY <1>2 DEF Answer, DecisionCases
<1>3. CASE ~Failed(d) /\ d.state = "ambiguous"
    <2>1. Len(d.candidates) >= 2
        BY <1>3, DecisionsAssumption DEF SatisfiesContract
    <2>2. \A i \in DOMAIN d.candidates :
              /\ d.candidates[i].profile # ""
              /\ d.candidates[i].comparison_score >= 0
        <3>1. \A i \in DOMAIN d.candidates :
                  /\ d.candidates[i].profile \in DOMAIN Profiles
                  /\ d.candidates[i].comparison_score \in Nat
            BY <1>3, DecisionsAssumption
        <3>2. \A p \in DOMAIN Profiles : p # ""
            BY ProfilesAssumption, Zenon
        <3>3. \A i \in DOMAIN d.candidates : d.candidates[i].comparison_score >= 0
            BY <3>1
        <3> QED BY <3>1, <3>2, <3>3, Zenon
    <2>3. d \in Returned /\ d.candidates # None
        BY <1>3, SentinelsAssumption DEF Returned
    <2>4. Shown(d)
        BY <1>3, <2>1, <2>2, <2>3 DEF Shown, CoherentError
    <2> QED BY <1>3, <2>4 DEF Answer, DecisionCases
<1>4. CASE ~Failed(d) /\ d.state = "routed"
    <2>1. d.route_id # None
        BY <1>4, DecisionsAssumption DEF SatisfiesContract
    <2>2. d.profile \in DOMAIN Profiles /\ Profiles[d.profile]
        BY <1>4, DecisionsAssumption
    <2> QED BY <1>4, <2>1, <2>2 DEF Dispatchable, DecisionCases, Returned
<1> QED BY <1>1, <1>2, <1>3, <1>4, DecisionsAssumption

LEMMA DecisionsAreKnown ==
    ASSUME NEW b \in Bodies, ValidRequest(b), NEW d \in Decisions(b)
    PROVE  /\ d \in AutomaticDecisions \cup NamedDecisions
           /\ DecisionCases(d)
<1>1. CASE b.explicit_profile \in {Absent, None}
    BY <1>1, AutomaticCases DEF Decisions
<1>2. CASE b.explicit_profile \notin {Absent, None}
    <2> DEFINE s == b.explicit_profile
               p == IF s.padded THEN "padded" ELSE s.core
    <2>1. d = DecideRoute([explicit_profile |-> p], [profiles |-> Profiles])
        BY <1>2 DEF Decisions
    <2>2. CASE p \in DOMAIN Profiles /\ Profiles[p]
        <3>1. p # None
            BY <2>2, ProfilesAssumption
        <3>2. d = Explicit(p)
            BY <2>1, <2>2, <3>1 DEF DecideRoute
        <3>3. /\ ~Failed(d) /\ d.state = "explicit" /\ d.profile = p /\ d.route_id = None
            BY <3>2 DEF Explicit, Unrouted, Failed
        <3>4. Dispatchable(d)
            BY <2>2, <3>3 DEF Dispatchable
        <3> QED BY <2>2, <3>2, <3>4 DEF NamedDecisions, DecisionCases
    <2>3. CASE ~(p \in DOMAIN Profiles /\ Profiles[p]) /\ p # None
        <3>1. d = Raised("INVALID_PROFILE")
            BY <2>1, <2>3 DEF DecideRoute
        <3>2. Failed(d) /\ d.error = "INVALID_PROFILE"
            BY <3>1 DEF Failed, Raised
        <3>3. DecisionCases(d)
            BY <3>2 DEF Answer, DecisionCases
        <3> QED BY <3>1, <3>3 DEF NamedDecisions
    <2>4. p # None
        <3>1. s \in Selections /\ IsText(s)
            BY <1>2 DEF Bodies, ValidRequest, NotBlank
        <3>2. s.core # None /\ "padded" # None
            BY <3>1, TextsAssumption, SentinelsAssumption
        <3> QED BY <3>2, Zenon
    <2> QED BY <2>2, <2>3, <2>4
<1> QED BY <1>1, <1>2

-----------------------------------------------------------------------------
(* Outcomes                                                                *)

\* A public error without candidates is coherent.
LEMMA ErrorIsPublic ==
    ASSUME NEW status, NEW code, code # "AMBIGUOUS_ROUTE"
    PROVE  PublicBody(status, code, None) = ErrorBody(status, code, None)
BY DEF PublicBody, CoherentError

\* What a reply is that fails no test.
LEMMA PassedTests ==
    ASSUME NEW o, NEW model, FailedTests(o, model) = {}
    PROVE  /\ o.model = model
           /\ o.content # "invalid" /\ o.content # "blank"
           /\ o.count # "invalid" /\ o.duration # "invalid"
<1> DEFINE tests == ReplyTests(o, model)
<1>1. \A i \in 1..12 : ~tests[i].fails
    BY DEF FailedTests
<1> HIDE DEF tests
<1>2. /\ ~tests[5].fails /\ ~tests[7].fails /\ ~tests[8].fails
      /\ ~tests[11].fails /\ ~tests[12].fails
    BY <1>1
<1> QED BY <1>2 DEF tests, ReplyTests, WrongModel

\* Whichever test a reply fails first, what it raises is an error of the service.
LEMMA RaisedIsService ==
    ASSUME NEW reply, NEW model, FailedTests(reply, model) # {}
    PROVE  RaisedCode(reply, model) \in ServiceCodes
<1> DEFINE failed == FailedTests(reply, model)
           tests == ReplyTests(reply, model)
<1>1. failed \subseteq 1..12
    BY DEF FailedTests
<1>2. \E i \in failed : \A j \in failed : i <= j
    <2>1. \A n \in 1..12 : (\E k \in failed : k <= n) => \E i \in failed : \A j \in failed : i <= j
        BY <1>1
    <2> QED BY <1>1, <2>1
<1>3. \A i \in 1..12 : tests[i].code \in ServiceCodes
    <2>1. /\ tests[1].code \in ServiceCodes /\ tests[2].code \in ServiceCodes
          /\ tests[3].code \in ServiceCodes /\ tests[4].code \in ServiceCodes
          /\ tests[5].code \in ServiceCodes /\ tests[6].code \in ServiceCodes
          /\ tests[7].code \in ServiceCodes /\ tests[8].code \in ServiceCodes
          /\ tests[9].code \in ServiceCodes /\ tests[10].code \in ServiceCodes
          /\ tests[11].code \in ServiceCodes /\ tests[12].code \in ServiceCodes
        BY DEF ReplyTests, ServiceCodes
    <2> HIDE DEF tests
    <2> QED BY <2>1
<1> HIDE DEF failed, tests
<1>4. PICK i \in failed : i = CHOOSE k \in failed : \A j \in failed : k <= j
    BY <1>2
<1>5. RaisedCode(reply, model) = tests[i].code
    BY <1>4 DEF RaisedCode, failed, tests
<1> QED BY <1>1, <1>3, <1>4, <1>5

\* What a call may come to.
CallErrors == {PublicError(504, "MODEL_SERVICE_TIMEOUT"),
               PublicError(503, "MODEL_SERVICE_UNAVAILABLE"),
               PublicError(502, "MODEL_SERVICE_ERROR")}

OwnFault(reply) == \/ IsThrown(reply) /\ reply.exception \in Uncaught
                   \/ ~IsThrown(reply) /\ HugeMetrics(reply)

OutcomeCases(o, model, result) ==
    \/ /\ result = Success /\ o.reply.model = model
       /\ o.text.core # "" /\ o.tokens \in Nat /\ o.duration \in Nat \ {0}
    \/ result \in CallErrors
    \/ result = PublicError(500, "INTERNAL_ERROR") /\ OwnFault(o.reply)

\* The codes of the service are answered as one of the errors of a call, ...
LEMMA CodeIsCallError ==
    ASSUME NEW code \in TimeoutCodes \cup UnavailableCodes \cup ServiceCodes
    PROVE  PublicOllamaError(code) \in CallErrors
<1>1. CASE code \in TimeoutCodes
    BY <1>1 DEF PublicOllamaError, TimeoutCodes, UnavailableCodes, ServiceCodes, CallErrors
<1>2. CASE code \in UnavailableCodes
    BY <1>2 DEF PublicOllamaError, TimeoutCodes, UnavailableCodes, ServiceCodes, CallErrors
<1>3. CASE code \in ServiceCodes
    BY <1>3 DEF PublicOllamaError, TimeoutCodes, UnavailableCodes, ServiceCodes, CallErrors
<1> QED BY <1>1, <1>2, <1>3

\* ... and no code as anything but these and a fault of the service's own.
LEMMA CodeIsPublic ==
    ASSUME NEW code
    PROVE  PublicOllamaError(code) \in CallErrors \cup {PublicError(500, "INTERNAL_ERROR")}
<1>1. CASE code \in TimeoutCodes \cup UnavailableCodes \cup ServiceCodes
    BY <1>1, CodeIsCallError
<1>2. CASE code \notin TimeoutCodes \cup UnavailableCodes \cup ServiceCodes
    BY <1>2 DEF PublicOllamaError
<1> QED BY <1>1, <1>2

\* What a call comes to, whatever its outcome: the client's answer or an error.
LEMMA OutcomesAreKnown ==
    ASSUME NEW o \in Outcomes, NEW model
    PROVE  OutcomeCases(o, model, ModelAnswer(o.reply, model))
<1> DEFINE result == ModelAnswer(o.reply, model)
<1>1. CASE o.reply \in {Thrown(e) : e \in Exceptions}
    <2>1. PICK e \in Exceptions : o.reply = Thrown(e)
        BY <1>1
    <2>2. IsThrown(o.reply) /\ o.reply.exception = e
        BY <2>1 DEF Thrown, IsThrown
    <2>3. CASE e \in Uncaught
        <3>1. TransportCode(e) = None
            BY <2>3 DEF TransportCode, Uncaught
        <3>2. \/ result = PublicError(500, "INTERNAL_ERROR")
              \/ result = PublicOllamaError(ExecutionCode[None])
            BY <2>2, <3>1 DEF ModelAnswer
        <3> HIDE DEF result
        <3>3. result \in CallErrors \cup {PublicError(500, "INTERNAL_ERROR")}
            BY <3>2, CodeIsPublic
        <3>4. OwnFault(o.reply)
            BY <2>2, <2>3 DEF OwnFault
        <3>5. OutcomeCases(o, model, result)
            BY <3>3, <3>4 DEF OutcomeCases
        <3> QED BY <3>5 DEF result
    <2>4. CASE e \notin Uncaught
        <3>1. TransportCode(e) \in {"CONNECT_TIMEOUT", "READ_TIMEOUT", "WRITE_TIMEOUT",
                                    "POOL_TIMEOUT", "PROTOCOL_ERROR", "NETWORK_ERROR"}
            BY <2>4 DEF TransportCode, Exceptions, Uncaught
        <3>2. TransportCode(e) \in DOMAIN ExecutionCode
              /\ ExecutionCode[TransportCode(e)] = TransportCode(e)
            BY <3>1 DEF ExecutionCode
        <3>3. result = PublicOllamaError(TransportCode(e))
            BY <2>2, <3>2 DEF ModelAnswer
        <3>4. TransportCode(e) \in TimeoutCodes \cup UnavailableCodes \cup ServiceCodes
            BY <3>1 DEF TimeoutCodes, UnavailableCodes, ServiceCodes
        <3>5. result \in CallErrors
            BY <3>3, <3>4, CodeIsCallError
        <3> HIDE DEF result
        <3>6. OutcomeCases(o, model, result)
            BY <3>5 DEF OutcomeCases
        <3> QED BY <3>6 DEF result
    <2> QED BY <2>3, <2>4
<1>2. CASE IsReply(o.reply)
    <2>1. ~IsThrown(o.reply)
        BY <1>2 DEF IsReply, IsThrown
    <2>2. CASE FailedTests(o.reply, model) # {}
        <3>1. result = PublicOllamaError(RaisedCode(o.reply, model))
            BY <2>1, <2>2 DEF ModelAnswer
        <3>2. result \in CallErrors
            BY <2>2, <3>1, RaisedIsService, CodeIsCallError
        <3> HIDE DEF result
        <3>3. OutcomeCases(o, model, result)
            BY <3>2 DEF OutcomeCases
        <3> QED BY <3>3 DEF result
    <2>3. CASE FailedTests(o.reply, model) = {} /\ HugeMetrics(o.reply)
        <3>1. result = PublicError(500, "INTERNAL_ERROR")
            BY <2>1, <2>3 DEF ModelAnswer
        <3> HIDE DEF result
        <3>2. OwnFault(o.reply)
            BY <2>1, <2>3 DEF OwnFault
        <3>3. OutcomeCases(o, model, result)
            BY <3>1, <3>2 DEF OutcomeCases
        <3> QED BY <3>3 DEF result
    <2>4. CASE FailedTests(o.reply, model) = {} /\ ~HugeMetrics(o.reply)
        <3>1. result = Success
            BY <2>1, <2>4 DEF ModelAnswer
        <3>2. /\ o.reply.model = model
              /\ o.reply.content \notin {"invalid", "blank"}
              /\ o.reply.count \notin {"invalid", "huge"}
              /\ o.reply.duration \notin {"invalid", "huge"}
            BY <2>4, PassedTests DEF HugeMetrics
        <3>3. /\ o.reply.content = "text" /\ o.reply.count = "valid"
              /\ o.reply.duration = "valid"
            BY <1>2, <3>2 DEF IsReply
        <3>4. o.reply \notin {Thrown(e) : e \in Exceptions}
            BY <2>1 DEF IsThrown, Thrown
        <3>5. o.text.core # "" /\ o.tokens \in Nat /\ o.duration \in Nat \ {0}
            BY <3>3, <3>4, OutcomesAssumption
        <3> HIDE DEF result
        <3>6. OutcomeCases(o, model, result)
            BY <3>1, <3>2, <3>5 DEF OutcomeCases
        <3> QED BY <3>6 DEF result
    <2> QED BY <2>2, <2>3, <2>4
<1> QED BY <1>1, <1>2, OutcomesAssumption

-----------------------------------------------------------------------------
(***************************************************************************)
(* The inductive invariant.  Stages: what is known of a prompt, stage by   *)
(* stage.  Remembered: the two accounts of the conversation are one, and   *)
(* it may be replayed.  Asked: Ollama was asked with the chat of the plan  *)
(* of the decision.  Answered: a body is refused for what it is, and a     *)
(* prompt that succeeds hands on what Ollama said.                         *)
(***************************************************************************)
Stages ==
    /\ stage \in {"idle", "sent"} =>
           decision = None /\ payload = None /\ outcome = None /\ answer = None
    /\ stage = "asked" => payload # None /\ outcome = None /\ answer = None
    /\ stage # "idle" => body \in Bodies /\ Len(turns) < MaxTurns

Remembered == Replayable(turns) /\ spoken = turns

Asked ==
    payload # None =>
        /\ ValidRequest(body) /\ decision # None /\ Dispatchable(decision)
        /\ payload = ChatPayload(PlanOf(decision), body)

Answered ==
    answer # None =>
        /\ answer.kind = "detail" => ~ValidRequest(body)
        /\ answer.status = 200 =>
               /\ payload # None /\ outcome # None
               /\ outcome.text \in Texts /\ outcome.text.core # ""
               /\ answer.prompt.response = outcome.text

IInv ==
    /\ TypeOK /\ Stages /\ Remembered /\ Asked /\ Answered
    /\ InnerModelsAccept /\ AnswersTellTheDecision

\* What an error is, as an answer.
LEMMA ErrorAnswers ==
    ASSUME NEW status \in {409, 413, 422, 500, 502, 503, 504}, NEW code \in Codes,
           NEW candidates \in {None} \cup {d.candidates : d \in Returned}
    PROVE  LET a == ErrorBody(status, code, candidates)
           IN  /\ a \in Answers /\ a # None
               /\ a.status = status /\ a.kind = "error" /\ a.candidates = candidates
<1>1. ErrorBody(status, code, candidates) \in Answers
    BY DEF ErrorBody, Answers
<1>2. ErrorBody(status, code, candidates) # None
    BY <1>1, SentinelsAssumption
<1> QED BY <1>1, <1>2 DEF ErrorBody

LEMMA InitIInv == Init => IInv
<1> SUFFICES ASSUME Init PROVE IInv
    OBVIOUS
<1>1. turns = << >> /\ spoken = << >> /\ << >> \in Seq(Exchange) /\ Len(<< >>) = 0
    BY EmptySeq DEF Init
<1>2. TypeOK
    BY <1>1, BoundAssumption DEF Init, TypeOK
<1>3. Remembered
    BY <1>1 DEF Remembered, Replayable
<1> QED BY <1>2, <1>3 DEF Init, IInv, Stages, Asked, Answered, InnerModelsAccept,
                          AnswersTellTheDecision

\* A body is sent.
LEMMA SendKeepsIInv ==
    ASSUME IInv, Send
    PROVE  IInv'
<1>1. /\ UNCHANGED <<turns, spoken, decision, payload, outcome, answer>>
      /\ stage' = "sent" /\ body' \in Bodies /\ Len(turns) < MaxTurns
      /\ decision = None /\ payload = None /\ outcome = None /\ answer = None
    BY DEF Send, IInv, Stages
<1>2. Bodies' = Bodies
    BY <1>1 DEF Bodies
<1>3. TypeOK'
    BY <1>1 DEF IInv, TypeOK
<1>4. Remembered'
    BY <1>1 DEF IInv, Remembered, Replayable
<1> QED BY <1>1, <1>2, <1>3, <1>4 DEF IInv, Stages, Asked, Answered, InnerModelsAccept,
                                      AnswersTellTheDecision

\* The body limit and the framework answer before anything is decided.
LEMMA RefuseBodyKeepsIInv ==
    ASSUME IInv, RefuseBody
    PROVE  IInv'
<1>1. /\ UNCHANGED <<turns, spoken, body, decision, payload, outcome>>
      /\ stage = "sent" /\ stage' = "answered"
      /\ decision = None /\ payload = None /\ outcome = None
      /\ \/ answer' = ErrorBody(413, "REQUEST_TOO_LARGE", None)
         \/ answer' = FrameworkRefusal /\ ~ValidRequest(body)
    BY DEF RefuseBody, Respond, IInv, Stages
<1>2. /\ answer' \in Answers /\ answer' # None /\ answer'.status \in {413, 422}
      /\ answer'.kind # "prompt"
      /\ answer'.kind = "error" => answer'.candidates = None
      /\ answer'.kind = "detail" => ~ValidRequest(body)
    <2>1. CASE answer' = ErrorBody(413, "REQUEST_TOO_LARGE", None)
        BY <2>1, ErrorAnswers DEF Codes
    <2>2. CASE answer' = FrameworkRefusal /\ ~ValidRequest(body)
        BY <2>2, SentinelsAssumption DEF FrameworkRefusal, Answers
    <2> QED BY <1>1, <2>1, <2>2
<1>3. TypeOK'
    BY <1>1, <1>2 DEF IInv, TypeOK
<1>4. Stages' /\ Remembered' /\ Asked'
    BY <1>1, <1>2 DEF IInv, Stages, Remembered, Replayable, Asked, Bodies
<1>5. Answered' /\ InnerModelsAccept' /\ AnswersTellTheDecision'
    BY <1>1, <1>2 DEF Answered, InnerModelsAccept, AnswersTellTheDecision
<1> QED BY <1>3, <1>4, <1>5 DEF IInv

\* What the public models let through, those of an execution do too.
LEMMA ExecutionAccepts ==
    ASSUME NEW b \in Bodies, ValidRequest(b), Replayable(turns)
    PROVE  ValidExecution(b)
<1>1. Replayable(HistoryOf(b)) /\ b.message.core # ""
    BY ValidHistory DEF ValidRequest, NotBlank
<1>2. DOMAIN HistoryOf(b) = 1..Len(HistoryOf(b))
    BY <1>1, LenProperties DEF Replayable
<1> QED BY <1>1, <1>2 DEF ValidExecution, Replayable, ValidTurn, NotBlank

LEMMA PayloadIsTyped ==
    ASSUME NEW d, Dispatchable(d), NEW b \in Bodies, ValidRequest(b), Replayable(turns)
    PROVE  LET p == ChatPayload(PlanOf(d), b) IN p \in Payloads /\ p # None
<1>1. HistoryOf(b) \in Seq(Exchange) /\ b.message \in Texts
    BY ValidHistory DEF Replayable
<1>2. PlanOf(d).profile_id \in DOMAIN Profiles /\ PlanOf(d).model \in DOMAIN Profiles
      /\ SystemPrompt[PlanOf(d).profile_id] \in Texts
    BY ProfilesAssumption DEF Dispatchable, PlanOf
<1>3. ChatPayload(PlanOf(d), b).messages \in Seq(Messages)
    BY <1>1, <1>2, ChatInOrder
<1>4. ChatPayload(PlanOf(d), b) \in Payloads
    BY <1>2, <1>3 DEF ChatPayload, Payloads, Messages
<1> QED BY <1>4, SentinelsAssumption

\* A decision without a plan is answered by the error it stands for, and no other.
LEMMA RefusalKeepsIInv ==
    ASSUME IInv, stage = "sent", ValidRequest(body),
           UNCHANGED <<turns, spoken, body, outcome, payload>>, stage' = "answered",
           decision' \in AutomaticDecisions \cup NamedDecisions,
           DecisionCases(decision'), ~Dispatchable(decision'),
           answer' = PublicBody(Answer(decision', registry).status,
                                Answer(decision', registry).code,
                                PublicCandidates(decision'))
    PROVE  IInv'
<1> DEFINE d == decision'
<1>1. /\ payload = None /\ outcome = None /\ body \in Bodies /\ Len(turns) < MaxTurns
      /\ d # None
    BY SentinelsAssumption DEF IInv, Stages
<1>2. /\ answer' \in Answers /\ answer' # None /\ answer'.kind = "error"
      /\ answer'.status \in {409, 422, 500}
      /\ answer'.status = 409 <=> ~Failed(d) /\ d.state = "ambiguous"
      /\ answer'.candidates = IF answer'.status = 409 THEN d.candidates ELSE None
      /\ answer'.status = 500 => Failed(d)
    <2>1. CASE Failed(d) /\ Answer(d, registry) = PublicError(422, "INVALID_PROFILE")
        <3>1. answer' = ErrorBody(422, "INVALID_PROFILE", None)
            BY <2>1, ErrorIsPublic DEF PublicCandidates, PublicError
        <3> QED BY <2>1, <3>1, ErrorAnswers DEF Codes
    <2>2. CASE Failed(d) /\ Answer(d, registry) = PublicError(500, "INTERNAL_ERROR")
        <3>1. answer' = ErrorBody(500, "INTERNAL_ERROR", None)
            BY <2>2, ErrorIsPublic DEF PublicCandidates, PublicError
        <3> QED BY <2>2, <3>1, ErrorAnswers DEF Codes
    <2>3. CASE /\ ~Failed(d) /\ d.state = "unrouted"
               /\ Answer(d, registry) = PublicError(422, "UNROUTED")
        <3>1. answer' = ErrorBody(422, "UNROUTED", None)
            BY <2>3, ErrorIsPublic DEF PublicCandidates, PublicError
        <3> QED BY <2>3, <3>1, ErrorAnswers DEF Codes
    <2>4. CASE /\ ~Failed(d) /\ Shown(d)
               /\ Answer(d, registry) = PublicError(409, "AMBIGUOUS_ROUTE")
        <3>1. answer' = ErrorBody(409, "AMBIGUOUS_ROUTE", d.candidates)
            BY <2>4 DEF PublicCandidates, PublicError, PublicBody, Shown
        <3>2. d.candidates \in {None} \cup {e.candidates : e \in Returned}
            BY <2>4 DEF Shown
        <3> QED BY <2>4, <3>1, <3>2, ErrorAnswers DEF Codes, Shown
    <2> QED BY <2>1, <2>2, <2>3, <2>4 DEF DecisionCases
<1>3. TypeOK'
    BY <1>1, <1>2 DEF IInv, TypeOK
<1>4. Stages' /\ Remembered' /\ Asked'
    BY <1>1, <1>2 DEF IInv, Stages, Remembered, Replayable, Asked, Bodies
<1>5. Answered' /\ InnerModelsAccept' /\ AnswersTellTheDecision'
    BY <1>1, <1>2 DEF Answered, InnerModelsAccept, AnswersTellTheDecision
<1> QED BY <1>3, <1>4, <1>5 DEF IInv

\* A prompt is decided on, and Ollama asked if there is a plan.
LEMMA HandleKeepsIInv ==
    ASSUME IInv, Handle
    PROVE  IInv'
<1>1. /\ UNCHANGED <<turns, spoken, body, outcome>> /\ stage = "sent" /\ ValidRequest(body)
      /\ body \in Bodies /\ Len(turns) < MaxTurns /\ Replayable(turns)
      /\ payload = None /\ outcome = None /\ answer = None
    BY DEF Handle, IInv, Stages, Remembered
<1>2. PICK d \in Decisions(body) :
          LET routed == Answer(d, registry)
          IN  /\ decision' = d
              /\ IF "status" \in DOMAIN routed
                 THEN /\ Respond(PublicBody(routed.status, routed.code, PublicCandidates(d)))
                      /\ UNCHANGED payload
                 ELSE IF ~ValidExecution(body)
                 THEN Respond(Internal) /\ UNCHANGED payload
                 ELSE /\ stage' = "asked" /\ payload' = ChatPayload(routed, body)
                      /\ UNCHANGED answer
    BY DEF Handle
<1>3. d \in AutomaticDecisions \cup NamedDecisions /\ DecisionCases(d) /\ d # None
    BY <1>1, DecisionsAreKnown, SentinelsAssumption
<1>4. CASE Dispatchable(d)
    <2>1. /\ stage' = "asked" /\ payload' = ChatPayload(PlanOf(d), body)
          /\ UNCHANGED answer /\ decision' = d
        BY <1>1, <1>2, <1>4, PlanIsGiven, ExecutionAccepts
    <2>2. payload' \in Payloads /\ payload' # None
        BY <1>1, <1>4, <2>1, PayloadIsTyped
    <2>3. d.state \in {"explicit", "routed"}
        BY <1>4 DEF Dispatchable
    <2>4. TypeOK'
        BY <1>1, <1>3, <2>1, <2>2, <2>3 DEF IInv, TypeOK
    <2>5. Stages' /\ Remembered' /\ Asked'
        BY <1>1, <1>3, <1>4, <2>1, <2>2 DEF IInv, Stages, Remembered, Replayable, Asked, Bodies
    <2>6. Answered' /\ InnerModelsAccept' /\ AnswersTellTheDecision'
        BY <1>1, <2>1 DEF Answered, InnerModelsAccept, AnswersTellTheDecision
    <2> QED BY <2>4, <2>5, <2>6 DEF IInv
<1>5. CASE ~Dispatchable(d)
    <2>1. "status" \in DOMAIN Answer(d, registry)
        BY <1>3, <1>5 DEF DecisionCases, PublicError
    <2>2. /\ decision' = d /\ stage' = "answered" /\ UNCHANGED payload
          /\ answer' = PublicBody(Answer(d, registry).status, Answer(d, registry).code,
                                  PublicCandidates(d))
        BY <1>2, <2>1 DEF Respond
    <2> QED BY <1>1, <1>3, <1>5, <2>2, RefusalKeepsIInv
<1> QED BY <1>4, <1>5

\* What Ollama's outcome becomes.
LEMMA SettleKeepsIInv ==
    ASSUME IInv, Settle
    PROVE  IInv'
<1>1. /\ UNCHANGED <<turns, spoken, body, decision, payload>>
      /\ stage = "asked" /\ stage' = "answered" /\ payload # None
      /\ body \in Bodies /\ Len(turns) < MaxTurns
      /\ decision # None /\ Dispatchable(decision)
    BY DEF Settle, Respond, IInv, Stages, Asked
<1> DEFINE d == decision
           Sent(o) == [response |-> o.text, profile |-> d.profile, model |-> o.reply.model,
                       state |-> d.state, route_id |-> d.route_id,
                       tokens |-> o.tokens, duration |-> o.duration]
<1>0. /\ Answer(d, registry).model = d.profile /\ Answer(d, registry).profile_id = d.profile
      /\ Answer(d, registry).source_state = d.state
      /\ Answer(d, registry).route_id = d.route_id
    BY <1>1, PlanIsGiven DEF PlanOf
<1>2. PICK o \in Outcomes :
          LET result == ModelAnswer(o.reply, d.profile)
          IN  /\ outcome' = o
              /\ answer' = IF result # Success THEN PublicBody(result.status, result.code, None)
                                               ELSE PromptBody(Sent(o))
    BY <1>0 DEF Settle, Respond
<1> DEFINE result == ModelAnswer(o.reply, d.profile)
<1>3. outcome' # None /\ OutcomeCases(o, d.profile, result)
    BY <1>2, OutcomesAreKnown, SentinelsAssumption
<1> DEFINE Error == /\ answer' \in Answers /\ answer' # None /\ answer'.kind = "error"
                    /\ answer'.status \notin {200, 409} /\ answer'.candidates = None
                    /\ answer'.status = 500 => OwnFault(o.reply)
           Reply == /\ answer' \in Answers /\ answer' # None /\ answer'.kind = "prompt"
                    /\ answer'.status = 200 /\ answer'.prompt = Sent(o)
                    /\ o.text \in Texts /\ o.text.core # ""
<1>4. Error \/ Reply
    <2>1. CASE result = Success /\ o.reply.model = d.profile
               /\ o.text.core # "" /\ o.tokens \in Nat /\ o.duration \in Nat \ {0}
        <3>1. d.profile # ""
            BY <1>1, ProfilesAssumption DEF Dispatchable
        <3>2. ValidResponse(Sent(o))
            <4>1. /\ Sent(o).response = o.text /\ Sent(o).profile = d.profile
                  /\ Sent(o).model = o.reply.model /\ Sent(o).state = d.state
                  /\ Sent(o).route_id = d.route_id
                  /\ Sent(o).tokens = o.tokens /\ Sent(o).duration = o.duration
                OBVIOUS
            <4>2. ValidMetrics(o.tokens, o.duration)
                <5>1. o.tokens \in Nat /\ o.duration \in Nat /\ o.duration # 0
                    BY <2>1
                <5> HIDE DEF result, Sent
                <5> QED BY <5>1 DEF ValidMetrics
            <4>3. (d.state = "routed") = (d.route_id # None)
                BY <1>1 DEF Dispatchable
            <4> HIDE DEF Sent
            <4> QED BY <2>1, <3>1, <4>1, <4>2, <4>3, Zenon DEF ValidResponse
        <3>3. answer' = [status |-> 200, kind |-> "prompt", prompt |-> Sent(o)]
            BY <1>2, <2>1, <3>2 DEF PromptBody
        <3>4. o.text \in Texts
            BY OutcomesAssumption
        <3>5. Sent(o) \in Prompts
            BY <1>1, <2>1, <3>4 DEF Dispatchable, Prompts
        <3> HIDE DEF Sent
        <3>6. /\ answer' \in Answers /\ answer'.kind = "prompt" /\ answer'.status = 200
              /\ answer'.prompt = Sent(o)
            BY <3>3, <3>5 DEF Answers
        <3>7. answer' # None
            BY <3>6, SentinelsAssumption
        <3> HIDE DEF result
        <3> QED BY <2>1, <3>4, <3>6, <3>7
    <2>2. CASE result = PublicError(504, "MODEL_SERVICE_TIMEOUT")
        <3>1. answer' = ErrorBody(504, "MODEL_SERVICE_TIMEOUT", None)
            BY <1>2, <2>2, ErrorIsPublic DEF PublicError, Success
        <3>2. answer' \in Answers /\ answer' # None /\ answer'.status = 504
              /\ answer'.kind = "error" /\ answer'.candidates = None
            BY <3>1, ErrorAnswers DEF Codes
        <3> QED BY <2>2, <3>2
    <2>3. CASE result = PublicError(503, "MODEL_SERVICE_UNAVAILABLE")
        <3>1. answer' = ErrorBody(503, "MODEL_SERVICE_UNAVAILABLE", None)
            BY <1>2, <2>3, ErrorIsPublic DEF PublicError, Success
        <3>2. answer' \in Answers /\ answer' # None /\ answer'.status = 503
              /\ answer'.kind = "error" /\ answer'.candidates = None
            BY <3>1, ErrorAnswers DEF Codes
        <3> QED BY <2>3, <3>2
    <2>4. CASE result = PublicError(502, "MODEL_SERVICE_ERROR")
        <3>1. answer' = ErrorBody(502, "MODEL_SERVICE_ERROR", None)
            BY <1>2, <2>4, ErrorIsPublic DEF PublicError, Success
        <3>2. answer' \in Answers /\ answer' # None /\ answer'.status = 502
              /\ answer'.kind = "error" /\ answer'.candidates = None
            BY <3>1, ErrorAnswers DEF Codes
        <3> QED BY <2>4, <3>2
    <2>5. CASE result = PublicError(500, "INTERNAL_ERROR") /\ OwnFault(o.reply)
        <3>1. answer' = ErrorBody(500, "INTERNAL_ERROR", None)
            BY <1>2, <2>5, ErrorIsPublic DEF PublicError, Success
        <3>2. answer' \in Answers /\ answer' # None /\ answer'.status = 500
              /\ answer'.kind = "error" /\ answer'.candidates = None
            BY <3>1, ErrorAnswers DEF Codes
        <3> QED BY <2>5, <3>2
    <2> HIDE DEF Error, Reply, result
    <2>6. CASE result \in CallErrors
        BY <2>2, <2>3, <2>4, <2>6 DEF CallErrors
    <2> QED BY <1>3, <2>1, <2>5, <2>6, Zenon DEF OutcomeCases
<1>5. ~Failed(decision) /\ decision.state # "ambiguous"
    BY <1>1 DEF Dispatchable
<1>6. TypeOK'
    BY <1>1, <1>4 DEF IInv, TypeOK
<1>7. Stages' /\ Remembered' /\ Asked'
    BY <1>1, <1>3, <1>4 DEF IInv, Stages, Remembered, Replayable, Asked, Bodies
<1>8. Sent(o).response = o.text /\ Sent(o).profile = d.profile /\ Sent(o).state = d.state
      /\ Sent(o).route_id = d.route_id
    OBVIOUS
<1>9. CASE Error
    <2>0. /\ answer' # None /\ answer'.kind = "error" /\ answer'.status # 200
          /\ answer'.status = 500 => OwnFault(o.reply)
          /\ outcome' = o /\ outcome' # None
        BY <1>2, <1>3, <1>9
    <2>1. Answered' /\ InnerModelsAccept'
        <3> HIDE DEF Error, Reply, result, Sent
        <3> QED BY <2>0 DEF Answered, InnerModelsAccept, OwnFault
    <2>2. AnswersTellTheDecision'
        BY <1>1, <1>5, <1>9 DEF AnswersTellTheDecision
    <2> QED BY <1>6, <1>7, <2>1, <2>2 DEF IInv
<1>10. CASE Reply
    <2>1. /\ answer' # None /\ answer'.kind = "prompt" /\ answer'.status = 200
          /\ answer'.prompt.response = o.text /\ answer'.prompt.profile = d.profile
          /\ answer'.prompt.state = d.state /\ answer'.prompt.route_id = d.route_id
          /\ o.text \in Texts /\ o.text.core # "" /\ outcome' = o
        <3> HIDE DEF Sent
        <3>1. outcome' = o
            BY <1>2
        <3>2. /\ answer' # None /\ answer'.kind = "prompt" /\ answer'.status = 200
              /\ answer'.prompt = Sent(o) /\ o.text \in Texts /\ o.text.core # ""
            BY <1>10, Zenon
        <3> QED BY <1>8, <3>1, <3>2, Zenon
    <2>2. answer'.kind # "detail" /\ answer'.kind # "error"
        BY <2>1, Zenon
    <2>3. answer'.status # 409 /\ answer'.status # 500
        <3>1. answer'.status = 200
            BY <2>1
        <3> QED BY <3>1
    <2>4. Answered' /\ InnerModelsAccept'
        BY <1>1, <1>3, <2>1, <2>2, <2>3 DEF Answered, InnerModelsAccept
    <2>5. AnswersTellTheDecision'
        BY <1>1, <1>5, <2>1, <2>2, <2>3 DEF AnswersTellTheDecision
    <2> QED BY <1>6, <1>7, <2>4, <2>5 DEF IInv
<1> QED BY <1>4, <1>9, <1>10

\* The client takes note of what was asked as Ollama was asked it, and of what was
\* answered as Ollama answered it.
LEMMA NoteKeepsIInv ==
    ASSUME IInv, Note
    PROVE  IInv'
<1>1. /\ stage = "answered" /\ stage' = "idle" /\ body' = None /\ decision' = None
      /\ payload' = None /\ outcome' = None /\ answer' = None
      /\ Replayable(turns) /\ spoken = turns /\ answer # None /\ Len(turns) < MaxTurns
      /\ body \in Bodies
    BY DEF Note, IInv, TypeOK, Stages, Remembered
<1>2. Replayable(turns') /\ spoken' = turns' /\ Len(turns') <= MaxTurns
    <2>1. CASE UNCHANGED <<turns, spoken>>
        BY <1>1, <2>1, BoundAssumption, LenProperties DEF Replayable
    <2>2. CASE answer.status = 200 /\ Replayed
        <3> DEFINE e == [user |-> body.message, assistant |-> answer.prompt.response]
                   m == payload.messages
        <3>1. /\ payload = ChatPayload(PlanOf(decision), body) /\ ValidRequest(body)
              /\ Dispatchable(decision)
              /\ outcome.text \in Texts /\ outcome.text.core # ""
              /\ answer.prompt.response = outcome.text
            BY <2>2, <1>1 DEF IInv, Answered, Asked
        <3>2. /\ body.message \in Texts /\ HistoryOf(body) \in Seq(Exchange)
              /\ SystemPrompt[PlanOf(decision).profile_id] \in Texts
            BY <1>1, <3>1, ValidHistory, ProfilesAssumption DEF Replayable, Dispatchable, PlanOf
        <3>3. m[Len(m)] = Says("user", body.message)
            BY <3>1, <3>2, ChatInOrder
        <3>4. turns' = Append(turns, e) /\ spoken' = turns'
            <4>1. m[Len(m)].content = body.message
                BY <3>3 DEF Says
            <4>2. /\ turns' = Append(turns, e)
                  /\ spoken' = Append(spoken, [user |-> m[Len(m)].content,
                                               assistant |-> outcome.text])
                BY <2>2, Zenon DEF Note
            <4>3. [user |-> m[Len(m)].content, assistant |-> outcome.text] = e
                BY <3>1, <4>1
            <4> HIDE DEF e, m
            <4> QED BY <1>1, <4>2, <4>3
        <3>5. e \in Exchange /\ ValidTurn(e)
            BY <3>1, <3>2, TextsAssumption DEF Exchange, ValidTurn, NotBlank, ValidRequest
        <3> HIDE DEF e
        <3>6. /\ Append(turns, e) \in Seq(Exchange) /\ Len(Append(turns, e)) = Len(turns) + 1
              /\ \A i \in 1..Len(turns) : Append(turns, e)[i] = turns[i]
              /\ Append(turns, e)[Len(turns) + 1] = e /\ Len(turns) \in Nat
            BY <1>1, <3>5, AppendProperties, LenProperties DEF Replayable
        <3>7. \A i \in 1..Len(turns) + 1 : ValidTurn(Append(turns, e)[i])
            BY <1>1, <3>5, <3>6 DEF Replayable
        <3> QED BY <1>1, <3>4, <3>6, <3>7, BoundAssumption DEF Replayable
    <2> QED BY <2>1, <2>2 DEF Note
<1>3. TypeOK'
    BY <1>1, <1>2 DEF TypeOK, Replayable
<1> QED BY <1>1, <1>2, <1>3 DEF IInv, Stages, Remembered, Replayable, Asked, Answered,
                                InnerModelsAccept, AnswersTellTheDecision

LEMMA NextKeepsIInv == IInv /\ [Next]_vars => IInv'
<1> SUFFICES ASSUME IInv, [Next]_vars PROVE IInv'
    OBVIOUS
<1>1. CASE UNCHANGED vars
    <2>1. TypeOK' /\ Stages' /\ Remembered'
        BY <1>1 DEF vars, IInv, TypeOK, Stages, Remembered, Replayable, Bodies
    <2>2. Asked' /\ Answered'
        BY <1>1 DEF vars, IInv, Asked, Answered
    <2>3. InnerModelsAccept' /\ AnswersTellTheDecision'
        BY <1>1 DEF vars, IInv, InnerModelsAccept, AnswersTellTheDecision
    <2> QED BY <2>1, <2>2, <2>3 DEF IInv
<1> QED BY <1>1, SendKeepsIInv, RefuseBodyKeepsIInv, HandleKeepsIInv, SettleKeepsIInv,
           NoteKeepsIInv DEF Next

LEMMA Invariance == Spec => []IInv
BY InitIInv, NextKeepsIInv, PTL DEF Spec

-----------------------------------------------------------------------------
\* Types, and Ollama is asked exactly by the prompts routing gave a plan for.
THEOREM TypeCorrect == Spec => []TypeOK
BY Invariance, PTL DEF IInv

\* Ollama hears the conversation it took part in, in order and to the letter
\* (models.py:133-141, routes.py:200-210, executor.py:123-150, routes.py:223-224).
THEOREM ConversationIsHeard == Spec => []HearsTheConversation
<1>1. IInv => HearsTheConversation
    <2> SUFFICES ASSUME IInv, payload # None, Replayed
                 PROVE  LET m == payload.messages
                            n == Len(spoken)
                        IN  /\ Len(m) = 2 * n + 2
                            /\ m[1] = Says("system", SystemPrompt[decision.profile])
                            /\ \A i \in 1..n :
                                   /\ m[2 * i] = Says("user", spoken[i].user)
                                   /\ m[2 * i + 1] = Says("assistant", spoken[i].assistant)
                            /\ m[2 * n + 2] = Says("user", body.message)
        BY DEF HearsTheConversation
    <2>1. /\ payload = ChatPayload(PlanOf(decision), body) /\ HistoryOf(body) = spoken
          /\ ValidRequest(body) /\ Dispatchable(decision) /\ body \in Bodies
          /\ Replayable(turns)
        BY DEF IInv, TypeOK, Stages, Asked, Remembered, Replayed
    <2>2. /\ HistoryOf(body) \in Seq(Exchange) /\ body.message \in Texts
          /\ PlanOf(decision).profile_id = decision.profile
          /\ SystemPrompt[PlanOf(decision).profile_id] \in Texts
        BY <2>1, ValidHistory, ProfilesAssumption DEF Replayable, Dispatchable, PlanOf
    <2>3. LET m == ChatPayload(PlanOf(decision), body).messages
              h == HistoryOf(body)
              n == Len(h)
          IN  /\ Len(m) = 2 * n + 2
              /\ m[1] = Says("system", SystemPrompt[PlanOf(decision).profile_id])
              /\ \A i \in 1..n : /\ m[2 * i] = Says("user", h[i].user)
                                 /\ m[2 * i + 1] = Says("assistant", h[i].assistant)
              /\ m[2 * n + 2] = Says("user", body.message)
        BY <2>2, ChatInOrder
    <2> QED BY <2>1, <2>2, <2>3, Zenon
<1> QED BY <1>1, Invariance, PTL

\* What the service answered may be replayed to it: a valid question with the
\* exchanges so far meets no validation error (models.py:86-141, body_limit.py:46).
THEOREM ConversationCanGoOn == Spec => []ConversationGoesOn
<1>1. IInv => ConversationGoesOn
    <2> SUFFICES ASSUME IInv, answer # None, Replayed, ValidQuestion
                 PROVE  answer.kind # "detail"
        BY DEF ConversationGoesOn
    <2>1. body \in Bodies /\ Replayable(turns)
        BY DEF IInv, Stages, Remembered, TypeOK
    <2>2. ValidRequest(body)
        BY <2>1, ReplayIsValid DEF Replayed, ValidQuestion
    <2> QED BY <2>2 DEF IInv, Answered
<1> QED BY <1>1, Invariance, PTL

\* A client is answered 500 only for a failure of routing, of Ollama's own making or
\* of the unforeseen: no inner model refuses what the outer ones let through.
THEOREM LayersAgree == Spec => []InnerModelsAccept
BY Invariance, PTL DEF IInv

\* The answer tells what routing decided (router_adapter.py:56-70, routes.py:223-236).
THEOREM DecisionIsTold == Spec => []AnswersTellTheDecision
BY Invariance, PTL DEF IInv
=============================================================================
