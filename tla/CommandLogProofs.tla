-------------------------- MODULE CommandLogProofs --------------------------
(***************************************************************************)
(* Theorems about CommandLog for any set of commands, any capacities and   *)
(* any number of answers, failures and crashes.                            *)
(***************************************************************************)
EXTENDS CommandLog, TLAPS

(* The channels are sequences; these are the facts about them in use.      *)
LEMMA PutAtEnd ==
    ASSUME NEW S, NEW q \in Seq(S), NEW e \in S
    PROVE  /\ Append(q, e) \in Seq(S)
           /\ Len(q) \in Nat
           /\ Len(Append(q, e)) = Len(q) + 1
           /\ \A i \in 1..Len(q) : Append(q, e)[i] = q[i]
           /\ Append(q, e)[Len(q) + 1] = e
  OBVIOUS

LEMMA TakeFirst ==
    ASSUME NEW S, NEW q \in Seq(S), q # <<>>
    PROVE  /\ Head(q) \in S
           /\ Head(q) = q[1]
           /\ Tail(q) \in Seq(S)
           /\ Len(q) \in Nat /\ Len(q) >= 1
           /\ Len(Tail(q)) = Len(q) - 1
           /\ \A i \in 1..Len(Tail(q)) : Tail(q)[i] = q[i + 1]
  OBVIOUS

LEMMA EmptySequence == \A S : <<>> \in Seq(S) /\ Len(<<>>) = 0
  OBVIOUS

-----------------------------------------------------------------------------

LEMMA TypeInit == Init => TypeOK
<1> SUFFICES ASSUME Init PROVE TypeOK
  OBVIOUS
<1>1. /\ bus \in Seq(Commands) /\ Len(bus) <= BusCap /\ responses \in Seq(Answer)
      /\ Len(responses) <= RespCap /\ accepted \in Seq(Commands) /\ published \in Seq(Commands)
  BY CommandAssumption, EmptySequence DEF CommandAssumption, Init
<1>2. answers \in [Commands -> Seq(BOOLEAN)]
  BY EmptySequence DEF Init
<1>3. faults \in 0..MaxFaults /\ crashes \in 0..MaxCrashes
  BY CommandAssumption DEF CommandAssumption, Init
<1> QED
  BY <1>1, <1>2, <1>3 DEF Init, TypeOK

LEMMA TypeNext == TypeOK /\ [Next]_vars => TypeOK'
<1> SUFFICES ASSUME TypeOK, [Next]_vars PROVE TypeOK'
  OBVIOUS
<1> USE CommandAssumption DEF CommandAssumption, apiVars, handlerVars, deviceVars, sendVars, boundVars
<1>f. ASSUME Fault PROVE faults' \in 0..MaxFaults
  BY <1>f DEF TypeOK, Fault
<1>1. CASE UNCHANGED vars
  BY <1>1 DEF TypeOK, vars
<1>2. ASSUME NEW c \in Commands, CreateLog(c) PROVE TypeOK'
  <2>1. /\ log' \in [Commands -> Row \cup {NoRow}]
        /\ caller' \in [Commands -> {"start", "put", "done"}]
    <3>1. [status |-> Pending, error |-> "none"] \in Row
      BY DEF Row, Pending, Sent, Failed, Success, Refused, Statuses, Errors
    <3>2. log \in [Commands -> Row \cup {NoRow}] /\ caller \in [Commands -> {"start", "put", "done"}]
      BY DEF TypeOK
    <3> QED
      BY <1>2, <3>1, <3>2 DEF CreateLog
  <2>2. faults' \in 0..MaxFaults
    BY <1>2, <1>f DEF TypeOK, CreateLog
  <2> QED
    BY <1>2, <2>1, <2>2 DEF TypeOK, CreateLog
<1>3. ASSUME NEW c \in Commands, PutOnBus(c) PROVE TypeOK'
  <2>1. bus \in Seq(Commands) /\ accepted \in Seq(Commands)
    BY DEF TypeOK
  <2>2. /\ bus' \in Seq(Commands) /\ Len(bus') <= BusCap
        /\ accepted' \in Seq(Commands)
    BY <1>3, <2>1, PutAtEnd DEF PutOnBus
  <2>3. caller' \in [Commands -> {"start", "put", "done"}]
    BY <1>3 DEF TypeOK, PutOnBus
  <2> QED
    BY <1>3, <2>2, <2>3 DEF TypeOK, PutOnBus
<1>4. CASE Take
  <2>1. bus \in Seq(Commands) /\ Len(bus) <= BusCap
    BY DEF TypeOK
  <2>2. bus' \in Seq(Commands) /\ Len(bus') <= BusCap /\ current' \in Commands
    BY <1>4, <2>1, TakeFirst DEF Take
  <2> QED
    BY <1>4, <2>2 DEF TypeOK, Take
<1>5. CASE Encode
  BY <1>5 DEF TypeOK, Encode, Decide
<1>6. CASE Publish
  <2>1. published \in Seq(Commands) /\ current \in Commands
    BY DEF TypeOK
  <2>2. published' \in Seq(Commands)
    BY <1>6, <2>1, PutAtEnd DEF Publish
  <2> QED
    BY <1>6, <2>2 DEF TypeOK, Publish, Decide
<1>7. CASE AwaitToken
  BY <1>7 DEF TypeOK, AwaitToken, Decide
<1>8. CASE ReadLog
  <2>1. faults' \in 0..MaxFaults
    BY <1>8, <1>f DEF TypeOK, ReadLog
  <2> QED
    BY <1>8, <2>1 DEF TypeOK, ReadLog
<1>9. CASE SaveLog
  <2>1. faults' \in 0..MaxFaults
    BY <1>9, <1>f DEF TypeOK, SaveLog
  <2>2. row.error \in Errors
    <3>1. row \in Row \/ row = NoRow
      BY DEF TypeOK
    <3>2. "none" \in Errors
      BY DEF Errors
    <3> QED
      BY <3>1, <3>2 DEF Row, NoRow
  <2>3. verdict \in Statuses /\ "send" \in Errors
    BY DEF TypeOK, Statuses, Errors
  <2>4. log' \in [Commands -> Row \cup {NoRow}]
    <3>1. [status |-> verdict, error |-> IF verdict = Failed THEN "send" ELSE row.error] \in Row
      BY <2>2, <2>3 DEF Row
    <3>2. log \in [Commands -> Row \cup {NoRow}]
      BY DEF TypeOK
    <3> QED
      BY <1>9, <3>1, <3>2 DEF SaveLog
  <2> QED
    BY <1>9, <2>1, <2>4 DEF TypeOK, SaveLog
<1>10. ASSUME NEW c \in Commands, NEW success \in BOOLEAN, DeviceAnswer(c, success) PROVE TypeOK'
  <2> DEFINE answer == [id |-> c, success |-> success]
  <2>1. answer \in Answer
    BY DEF Answer
  <2>2. responses \in Seq(Answer) /\ Len(responses) <= RespCap /\ answers[c] \in Seq(BOOLEAN)
    BY DEF TypeOK
  <2> HIDE DEF answer
  <2>3. responses' = responses \/ (Len(responses) < RespCap /\ responses' = Append(responses, answer))
    BY <1>10 DEF DeviceAnswer, answer
  <2>4. responses' \in Seq(Answer) /\ Len(responses') <= RespCap
    BY <2>1, <2>2, <2>3, PutAtEnd
  <2>5. Append(answers[c], success) \in Seq(BOOLEAN)
    BY <2>2, PutAtEnd
  <2>6. answers' \in [Commands -> Seq(BOOLEAN)]
    BY <1>10, <2>5 DEF TypeOK, DeviceAnswer
  <2>7. lost' \subseteq Answer
    BY <1>10, <2>1 DEF TypeOK, DeviceAnswer, answer
  <2> QED
    BY <1>10, <2>4, <2>6, <2>7 DEF TypeOK, DeviceAnswer
<1>11. CASE WriteAnswer
  <2>1. responses \in Seq(Answer) /\ Len(responses) <= RespCap
    BY DEF TypeOK
  <2>2. /\ responses' \in Seq(Answer) /\ Len(responses') <= RespCap
        /\ Head(responses) \in Answer
    BY <1>11, <2>1, TakeFirst DEF WriteAnswer
  <2>3. faults' \in 0..MaxFaults
    BY <1>11, <1>f DEF TypeOK, WriteAnswer
  <2>4. \A success : Outcome(success) \in Row
    BY DEF Outcome, Row, Statuses, Errors, Pending, Sent, Failed, Success, Refused
  <2>5. log' \in [Commands -> Row \cup {NoRow}]
    <3>1. log' = log \/ log' = [log EXCEPT ![Head(responses).id] = Outcome(Head(responses).success)]
      BY <1>11 DEF WriteAnswer
    <3>2. log \in [Commands -> Row \cup {NoRow}] /\ Head(responses).id \in Commands
      BY <2>2 DEF TypeOK, Answer
    <3>3. Outcome(Head(responses).success) \in Row
      BY <2>4
    <3> QED
      BY <3>1, <3>2, <3>3
  <2> QED
    BY <1>11, <2>2, <2>3, <2>5 DEF TypeOK, WriteAnswer
<1>12. CASE Crash
  <2>1. responses \in Seq(Answer)
    BY DEF TypeOK
  <2>2. ToSet(responses) \subseteq Answer
    BY <2>1 DEF ToSet
  <2>3. crashes' \in 0..MaxCrashes
    BY <1>12 DEF TypeOK, Crash
  <2>4. /\ bus' \in Seq(Commands) /\ Len(bus') <= BusCap
        /\ responses' \in Seq(Answer) /\ Len(responses') <= RespCap
    BY <1>12, EmptySequence DEF Crash
  <2> QED
    BY <1>12, <2>2, <2>3, <2>4 DEF TypeOK, Crash
<1> QED
  BY <1>1, <1>2, <1>3, <1>4, <1>5, <1>6, <1>7, <1>8, <1>9, <1>10, <1>11, <1>12
     DEF Next, ApiCall, Handle

(* Every reachable state is well typed; in particular neither channel      *)
(* outgrows its capacity.                                                  *)
THEOREM CommandTypeCorrect == Spec => []TypeOK
  BY TypeInit, TypeNext, PTL DEF Spec

-----------------------------------------------------------------------------
(* The log speaks the truth about the device.                              *)

(* What is on its way to the log is true as well: an answer on the channel *)
(* was given, and a verdict "sent" was reached for a published command.    *)
TruthInv ==
    /\ LogIsTrue
    /\ \A i \in 1..Len(responses) : Answered(responses[i].id, responses[i].success)
    /\ handler = "wait" => current \in wire
    /\ handler \in {"read", "save"} /\ verdict = Sent => current \in wire

LEMMA TruthInit == Init => TruthInv
<1>1. Init => \A c \in Commands : log[c].status = "none"
  BY DEF Init, NoRow
<1>2. Init => Len(responses) = 0 /\ handler = "idle"
  BY EmptySequence DEF Init
<1>3. Init => LogIsTrue
  BY <1>1 DEF LogIsTrue, Success, Refused, Sent
<1> QED
  BY <1>2, <1>3 DEF TruthInv

(* Answers are kept, so what was answered stays answered.                  *)
LEMMA AnsweredStays ==
    ASSUME TypeOK, NEW c \in Commands, NEW success \in BOOLEAN, DeviceAnswer(c, success)
    PROVE  /\ Answered(c, success)'
           /\ \A d \in Commands, s \in BOOLEAN : Answered(d, s) => Answered(d, s)'
<1>1. answers[c] \in Seq(BOOLEAN)
  BY DEF TypeOK
<1>2. /\ answers'[c] = Append(answers[c], success)
      /\ \A d \in Commands \ {c} : answers'[d] = answers[d]
  BY DEF TypeOK, DeviceAnswer
<1>3. /\ Len(answers'[c]) = Len(answers[c]) + 1 /\ Len(answers[c]) \in Nat
      /\ answers'[c][Len(answers[c]) + 1] = success
      /\ \A i \in 1..Len(answers[c]) : answers'[c][i] = answers[c][i]
  BY <1>1, <1>2, PutAtEnd
<1>4. Answered(c, success)'
  BY <1>3 DEF Answered
<1>5. ASSUME NEW d \in Commands, NEW s \in BOOLEAN, Answered(d, s) PROVE Answered(d, s)'
  <2>1. CASE d = c
    BY <1>3, <1>5, <2>1 DEF Answered
  <2>2. CASE d # c
    BY <1>2, <1>5, <2>2 DEF Answered
  <2> QED
    BY <2>1, <2>2
<1> QED
  BY <1>4, <1>5

LEMMA TruthNext == TypeOK /\ TypeOK' /\ TruthInv /\ [Next]_vars => TruthInv'
<1> SUFFICES ASSUME TypeOK, TypeOK', TruthInv, [Next]_vars PROVE TruthInv'
  OBVIOUS
<1> USE DEF apiVars, handlerVars, deviceVars, sendVars, boundVars
<1>s. Sent # Success /\ Sent # Refused /\ Success # Refused /\ Failed # Sent /\ Failed # Success
      /\ Failed # Refused /\ Pending # Sent /\ Pending # Success /\ Pending # Refused
  BY DEF Pending, Sent, Failed, Success, Refused
<1>l. log \in [Commands -> Row \cup {NoRow}]
  BY DEF TypeOK
<1>1. CASE UNCHANGED vars
  BY <1>1 DEF TruthInv, LogIsTrue, Answered, vars
<1>2. ASSUME NEW c \in Commands, CreateLog(c) PROVE TruthInv'
  <2>1. \A d \in Commands : log'[d] = log[d] \/ log'[d].status = Pending
    BY <1>2, <1>l DEF CreateLog
  <2>2. LogIsTrue'
    BY <1>2, <2>1, <1>s DEF TruthInv, LogIsTrue, Answered, CreateLog
  <2> QED
    BY <1>2, <2>2 DEF TruthInv, Answered, CreateLog
<1>3. ASSUME NEW c \in Commands, PutOnBus(c) PROVE TruthInv'
  BY <1>3 DEF TruthInv, LogIsTrue, Answered, PutOnBus
<1>4. CASE Take
  BY <1>4 DEF TruthInv, LogIsTrue, Answered, Take
<1>5. CASE Encode
  BY <1>5, <1>s DEF TruthInv, LogIsTrue, Answered, Encode, Decide
<1>6. CASE Publish
  BY <1>6, <1>s DEF TruthInv, LogIsTrue, Answered, Publish, Decide
<1>7. CASE AwaitToken
  BY <1>7, <1>s DEF TruthInv, LogIsTrue, Answered, AwaitToken, Decide
<1>8. CASE ReadLog
  BY <1>8 DEF TruthInv, LogIsTrue, Answered, ReadLog
<1>9. CASE SaveLog
  <2>1. \A d \in Commands : log'[d] = log[d] \/ (d = current /\ log'[d].status = verdict)
    BY <1>9, <1>l DEF SaveLog
  <2>2. verdict \in {Sent, Failed}
    BY DEF TypeOK
  <2>3. LogIsTrue'
    BY <1>9, <2>1, <2>2, <1>s DEF TruthInv, LogIsTrue, Answered, SaveLog
  <2> QED
    BY <1>9, <2>3 DEF TruthInv, Answered, SaveLog
<1>10. ASSUME NEW c \in Commands, NEW success \in BOOLEAN, DeviceAnswer(c, success) PROVE TruthInv'
  <2> DEFINE answer == [id |-> c, success |-> success]
  <2>1. /\ Answered(c, success)'
        /\ \A d \in Commands, s \in BOOLEAN : Answered(d, s) => Answered(d, s)'
    BY <1>10, AnsweredStays
  <2>2. LogIsTrue'
    BY <1>10, <2>1 DEF TruthInv, LogIsTrue, DeviceAnswer
  <2>3. responses \in Seq(Answer) /\ answer \in Answer
    BY DEF TypeOK, Answer
  <2>4. \A i \in 1..Len(responses) : responses[i] \in Answer
    BY <2>3
  <2>5. \A i \in 1..Len(responses') :
          responses'[i] = answer \/ (i \in 1..Len(responses) /\ responses'[i] = responses[i])
    <3>1. responses' = responses \/ responses' = Append(responses, answer)
      BY <1>10 DEF DeviceAnswer
    <3> HIDE DEF answer
    <3> QED
      BY <3>1, <2>3, PutAtEnd
  <2>6. \A i \in 1..Len(responses') : Answered(responses[i].id, responses[i].success)'
    <3> SUFFICES ASSUME NEW i \in 1..Len(responses')
                 PROVE  Answered(responses[i].id, responses[i].success)'
      OBVIOUS
    <3>1. CASE responses'[i] = answer
      BY <2>1, <3>1 DEF Answered
    <3>2. CASE i \in 1..Len(responses) /\ responses'[i] = responses[i]
      <4>1. /\ responses[i].id \in Commands /\ responses[i].success \in BOOLEAN
            /\ Answered(responses[i].id, responses[i].success)
        BY <2>4, <3>2 DEF Answer, TruthInv
      <4> QED
        BY <2>1, <3>2, <4>1 DEF Answered
    <3> QED
      BY <2>5, <3>1, <3>2
  <2> QED
    BY <1>10, <2>2, <2>6 DEF TruthInv, DeviceAnswer
<1>11. CASE WriteAnswer
  <2>1. responses \in Seq(Answer) /\ responses # <<>>
    BY <1>11 DEF TypeOK, WriteAnswer
  <2>2. /\ Head(responses) = responses[1] /\ Len(responses) \in Nat /\ Len(responses) >= 1
        /\ responses' = Tail(responses) /\ Len(Tail(responses)) = Len(responses) - 1
        /\ \A i \in 1..Len(Tail(responses)) : Tail(responses)[i] = responses[i + 1]
        /\ Head(responses) \in Answer
    BY <1>11, <2>1, TakeFirst DEF WriteAnswer
  <2>3. Answered(Head(responses).id, Head(responses).success)
    BY <2>2 DEF TruthInv
  <2>4. LogIsTrue'
    <3>1. UNCHANGED <<answers, wire>>
      BY <1>11 DEF WriteAnswer
    <3>2. CASE log' = log
      BY <3>1, <3>2 DEF TruthInv, LogIsTrue, Answered
    <3>3. CASE log' = [log EXCEPT ![Head(responses).id] = Outcome(Head(responses).success)]
      BY <1>s, <2>2, <2>3, <3>1, <3>3 DEF TypeOK, Answer, TruthInv, LogIsTrue, Answered, Outcome
    <3> QED
      BY <1>11, <3>2, <3>3 DEF WriteAnswer
  <2>5. \A i \in 1..Len(responses') : Answered(responses[i].id, responses[i].success)'
    <3>1. \A i \in 1..Len(responses') : i + 1 \in 1..Len(responses) /\ responses'[i] = responses[i + 1]
      BY <2>2
    <3>2. answers' = answers
      BY <1>11 DEF WriteAnswer
    <3> SUFFICES ASSUME NEW i \in 1..Len(responses')
                 PROVE  Answered(responses[i].id, responses[i].success)'
      OBVIOUS
    <3>3. Answered(responses[i + 1].id, responses[i + 1].success)
      BY <3>1 DEF TruthInv
    <3> QED
      BY <3>1, <3>2, <3>3 DEF Answered
  <2> QED
    BY <1>11, <2>4, <2>5 DEF TruthInv, WriteAnswer
<1>12. CASE Crash
  BY <1>12, EmptySequence DEF TruthInv, LogIsTrue, Answered, Crash
<1> QED
  BY <1>1, <1>2, <1>3, <1>4, <1>5, <1>6, <1>7, <1>8, <1>9, <1>10, <1>11, <1>12
     DEF Next, ApiCall, Handle

(* The log never claims what did not happen: success and failure come from *)
(* an answer of the device to this very command, and "sent" from a publish *)
(* of it, through crashes, failing statements and late saves.              *)
THEOREM LogSpeaksTheTruth == Spec => []LogIsTrue
<1>1. TypeOK /\ TruthInv /\ [Next]_vars => TypeOK' /\ TruthInv'
  BY TypeNext, TruthNext
<1>2. TruthInv => LogIsTrue
  BY DEF TruthInv
<1> QED
  BY <1>1, <1>2, TypeInit, TruthInit, PTL DEF Spec

-----------------------------------------------------------------------------
(* Until a crash or a fault a pending command is on its way.               *)

LEMMA PendingNext ==
    TypeOK /\ PendingIsUnderWay /\ [Next]_vars => PendingIsUnderWay'
<1> SUFFICES ASSUME TypeOK, PendingIsUnderWay, [Next]_vars, NEW c \in Commands,
                    Calm', log'[c].status = Pending
             PROVE  UnderWay(c)'
  BY DEF PendingIsUnderWay, NoneForgotten
<1> USE DEF apiVars, handlerVars, deviceVars, sendVars, boundVars
<1>n. faults \in Nat /\ crashes \in Nat
  BY CommandAssumption DEF TypeOK
<1>f. ~Fault /\ ~Crash
  BY <1>n DEF Calm, Fault, Crash
<1>c. Calm
  <2>1. faults' = 0 /\ crashes' = 0
    BY DEF Calm
  <2>2. faults' = faults /\ crashes' = crashes
    <3>1. CASE UNCHANGED vars
      BY <3>1 DEF vars
    <3>2. CASE \E d \in Commands : ApiCall(d)
      BY <3>2, <1>f DEF ApiCall, CreateLog, PutOnBus
    <3>3. CASE Take \/ Encode \/ Publish \/ AwaitToken
      BY <3>3 DEF Take, Encode, Publish, AwaitToken
    <3>4. CASE ReadLog \/ SaveLog \/ WriteAnswer
      BY <3>4, <1>f DEF ReadLog, SaveLog, WriteAnswer
    <3>5. ASSUME NEW d \in Commands, NEW success \in BOOLEAN, DeviceAnswer(d, success)
          PROVE  faults' = faults /\ crashes' = crashes
      BY <3>5 DEF DeviceAnswer
    <3> QED
      BY <1>f, <3>1, <3>2, <3>3, <3>4, <3>5 DEF Next, Handle
  <2> QED
    BY <2>1, <2>2 DEF Calm
<1>s. Pending # Sent /\ Pending # Failed /\ Pending # Success /\ Pending # Refused
  BY DEF Pending, Sent, Failed, Success, Refused
<1>b. bus \in Seq(Commands)
  BY DEF TypeOK
<1>l. log \in [Commands -> Row \cup {NoRow}]
  BY DEF TypeOK
<1>1. CASE UNCHANGED vars
  BY <1>1, <1>c DEF PendingIsUnderWay, NoneForgotten, UnderWay, vars
<1>2. ASSUME NEW d \in Commands, CreateLog(d) PROVE UnderWay(c)'
  BY <1>2, <1>f, <1>c DEF TypeOK, PendingIsUnderWay, NoneForgotten, UnderWay, CreateLog
<1>3. ASSUME NEW d \in Commands, PutOnBus(d) PROVE UnderWay(c)'
  <2>1. /\ Len(bus') = Len(bus) + 1 /\ Len(bus) \in Nat /\ bus'[Len(bus) + 1] = d
        /\ \A i \in 1..Len(bus) : bus'[i] = bus[i]
    BY <1>3, <1>b, PutAtEnd DEF PutOnBus
  <2>2. UnderWay(c)
    BY <1>3, <1>c DEF PendingIsUnderWay, NoneForgotten, PutOnBus
  <2>3. CASE c = d
    BY <2>1, <2>3 DEF UnderWay
  <2>4. CASE c # d
    BY <1>3, <2>1, <2>2, <2>4 DEF TypeOK, UnderWay, PutOnBus
  <2> QED
    BY <2>3, <2>4
<1>4. CASE Take
  <2>1. /\ bus' = Tail(bus) /\ current' = bus[1] /\ Len(bus) \in Nat
        /\ Len(bus') = Len(bus) - 1 /\ \A i \in 1..Len(bus') : bus'[i] = bus[i + 1]
    BY <1>4, <1>b, TakeFirst DEF Take
  <2>2. UnderWay(c) /\ handler = "idle" /\ handler' # "idle" /\ caller' = caller
    BY <1>4, <1>c DEF PendingIsUnderWay, NoneForgotten, Take
  <2>3. ASSUME NEW i \in 1..Len(bus), bus[i] = c PROVE UnderWay(c)'
    <3>1. CASE i = 1
      BY <2>1, <2>2, <2>3, <3>1 DEF UnderWay
    <3>2. CASE i # 1
      <4>1. i - 1 \in 1..Len(bus') /\ bus'[i - 1] = c
        BY <2>1, <2>3, <3>2
      <4> QED
        BY <4>1 DEF UnderWay
    <3> QED
      BY <3>1, <3>2
  <2> QED
    BY <2>2, <2>3 DEF UnderWay
<1>5. CASE Encode \/ Publish \/ AwaitToken
  BY <1>5, <1>c DEF PendingIsUnderWay, NoneForgotten, UnderWay, Encode, Publish, AwaitToken, Decide
<1>6. CASE ReadLog
  BY <1>6, <1>f, <1>c DEF PendingIsUnderWay, NoneForgotten, UnderWay, ReadLog, NoRow, Pending
<1>7. CASE SaveLog
  <2>1. log'[c] = log[c] \/ (c = current /\ log'[c].status = verdict)
    BY <1>7, <1>l DEF SaveLog
  <2>2. verdict \in {Sent, Failed}
    BY DEF TypeOK
  <2>3. c # current
    <3>1. current \in Commands /\ log'[current].status = verdict
      BY <1>7, <1>f, <1>l DEF TypeOK, SaveLog
    <3> QED
      BY <3>1, <2>2, <1>s
  <2> QED
    BY <1>7, <1>c, <2>1, <2>3 DEF PendingIsUnderWay, NoneForgotten, UnderWay, SaveLog
<1>8. ASSUME NEW d \in Commands, NEW success \in BOOLEAN, DeviceAnswer(d, success) PROVE UnderWay(c)'
  BY <1>8, <1>c DEF PendingIsUnderWay, NoneForgotten, UnderWay, DeviceAnswer
<1>9. CASE WriteAnswer
  <2>1. log[c].status = Pending
    <3>1. \A success : Outcome(success).status # Pending
      BY <1>s DEF Outcome
    <3>2. log' = log \/ log' = [log EXCEPT ![Head(responses).id] = Outcome(Head(responses).success)]
      BY <1>9 DEF WriteAnswer
    <3> QED
      BY <1>l, <3>1, <3>2
  <2> QED
    BY <1>9, <1>c, <2>1 DEF PendingIsUnderWay, NoneForgotten, UnderWay, WriteAnswer
<1> QED
  BY <1>1, <1>2, <1>3, <1>4, <1>5, <1>6, <1>7, <1>8, <1>9, <1>f DEF Next, ApiCall, Handle

(* Until the server crashes or a statement fails, a row is pending only    *)
(* while its command is on its way to being decided: no interleaving of    *)
(* callers, handler and answers forgets one.                               *)
THEOREM PendingCommandsAreUnderWay == Spec => []PendingIsUnderWay
<1>1. Init => PendingIsUnderWay
  BY DEF Init, PendingIsUnderWay, NoneForgotten, NoRow, Pending
<1> QED
  BY <1>1, TypeInit, TypeNext, PendingNext, PTL DEF Spec

-----------------------------------------------------------------------------
(* Commands go out in the order of the calls, and each at most once.       *)

(* The call of a went on the bus before the call of b.                     *)
Before(a, b) ==
    \E k, l \in 1..Len(accepted) : k < l /\ accepted[k] = a /\ accepted[l] = b

Accepted(c) == \E k \in 1..Len(accepted) : accepted[k] = c

(* Each call puts its command on the bus once.                             *)
AcceptedOnce ==
    /\ \A k \in 1..Len(accepted) : caller[accepted[k]] = "done"
    /\ \A k, l \in 1..Len(accepted) : accepted[k] = accepted[l] => k = l

ToPublish == handler \in {"encode", "publish"}

(* What was published, then the command at the handler, then what is on    *)
(* the bus are in the order of the calls.                                  *)
OrderInv ==
    /\ \A i \in 1..Len(bus) : Accepted(bus[i])
    /\ \A i, j \in 1..Len(bus) : i < j => Before(bus[i], bus[j])
    /\ ToPublish => Accepted(current)
    /\ ToPublish => \A i \in 1..Len(bus) : Before(current, bus[i])
    /\ \A i \in 1..Len(published) : Accepted(published[i])
    /\ \A i \in 1..Len(published) : ToPublish => Before(published[i], current)
    /\ \A i \in 1..Len(published), j \in 1..Len(bus) : Before(published[i], bus[j])
    /\ \A i, j \in 1..Len(published) : i < j => Before(published[i], published[j])

LEMMA OrderInit == Init => AcceptedOnce /\ OrderInv
<1>1. Init => Len(bus) = 0 /\ Len(accepted) = 0 /\ Len(published) = 0 /\ handler = "idle"
  BY EmptySequence DEF Init
<1> QED
  BY <1>1 DEF AcceptedOnce, OrderInv, ToPublish

(* A call adds its command after all the others, so it keeps their order.  *)
LEMMA AcceptAtEnd ==
    ASSUME TypeOK, AcceptedOnce, NEW c \in Commands, PutOnBus(c)
    PROVE  /\ AcceptedOnce'
           /\ \A a, b : Before(a, b) => Before(a, b)'
           /\ \A a : Accepted(a) => Accepted(a)' /\ Before(a, c)'
           /\ Accepted(c)'
<1>1. /\ accepted \in Seq(Commands) /\ caller \in [Commands -> {"start", "put", "done"}]
      /\ Len(accepted) \in Nat
  BY DEF TypeOK
<1>2. /\ accepted' = Append(accepted, c) /\ caller' = [caller EXCEPT ![c] = "done"]
      /\ caller[c] = "put"
  BY DEF PutOnBus
<1>3. /\ Len(accepted') = Len(accepted) + 1 /\ accepted'[Len(accepted) + 1] = c
      /\ \A k \in 1..Len(accepted) : accepted'[k] = accepted[k]
  BY <1>1, <1>2, PutAtEnd
<1>4. \A k \in 1..Len(accepted) : accepted[k] \in Commands /\ accepted[k] # c
  BY <1>1, <1>2 DEF AcceptedOnce
<1>5. AcceptedOnce'
  <2>1. \A k \in 1..Len(accepted') : k \in 1..Len(accepted) \/ k = Len(accepted) + 1
    BY <1>1, <1>3
  <2>2. \A k \in 1..Len(accepted') : caller'[accepted'[k]] = "done"
    BY <1>1, <1>2, <1>3, <1>4, <2>1 DEF AcceptedOnce
  <2>3. \A k, l \in 1..Len(accepted') : accepted'[k] = accepted'[l] => k = l
    BY <1>3, <1>4, <2>1 DEF AcceptedOnce
  <2> QED
    BY <2>2, <2>3 DEF AcceptedOnce
<1>6. ASSUME NEW a, NEW b, Before(a, b) PROVE Before(a, b)'
  <2>1. PICK k, l \in 1..Len(accepted) : k < l /\ accepted[k] = a /\ accepted[l] = b
    BY <1>6 DEF Before
  <2>2. k \in 1..Len(accepted') /\ l \in 1..Len(accepted')
    BY <1>1, <1>3
  <2> QED
    BY <1>3, <2>1, <2>2 DEF Before
<1>7. ASSUME NEW a, Accepted(a) PROVE Accepted(a)' /\ Before(a, c)'
  <2>1. PICK k \in 1..Len(accepted) : accepted[k] = a
    BY <1>7 DEF Accepted
  <2>2. /\ k \in 1..Len(accepted') /\ Len(accepted) + 1 \in 1..Len(accepted')
        /\ k < Len(accepted) + 1
    BY <1>1, <1>3
  <2> QED
    BY <1>3, <2>1, <2>2 DEF Accepted, Before
<1>8. Accepted(c)'
  BY <1>1, <1>3 DEF Accepted
<1> QED
  BY <1>5, <1>6, <1>7, <1>8

LEMMA OrderNext == TypeOK /\ AcceptedOnce /\ OrderInv /\ [Next]_vars => AcceptedOnce' /\ OrderInv'
<1> SUFFICES ASSUME TypeOK, AcceptedOnce, OrderInv, [Next]_vars
             PROVE  AcceptedOnce' /\ OrderInv'
  OBVIOUS
<1> USE DEF apiVars, handlerVars, deviceVars, sendVars, boundVars
<1>b. bus \in Seq(Commands) /\ published \in Seq(Commands) /\ accepted \in Seq(Commands)
  BY DEF TypeOK
<1>c. caller \in [Commands -> {"start", "put", "done"}]
  BY DEF TypeOK
<1>u. ASSUME UNCHANGED <<bus, published, accepted>>, UNCHANGED caller \/ (\E d \in Commands : CreateLog(d)),
             ToPublish' => ToPublish /\ current' = current
      PROVE  AcceptedOnce' /\ OrderInv'
  <2>1. \A k \in 1..Len(accepted) : caller'[accepted[k]] = "done"
    BY <1>u, <1>b, <1>c DEF AcceptedOnce, CreateLog
  <2>2. AcceptedOnce'
    BY <1>u, <2>1 DEF AcceptedOnce
  <2>3. (\A a, b : Before(a, b)' <=> Before(a, b)) /\ (\A a : Accepted(a)' <=> Accepted(a))
    BY <1>u DEF Accepted, Before
  <2>4. CASE ToPublish'
    BY <1>u, <2>2, <2>3, <2>4 DEF OrderInv
  <2>5. CASE ~ToPublish'
    BY <1>u, <2>2, <2>3, <2>5 DEF OrderInv
  <2> QED
    BY <2>4, <2>5
<1>1. CASE UNCHANGED vars
  BY <1>1, <1>u DEF ToPublish, vars
<1>2. ASSUME NEW c \in Commands, CreateLog(c) PROVE AcceptedOnce' /\ OrderInv'
  BY <1>2, <1>u DEF ToPublish, CreateLog
<1>3. ASSUME NEW c \in Commands, PutOnBus(c) PROVE AcceptedOnce' /\ OrderInv'
  <2>1. /\ Len(bus') = Len(bus) + 1 /\ Len(bus) \in Nat /\ bus'[Len(bus) + 1] = c
        /\ \A i \in 1..Len(bus) : bus'[i] = bus[i]
    BY <1>3, <1>b, PutAtEnd DEF PutOnBus
  <2>2. \A i \in 1..Len(bus') : i \in 1..Len(bus) \/ i = Len(bus) + 1
    BY <2>1
  <2>3. UNCHANGED <<published, handler, current>>
    BY <1>3 DEF PutOnBus
  <2>4. /\ AcceptedOnce' /\ Accepted(c)'
        /\ \A a, b : Before(a, b) => Before(a, b)'
        /\ \A a : Accepted(a) => Accepted(a)' /\ Before(a, c)'
    BY <1>3, AcceptAtEnd
  <2>5. \A i \in 1..Len(bus') : Accepted(bus[i])'
    BY <2>1, <2>2, <2>4 DEF OrderInv
  <2>6. \A i, j \in 1..Len(bus') : i < j => Before(bus[i], bus[j])'
    <3> SUFFICES ASSUME NEW i \in 1..Len(bus'), NEW j \in 1..Len(bus'), i < j
                 PROVE  Before(bus[i], bus[j])'
      OBVIOUS
    <3>1. i \in 1..Len(bus)
      BY <2>1, <2>2
    <3>2. CASE j \in 1..Len(bus)
      BY <2>1, <2>4, <3>1, <3>2 DEF OrderInv
    <3>3. CASE j = Len(bus) + 1
      BY <2>1, <2>4, <3>1, <3>3 DEF OrderInv
    <3> QED
      BY <2>2, <3>2, <3>3
  <2>7. ToPublish' => Accepted(current)' /\ \A i \in 1..Len(bus') : Before(current, bus[i])'
    BY <2>1, <2>2, <2>3, <2>4 DEF OrderInv, ToPublish
  <2>8. \A i \in 1..Len(published') :
           /\ Accepted(published[i])'
           /\ ToPublish' => Before(published[i], current)'
           /\ \A j \in 1..Len(bus') : Before(published[i], bus[j])'
           /\ \A j \in 1..Len(published') : i < j => Before(published[i], published[j])'
    BY <2>1, <2>2, <2>3, <2>4 DEF OrderInv, ToPublish
  <2> QED
    BY <2>4, <2>5, <2>6, <2>7, <2>8 DEF OrderInv
<1>4. CASE Take
  <2>1. /\ current' = bus[1] /\ 1 \in 1..Len(bus)
        /\ \A i \in 1..Len(bus') : /\ i + 1 \in 1..Len(bus) /\ bus'[i] = bus[i + 1]
                                   /\ 1 < i + 1
        /\ \A i, j \in 1..Len(bus') : i < j => i + 1 < j + 1
    BY <1>4, <1>b, TakeFirst DEF Take
  <2>2. UNCHANGED <<published, accepted, caller>>
    BY <1>4 DEF Take
  <2>3. /\ AcceptedOnce'
        /\ (\A a, b : Before(a, b)' <=> Before(a, b)) /\ (\A a : Accepted(a)' <=> Accepted(a))
    BY <2>2 DEF AcceptedOnce, Accepted, Before
  <2>4. \A i \in 1..Len(bus') :
           /\ Accepted(bus[i])' /\ Before(current, bus[i])'
           /\ \A j \in 1..Len(bus') : i < j => Before(bus[i], bus[j])'
    BY <2>1, <2>3 DEF OrderInv
  <2>5. Accepted(current)'
    BY <2>1, <2>3 DEF OrderInv
  <2>6. \A i \in 1..Len(published') :
           /\ Accepted(published[i])' /\ Before(published[i], current)'
           /\ \A j \in 1..Len(bus') : Before(published[i], bus[j])'
           /\ \A j \in 1..Len(published') : i < j => Before(published[i], published[j])'
    BY <2>1, <2>2, <2>3 DEF OrderInv
  <2> QED
    BY <2>3, <2>4, <2>5, <2>6 DEF OrderInv
<1>5. CASE Encode
  BY <1>5, <1>u DEF ToPublish, Encode, Decide
<1>6. CASE Publish
  <2>1. CASE Decide(Failed) /\ UNCHANGED sendVars
    BY <1>6, <2>1, <1>u DEF ToPublish, Publish, Decide
  <2>2. CASE published' = Append(published, current) /\ handler' = "wait"
    <3>1. current \in Commands
      BY DEF TypeOK
    <3>2. /\ Len(published') = Len(published) + 1 /\ Len(published) \in Nat
          /\ published'[Len(published) + 1] = current
          /\ \A i \in 1..Len(published) : published'[i] = published[i]
      BY <2>2, <3>1, <1>b, PutAtEnd
    <3>3. \A i \in 1..Len(published') : i \in 1..Len(published) \/ i = Len(published) + 1
      BY <3>2
    <3>4. UNCHANGED <<bus, accepted, caller, current>> /\ ToPublish /\ ~ToPublish'
      BY <1>6, <2>2 DEF Publish, ToPublish
    <3>5. AcceptedOnce' /\ (\A a, b : Before(a, b)' <=> Before(a, b)) /\ (\A a : Accepted(a)' <=> Accepted(a))
      BY <3>4 DEF AcceptedOnce, Before, Accepted
    <3>6. \A i, j \in 1..Len(published') : i < j => Before(published[i], published[j])'
      <4> SUFFICES ASSUME NEW i \in 1..Len(published'), NEW j \in 1..Len(published'), i < j
                   PROVE  Before(published[i], published[j])'
        OBVIOUS
      <4>1. i \in 1..Len(published)
        BY <3>2, <3>3
      <4> QED
        BY <3>2, <3>3, <3>4, <3>5, <4>1 DEF OrderInv
    <3>7. \A i \in 1..Len(published') :
             Accepted(published[i])' /\ \A j \in 1..Len(bus') : Before(published[i], bus[j])'
      BY <3>2, <3>3, <3>4, <3>5 DEF OrderInv
    <3> QED
      BY <3>4, <3>5, <3>6, <3>7 DEF OrderInv
  <2> QED
    BY <1>6, <2>1, <2>2 DEF Publish
<1>7. CASE AwaitToken \/ ReadLog \/ SaveLog
  BY <1>7, <1>u DEF ToPublish, AwaitToken, ReadLog, SaveLog, Decide
<1>8. ASSUME NEW c \in Commands, NEW success \in BOOLEAN, DeviceAnswer(c, success)
      PROVE  AcceptedOnce' /\ OrderInv'
  BY <1>8, <1>u DEF ToPublish, DeviceAnswer
<1>9. CASE WriteAnswer
  BY <1>9, <1>u DEF ToPublish, WriteAnswer
<1>10. CASE Crash
  <2>1. Len(bus') = 0 /\ ~ToPublish' /\ UNCHANGED <<accepted, published>>
    BY <1>10, EmptySequence DEF Crash, ToPublish
  <2>2. AcceptedOnce'
    BY <1>10, <1>b DEF AcceptedOnce, Crash
  <2>3. (\A a, b : Before(a, b)' <=> Before(a, b)) /\ (\A a : Accepted(a)' <=> Accepted(a))
    BY <2>1 DEF Accepted, Before
  <2> QED
    BY <2>1, <2>2, <2>3 DEF OrderInv
<1> QED
  BY <1>1, <1>2, <1>3, <1>4, <1>5, <1>6, <1>7, <1>8, <1>9, <1>10 DEF Next, ApiCall, Handle

(* A command is given to the MQTT client at most once, and commands go out *)
(* in the order in which the calls put them on the bus, also when the      *)
(* server crashes: a restart loses what was on the bus and repeats nothing.*)
THEOREM CommandsGoOutInOrder == Spec => []PublishedInOrder
<1>1. TypeOK /\ AcceptedOnce /\ OrderInv => PublishedInOrder
  <2> SUFFICES ASSUME TypeOK, AcceptedOnce, OrderInv PROVE PublishedInOrder
    OBVIOUS
  <2>1. Len(published) \in Nat /\ Len(accepted) \in Nat
    BY DEF TypeOK
  <2>2. \A a : ~Before(a, a)
    BY <2>1 DEF AcceptedOnce, Before
  <2>3. \A i, j \in 1..Len(published) : i < j => Before(published[i], published[j])
    BY DEF OrderInv
  <2>4. \A i, j \in 1..Len(published) : published[i] = published[j] => i = j
    BY <2>1, <2>2, <2>3
  <2> QED
    BY <2>3, <2>4 DEF PublishedInOrder, Before
<1> QED
  BY <1>1, OrderInit, OrderNext, TypeInit, TypeNext, PTL DEF Spec
=============================================================================
