----------------------- MODULE BlockGenerationProofs -----------------------
(* Proofs about generated blocks: for any texts, rules, validators and      *)
(* interfaces, what a handler may hand back as clean, as failed and empty.  *)
EXTENDS BlockGeneration, TLAPS

-----------------------------------------------------------------------------
(* The inductive invariant.  A reply is judged by the request it answers, so *)
(* its facts relate the two; no fact about the port is needed.               *)

\* Only the testbench block uses the generator whose stub is empty.
StubFits == pc # "idle" /\ job.gen = WriteTestbench => kind = "testbench"

\* A clean repair has no repair fault.
RepairIsClean ==
    pc = "replied" /\ job.gen \in Repairs /\ reply.verdict = "ok" => ~RepairFault(reply.text)

\* An empty reply to a request that sent a text.
EmptyReply ==
    pc = "replied" /\ reply.text = NoText => job.prev = NoText \/ job.gen \in Blanking

IInv ==
    /\ TypeOK
    /\ StubFits
    /\ RepairSeesText
    /\ OkIsEarned
    /\ FailureIsNeutral
    /\ RepairIsClean
    /\ EmptyReply

-----------------------------------------------------------------------------
(* What tells the generators apart *)

\* The generators by what the proofs need of them: who checks what, who restores
\* an empty text, whose stub is empty, who is shown an empty draft.
LEMMA GeneratorFacts ==
    ASSUME NEW g \in Generators
    PROVE  /\ g # WriteCode => g.check \in {"own", "text", "repair"}
           /\ g \in {WriteTestbench, WriteSpec, WriteDesign, WriteNetlist, WriteCase}
                => g.check = "own"
           /\ g \in Repairs => g.check = "repair" /\ g.same = "always"
           /\ g = FixProgram => g.same = "always"
           /\ g \in {WriteTestbench, WriteCase} => g.same = "reviewed"
           /\ g \notin Blanking => g.restores
           /\ g # WriteTestbench => g.stub = "request"
           /\ g \notin {WriteCode, WriteTestbench, WriteCase} => g.shows \in {"request", "lastText"}
           /\ g.rounds \in 0..2
BY DEF Generators, Repairs, Blanking, WriteCode, RepairCode, WriteTestbench, WriteSpec,
       WriteDesign, RepairDesign, WriteNetlist, FixProgram, WriteCase

\* The generators a request can name are generators.
LEMMA ChosenGenerators ==
    ASSUME NEW prev, NEW feedback, NEW b
    PROVE  /\ CodeGenerator(prev, feedback, b) \in {WriteCode, RepairCode}
           /\ DesignGenerator(prev, feedback, b) \in {WriteDesign, RepairDesign}
           /\ {WriteCode, RepairCode, WriteDesign, RepairDesign} \subseteq Generators
           /\ prev = NoText => DesignGenerator(prev, feedback, b) = WriteDesign
BY DEF CodeGenerator, DesignGenerator, Generators

\* A testbench generator is none of the others.
LEMMA TestbenchApart ==
    WriteTestbench \notin {WriteCode, RepairCode, WriteSpec, WriteDesign, RepairDesign,
                          WriteNetlist, FixProgram, WriteCase}
BY DEF WriteCode, RepairCode, WriteTestbench, WriteSpec, WriteDesign, RepairDesign,
       WriteNetlist, FixProgram, WriteCase

\* The empty text is not one of the texts, and a text's module has a name.
LEMMA Apart == NoText \notin Texts /\ NoText \in Text /\ \A t \in Text : TopOf(t) \in Names \cup {NoName}
BY TextsAssumption DEF Text, TopOf

-----------------------------------------------------------------------------
(* Every step keeps the invariant *)

\* The initial states satisfy it.
LEMMA InitIInv == Init => IInv
  <1> SUFFICES ASSUME Init PROVE IInv
    OBVIOUS
  <1> USE DEF Init
  <1>1. TypeOK
    <2>1. NoJob \in Jobs
      BY DEF NoJob, Jobs, Text, Generators
    <2>2. NoJob.round <= NoJob.gen.rounds
      BY DEF NoJob, WriteCode
    <2> QED
      BY <2>1, <2>2 DEF TypeOK, Text
  <1>2. reply.verdict = "none"
    BY DEF NoReply
  <1> QED
    BY <1>1, <1>2 DEF IInv, StubFits, RepairSeesText, OkIsEarned, FailureIsNeutral,
                      RepairIsClean, EmptyReply

\* A handler that starts: the round is zero, the draft is the request's text, and
\* the reply, if there is one, is the stub.
LEMMA AskKeeps ==
    ASSUME IInv, NEW new \in Jobs, NEW usable, new.round = 0, new.gen = WriteTestbench => kind = "testbench",
           Ask(new, usable)
    PROVE  IInv'
  <1> USE DEF Ask, IInv
  <1>1. /\ job' \in Jobs
        /\ job'.gen = new.gen /\ job'.prev = new.prev /\ job'.round = 0
        /\ job'.draft = IF new.gen.shows = "nothing" THEN NoText ELSE new.prev
    BY Apart DEF Jobs
  <1>2. new.gen \in Generators /\ new.prev \in Text
    BY DEF Jobs
  <1>3. new.gen.rounds \in 0..2 /\ (new.gen # WriteTestbench => new.gen.stub = "request")
    BY <1>2, GeneratorFacts
  <1>4. CASE pc' = "asking" /\ UNCHANGED reply
    <2>1. reply' = NoReply /\ reply'.verdict = "none"
      BY <1>4 DEF TypeOK, NoReply
    <2>2. TypeOK'
      BY <1>1, <1>3, <1>4, <2>1 DEF TypeOK
    <2>3. RepairSeesText'
      BY <1>1, <1>2, GeneratorFacts DEF RepairSeesText
    <2> QED
      BY <1>1, <1>4, <2>1, <2>2, <2>3
         DEF StubFits, OkIsEarned, FailureIsNeutral, RepairIsClean, EmptyReply
  <1>5. CASE pc' = "replied" /\ reply' = Stub(new.gen, new.prev)
    <2>1. /\ reply' \in Replies /\ reply'.verdict = "error"
          /\ new.gen # WriteTestbench => reply'.text = new.prev
      BY <1>2, <1>3, <1>5, Apart DEF Stub, Replies
    <2>2. TypeOK'
      BY <1>1, <1>3, <1>5, <2>1 DEF TypeOK
    <2> QED
      BY <1>1, <1>5, <2>1, <2>2
         DEF StubFits, RepairSeesText, OkIsEarned, FailureIsNeutral, RepairIsClean, EmptyReply,
             Blanking
  <1> QED
    BY <1>4, <1>5

\* The requests of the handlers are well-formed.
LEMMA RequestKeeps == IInv /\ Request => IInv'
  <1> SUFFICES ASSUME IInv, Request PROVE IInv'
    OBVIOUS
  <1> USE Apart, ChosenGenerators
  <1>1. NoJob \in Jobs
    BY DEF NoJob, Jobs, Generators
  <1>2. ASSUME NEW gen \in Generators, NEW prev \in Text, NEW feedback \in BOOLEAN,
               NEW rules \in SUBSET Rules
        PROVE  /\ Review(gen, prev, feedback, rules) \in Jobs
               /\ Review(gen, prev, feedback, rules).gen = gen
               /\ Review(gen, prev, feedback, rules).round = 0
    BY <1>1 DEF Review, Jobs, NoJob
  <1>3. CASE AskCode
    <2> PICK prev \in Text, feedback \in BOOLEAN, hdl \in BOOLEAN :
          Ask([NoJob EXCEPT !.gen = CodeGenerator(prev, feedback, hdl), !.prev = prev,
                            !.feedback = feedback, !.top = TopOf(prev)], TRUE)
      BY <1>3 DEF AskCode
    <2> DEFINE new == [NoJob EXCEPT !.gen = CodeGenerator(prev, feedback, hdl), !.prev = prev,
                                    !.feedback = feedback, !.top = TopOf(prev)]
    <2>1. CodeGenerator(prev, feedback, hdl) \in {WriteCode, RepairCode}
      OBVIOUS
    <2>2. new \in Jobs /\ new.round = 0 /\ new.gen = CodeGenerator(prev, feedback, hdl)
      BY <1>1, <2>1 DEF Jobs, NoJob
    <2> QED
      BY <2>1, <2>2, AskKeeps, TestbenchApart
  <1>4. CASE AskTestbench
    <2> PICK prev \in Text, feedback \in BOOLEAN, specified \in BOOLEAN, rules \in SUBSET Rules :
          kind = "testbench" /\ Ask(Review(WriteTestbench, prev, feedback, rules), specified)
      BY <1>4 DEF AskTestbench
    <2> QED
      BY <1>2, AskKeeps DEF Generators
  <1>5. CASE AskSpec
    <2> PICK prev \in Text, feedback \in BOOLEAN, usable \in BOOLEAN, rules \in SUBSET Rules :
          Ask(Review(WriteSpec, prev, feedback, rules), usable)
      BY <1>5 DEF AskSpec
    <2> QED
      BY <1>2, AskKeeps, TestbenchApart DEF Generators
  <1>6. CASE AskDesign
    <2> PICK prev \in Text, feedback, specified \in BOOLEAN, rules, inferred \in SUBSET Rules,
             changesPorts \in BOOLEAN, top \in Names \cup {NoName},
             language \in {"verilog", "vhdl", "other"} :
          LET gen == DesignGenerator(prev, feedback, changesPorts) IN
          /\ kind = "code_hdl"
          /\ changesPorts => rules # {}
          /\ inferred # {} => specified
          /\ gen = WriteDesign => top # NoName
          /\ Ask(Design(Review(gen, prev, feedback, rules), inferred, top, language),
                 language # "other" /\ (gen = RepairDesign \/ specified))
      BY <1>6 DEF AskDesign
    <2> DEFINE gen == DesignGenerator(prev, feedback, changesPorts)
    <2> DEFINE request == Review(gen, prev, feedback, rules)
    <2> DEFINE new == Design(request, inferred, top, language)
    <2>1. gen \in {WriteDesign, RepairDesign} /\ gen \in Generators
      OBVIOUS
    <2>2. request \in Jobs /\ request.gen = gen /\ request.round = 0
      BY <1>2, <2>1
    <2>3. new \in Jobs /\ new.round = 0 /\ new.gen = gen
      <3> HIDE DEF request, gen
      <3>1. /\ inferred \ request.rules \in SUBSET Rules
            /\ (IF top = NoName THEN TopOf(request.prev) ELSE top) \in Names \cup {NoName}
            /\ (language = "vhdl") \in BOOLEAN
        BY <2>2 DEF Jobs
      <3> DEFINE added == inferred \ request.rules
                 named == IF top = NoName THEN TopOf(request.prev) ELSE top
                 vhdl == language = "vhdl"
      <3>2. new = [request EXCEPT !.inferred = added, !.top = named, !.vhdl = vhdl]
        BY DEF Design
      <3> HIDE DEF new, added, named, vhdl
      <3>3. added \in SUBSET Rules /\ named \in Names \cup {NoName} /\ vhdl \in BOOLEAN
        BY <3>1 DEF added, named, vhdl
      <3> QED
        BY <2>2, <3>2, <3>3 DEF Jobs
    <2>4. Ask(new, language # "other" /\ (gen = RepairDesign \/ specified))
      OBVIOUS
    <2> HIDE DEF new, request, gen
    <2> QED
      BY <2>1, <2>3, <2>4, AskKeeps, TestbenchApart
  <1>7. CASE AskNetlist
    <2> PICK prev \in Text, feedback \in BOOLEAN, described \in BOOLEAN :
          Ask(Review(WriteNetlist, prev, feedback, {}), described \/ prev # NoText)
      BY <1>7 DEF AskNetlist
    <2> QED
      BY <1>2, AskKeeps, TestbenchApart DEF Generators
  <1>8. CASE AskFix
    <2> PICK prev \in Text, ordered \in BOOLEAN, rules \in SUBSET Rules :
          Ask(Review(FixProgram, prev, ordered, rules), prev # NoText /\ ordered)
      BY <1>8 DEF AskFix
    <2> QED
      BY <1>2, AskKeeps, TestbenchApart DEF Generators
  <1>9. CASE AskCase
    <2> PICK prev \in Text, feedback \in BOOLEAN, usable \in BOOLEAN, rules \in SUBSET Rules :
          Ask(Review(WriteCase, prev, feedback, rules), usable)
      BY <1>9 DEF AskCase
    <2> QED
      BY <1>2, AskKeeps, TestbenchApart DEF Generators
  <1> QED
    BY <1>3, <1>4, <1>5, <1>6, <1>7, <1>8, <1>9 DEF Request

\* A rejected draft: the next round has a text to show where the one before had.
LEMMA RepairKeeps == IInv /\ Repair => IInv'
  <1> SUFFICES ASSUME IInv, Repair PROVE IInv'
    OBVIOUS
  <1> USE DEF IInv
  <1>1. PICK t \in Text : job' = [job EXCEPT !.round = @ + 1, !.draft = NextDraft(t)]
    BY DEF Repair
  <1>2. job \in Jobs /\ job.gen \in Generators /\ job.round < job.gen.rounds
        /\ pc' = "asking" /\ pc = "asking" /\ UNCHANGED <<kind, keys, port, reply>>
    BY DEF TypeOK, Repair, Jobs
  <1>3. NextDraft(t) \in Text
    BY <1>2 DEF NextDraft, Jobs
  <1>4. job.round + 1 \in 0..2 /\ job.round + 1 <= job.gen.rounds
    BY <1>2, GeneratorFacts DEF Jobs
  <1>5. job' \in Jobs /\ job'.round = job.round + 1 /\ job'.draft = NextDraft(t)
        /\ job'.gen = job.gen /\ job'.prev = job.prev
    BY <1>1, <1>2, <1>3, <1>4 DEF Jobs
  <1>6. TypeOK'
    BY <1>2, <1>4, <1>5 DEF TypeOK
  <1>7. RepairSeesText'
    <2> SUFFICES ASSUME job.prev # NoText,
                        job.gen \notin {WriteCode, WriteTestbench, WriteCase}
                 PROVE  NextDraft(t) # NoText
      BY <1>5 DEF RepairSeesText
    <2>1. job.gen.shows \in {"request", "lastText"} /\ job.draft # NoText
      BY <1>2, GeneratorFacts DEF RepairSeesText
    <2> QED
      BY <2>1 DEF NextDraft
  <1>8. reply'.verdict = "none"
    BY <1>2 DEF TypeOK, NoReply
  <1> QED
    BY <1>2, <1>5, <1>6, <1>7, <1>8
       DEF StubFits, OkIsEarned, FailureIsNeutral, RepairIsClean, EmptyReply

\* The last draft: what the verdict says of it is true of what is handed back.
LEMMA ConcludeKeeps == IInv /\ Conclude => IInv'
  <1> SUFFICES ASSUME IInv, Conclude PROVE IInv'
    OBVIOUS
  <1> USE DEF IInv
  <1>1. PICK t \in Text, gaps \in SUBSET job.rules :
          reply' = [text |-> Result(t), verdict |-> Verdict(t, gaps)]
    BY DEF Conclude
  <1>2. pc = "asking" /\ pc' = "replied" /\ UNCHANGED <<kind, keys, port, job>>
        /\ job \in Jobs /\ job.gen \in Generators
    BY DEF Conclude, TypeOK, Jobs
  <1>3. Result(t) \in Text /\ Verdict(t, gaps) \in {"ok", "needs_review"}
    BY <1>2 DEF Result, Verdict, Jobs
  <1>4. /\ reply' \in Replies
        /\ reply'.text = Result(t) /\ reply'.verdict = Verdict(t, gaps)
    BY <1>1, <1>3 DEF Replies
  <1>5. TypeOK'
    BY <1>2, <1>4 DEF TypeOK
  <1>6. ASSUME Verdict(t, gaps) = "ok", job.gen # WriteCode
        PROVE  /\ Result(t) = t /\ t # NoText /\ t \in Texts
               /\ ~Faulty(t) /\ Unmet(t) = {} /\ job.inferred \subseteq Meets[t]
    <2>1. job.gen.check # "none"
      BY <1>2, <1>6, GeneratorFacts
    <2>2. ~Rejected(t, gaps) /\ ~Warned(t, Result(t))
      BY <1>6 DEF Verdict
    <2>3. ~Faulty(t) /\ Unmet(t) = {}
      BY <2>1, <2>2 DEF Rejected
    <2>4. t # NoText
      BY <2>3 DEF Faulty
    <2>5. Result(t) = t /\ t \in Texts
      BY <2>4 DEF Result, Text
    <2>6. job.inferred \subseteq Meets[t]
      BY <2>2, <2>5 DEF Warned
    <2> QED
      BY <2>3, <2>4, <2>5, <2>6
  <1>7. OkIsEarned'
    <2> SUFFICES ASSUME Verdict(t, gaps) = "ok", job.gen # WriteCode
                 PROVE  /\ t # NoText
                        /\ job.rules \cup job.inferred \subseteq Meets[t]
                        /\ job.gen \in {WriteTestbench, WriteSpec, WriteDesign, WriteNetlist, WriteCase}
                             => t \in Sound
                        /\ \/ job.gen \in Repairs \cup {FixProgram}
                           \/ job.gen \in {WriteTestbench, WriteCase} /\ job.feedback
                           => t # job.prev
      BY <1>2, <1>4, <1>6 DEF OkIsEarned
    <2>1. t # NoText /\ job.rules \cup job.inferred \subseteq Meets[t]
      BY <1>6 DEF Unmet
    <2>2. ASSUME job.gen \in {WriteTestbench, WriteSpec, WriteDesign, WriteNetlist, WriteCase}
          PROVE  t \in Sound
      <3>1. job.gen.check = "own"
        BY <1>2, <2>2, GeneratorFacts
      <3>2. ~OwnFault(t)
        BY <1>6, <3>1 DEF Faulty
      <3> QED
        BY <2>1, <3>2 DEF OwnFault
    <2>3. ASSUME \/ job.gen \in Repairs \cup {FixProgram}
                 \/ job.gen \in {WriteTestbench, WriteCase} /\ job.feedback
          PROVE  t # job.prev
      <3>1. job.gen.same = "always" \/ (job.gen.same = "reviewed" /\ job.feedback)
        BY <1>2, <2>3, GeneratorFacts
      <3>2. ~Unchanged(t)
        BY <1>6 DEF Faulty
      <3> QED
        BY <3>1, <3>2 DEF Unchanged
    <2> QED
      BY <2>1, <2>2, <2>3
  <1>8. RepairIsClean'
    <2> SUFFICES ASSUME job'.gen \in Repairs, reply'.verdict = "ok"
                 PROVE  ~RepairFault(reply.text)'
      BY DEF RepairIsClean
    <2>1. job.gen.check = "repair" /\ job.gen # WriteCode
      BY <1>2, GeneratorFacts DEF Repairs, RepairCode, RepairDesign, WriteCode
    <2>2. reply'.text = t /\ ~Faulty(t)
      BY <1>4, <1>6, <2>1
    <2>3. ~RepairFault(t)
      BY <2>1, <2>2 DEF Faulty
    <2> QED
      BY <1>2, <2>2, <2>3 DEF RepairFault
  <1>9. EmptyReply'
    <2> SUFFICES ASSUME Result(t) = NoText, job.gen \notin Blanking PROVE job.prev = NoText
      BY <1>2, <1>4 DEF EmptyReply
    <2> QED
      BY <1>2, GeneratorFacts DEF Result
  <1>10. reply'.verdict # "error"
    BY <1>3, <1>4
  <1> QED
    BY <1>2, <1>5, <1>7, <1>8, <1>9, <1>10 DEF StubFits, RepairSeesText, FailureIsNeutral

\* A call that raises: the stub.
LEMMA CallFailsKeeps == IInv /\ CallFails => IInv'
  <1> SUFFICES ASSUME IInv, CallFails PROVE IInv'
    OBVIOUS
  <1> USE DEF IInv
  <1>1. pc = "asking" /\ pc' = "replied" /\ UNCHANGED <<kind, keys, port, job>>
        /\ job \in Jobs /\ job.gen \in Generators /\ job.prev \in Text
        /\ reply' = Stub(job.gen, job.prev)
    BY DEF CallFails, TypeOK, Jobs
  <1>2. /\ reply' \in Replies /\ reply'.verdict = "error"
        /\ job.gen # WriteTestbench => reply'.text = job.prev
    BY <1>1, GeneratorFacts, Apart DEF Stub, Replies
  <1>3. TypeOK'
    BY <1>1, <1>2 DEF TypeOK
  <1> QED
    BY <1>1, <1>2, <1>3
       DEF StubFits, RepairSeesText, OkIsEarned, FailureIsNeutral, RepairIsClean, EmptyReply,
           Blanking

\* The app takes the reply, or loses it: no request is in hand.
LEMMA ReturnKeeps == IInv /\ Return /\ port' \in Text => IInv'
  <1> SUFFICES ASSUME IInv, Return, port' \in Text PROVE IInv'
    OBVIOUS
  <1>1. NoJob \in Jobs /\ NoJob.round <= NoJob.gen.rounds
    BY Apart DEF NoJob, Jobs, Generators, WriteCode
  <1>2. reply'.verdict = "none" /\ pc' = "idle"
    BY DEF Return, NoReply
  <1>3. TypeOK'
    BY <1>1 DEF IInv, TypeOK, Return
  <1> QED
    BY <1>2, <1>3 DEF IInv, StubFits, RepairSeesText, OkIsEarned, FailureIsNeutral,
                      RepairIsClean, EmptyReply

\* Every step keeps the inductive invariant.
LEMMA NextIInv == IInv /\ [Next]_vars => IInv'
  <1> SUFFICES ASSUME IInv, [Next]_vars PROVE IInv'
    OBVIOUS
  <1>1. CASE Request
    BY <1>1, RequestKeeps
  <1>2. CASE Repair
    BY <1>2, RepairKeeps
  <1>3. CASE Conclude
    BY <1>3, ConcludeKeeps
  <1>4. CASE CallFails
    BY <1>4, CallFailsKeeps
  <1>5. CASE AppWrites
    <2>1. reply.text \in Text
      BY <1>5 DEF AppWrites, IInv, TypeOK, Replies
    <2> QED
      BY <1>5, <2>1, ReturnKeeps DEF AppWrites
  <1>6. CASE ReplyLost
    <2>1. port' \in Text
      BY <1>6 DEF ReplyLost, IInv, TypeOK
    <2> QED
      BY <1>6, <2>1, ReturnKeeps DEF ReplyLost
  <1>7. CASE UserEdits
    BY <1>7 DEF UserEdits, IInv, TypeOK, StubFits, RepairSeesText, OkIsEarned,
                FailureIsNeutral, RepairIsClean, EmptyReply, RepairFault
  <1>8. CASE UNCHANGED vars
    BY <1>8 DEF vars, IInv, TypeOK, StubFits, RepairSeesText, OkIsEarned,
                FailureIsNeutral, RepairIsClean, EmptyReply, RepairFault
  <1> QED
    BY <1>1, <1>2, <1>3, <1>4, <1>5, <1>6, <1>7, <1>8 DEF Next

\* The inductive invariant holds of every reachable state.
LEMMA Invariance == Spec => []IInv
  BY InitIInv, NextIInv, PTL DEF Spec

-----------------------------------------------------------------------------
(* Theorems *)

\* The state has its type, and no request runs more rounds than it pays for.
THEOREM TypeCorrect == Spec => []TypeOK
  BY Invariance, PTL DEF IInv

\* A text reported as clean has passed every check of its request.
THEOREM OkEarned == Spec => []OkIsEarned
  <1>1. IInv => OkIsEarned
    BY DEF IInv
  <1> QED
    BY <1>1, Invariance, PTL

\* A failed request hands back what it was given.
THEOREM FailureNeutral == Spec => []FailureIsNeutral
  <1>1. IInv => FailureIsNeutral
    BY DEF IInv
  <1> QED
    BY <1>1, Invariance, PTL

\* A revision is never shown an empty draft in place of a text it had.
THEOREM RepairShownText == Spec => []RepairSeesText
  <1>1. IInv => RepairSeesText
    BY DEF IInv
  <1> QED
    BY <1>1, Invariance, PTL

\* A clean repair keeps the name and the ports of the block's module.
THEOREM RepairKeepsInterface == Spec => InterfaceKept
  <1> DEFINE Writes ==
        /\ pc = "replied" /\ pc' = "idle" /\ port' # port
        /\ job.gen \in Repairs /\ reply.verdict = "ok"
        /\ port = job.prev /\ job.top = Module[port]
      Kept == Writes => Module[port'] = Module[port] /\ SamePorts(port', port, Module[port])
  <1>1. IInv /\ [Next]_vars => [Kept]_vars
    <2> SUFFICES ASSUME IInv, Next, Writes
                 PROVE  Module[port'] = Module[port] /\ SamePorts(port', port, Module[port])
      BY Zenon
    <2>1. port' = reply.text
      BY DEF Next, Request, AskCode, AskTestbench, AskSpec, AskDesign, AskNetlist, AskFix,
             AskCase, Ask, Repair, Conclude, CallFails, AppWrites, ReplyLost, UserEdits
    <2>2. job.gen # WriteCode
      BY DEF Repairs, RepairCode, RepairDesign, WriteCode
    <2>3. reply.text # NoText /\ ~RepairFault(reply.text)
      BY <2>2 DEF IInv, OkIsEarned, RepairIsClean
    <2> QED
      BY <2>1, <2>3 DEF RepairFault
  <1> QED
    BY <1>1, Invariance, PTL DEF Spec, InterfaceKept

\* Only four of the nine generators can empty a block that sent its text.
THEOREM OnlyTheseBlank == Spec => BlanksOnly
  <1> DEFINE Blanks == pc = "replied" /\ pc' = "idle" /\ port # NoText /\ port' = NoText
      Allowed == Blanks => job.prev = NoText \/ job.gen \in Blanking
  <1>1. IInv /\ [Next]_vars => [Allowed]_vars
    <2> SUFFICES ASSUME IInv, Next, Blanks PROVE job.prev = NoText \/ job.gen \in Blanking
      BY Zenon
    <2>1. port' = reply.text
      BY DEF Next, Request, AskCode, AskTestbench, AskSpec, AskDesign, AskNetlist, AskFix,
             AskCase, Ask, Repair, Conclude, CallFails, AppWrites, ReplyLost, UserEdits
    <2> QED
      BY <2>1 DEF IInv, EmptyReply
  <1> QED
    BY <1>1, Invariance, PTL DEF Spec, BlanksOnly

\* All three: each revision is shown the text it had, a clean repair keeps the module's
\* name and ports, and no repair but that of plain code leaves a block without its text.
THEOREM RepairsAreFit == Spec => RepairsFit
  BY RepairShownText, RepairKeepsInterface, OnlyTheseBlank, PTL DEF RepairsFit
=============================================================================
