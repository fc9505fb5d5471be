-------------------------- MODULE BlockGeneration --------------------------
(***************************************************************************)
(* Generated blocks: the text on a block's main port over the requests     *)
(* that write, revise or repair it (the POST /generate/... handlers of     *)
(* modules/blocks/router.py).                                              *)
(*                                                                         *)
(* The seven handlers share one shape: ask the model, check the draft, ask *)
(* again with the faults, and hand back a text with a verdict, or a stub   *)
(* when there is no key or something raised.  They differ in how many      *)
(* rounds they pay for, which draft the next round is shown, what they     *)
(* check and what they do about an empty answer: one record each.          *)
(*                                                                         *)
(* The desktop app, which is not in the repository, writes every port it   *)
(* is handed over the block's own.                                         *)
(***************************************************************************)
EXTENDS Integers

CONSTANTS
    Texts, NoText,      \* texts of a port; NoText is the empty one
    Rules,              \* instructions that can be checked in a text
    Sound,              \* texts that pass the validator of their kind
    Whole,              \* texts that do not look truncated to the repair check
    Doubtful,           \* texts the validator warns about
    Names, NoName,      \* module names
    Module,             \* the module a text declares last (infer_top_module)
    Ports, NoPorts,     \* its ports; NoPorts is a header that does not parse
    Meets               \* the rules a text satisfies

ASSUME TextsAssumption ==
    /\ NoText \notin Texts
    /\ Sound \subseteq Texts /\ Whole \subseteq Texts /\ Doubtful \subseteq Texts
    /\ NoName \notin Names
    /\ Module \in [Texts -> Names]
    /\ Ports \in [Texts -> {Ports[t] : t \in Texts}]
    /\ Meets \in [Texts \cup {NoText} -> SUBSET Rules]

VARIABLES
    kind,       \* the block's type
    keys,       \* the providers whose key the server has
    port,       \* the text on the block's main port
    pc,         \* where the request is: nowhere, at the model, answered
    job,        \* the request in hand
    reply       \* what the handler returned

vars == <<kind, keys, port, pc, job, reply>>

Kinds == {"code", "testbench", "spec_hdl", "code_hdl", "analogue_netlist", "code_fix",
          "post_silicon_verification"}
Text == Texts \cup {NoText}

-----------------------------------------------------------------------------
(* The generators.  rounds: how often a rejected draft is sent back.        *)
(* shows: the text the next round is shown ("request": the one that came    *)
(* with the request).  check: "none", "text" (not empty), "own" (the kind's *)
(* validator) or "repair" (validate_rtl_fix).  same: when an unchanged text *)
(* is a fault.  restores: an empty result is replaced by the request's      *)
(* text.  ruled: instructions are extracted and checked.  stub: the text of *)
(* the fallback reply.                                                      *)

WriteCode ==
    [rounds |-> 0, shows |-> "nothing", check |-> "none", same |-> "never",
     restores |-> FALSE, ruled |-> FALSE, stub |-> "request"]
RepairCode ==
    [rounds |-> 1, shows |-> "request", check |-> "repair", same |-> "always",
     restores |-> FALSE, ruled |-> FALSE, stub |-> "request"]
WriteTestbench ==
    [rounds |-> 2, shows |-> "last", check |-> "own", same |-> "reviewed",
     restores |-> FALSE, ruled |-> TRUE, stub |-> "nothing"]
WriteSpec ==
    [rounds |-> 2, shows |-> "lastText", check |-> "own", same |-> "never",
     restores |-> TRUE, ruled |-> TRUE, stub |-> "request"]
WriteDesign ==
    [rounds |-> 2, shows |-> "request", check |-> "own", same |-> "never",
     restores |-> FALSE, ruled |-> TRUE, stub |-> "request"]
RepairDesign ==
    [rounds |-> 2, shows |-> "lastText", check |-> "repair", same |-> "always",
     restores |-> TRUE, ruled |-> TRUE, stub |-> "request"]
WriteNetlist ==
    [rounds |-> 2, shows |-> "request", check |-> "own", same |-> "never",
     restores |-> TRUE, ruled |-> FALSE, stub |-> "request"]
FixProgram ==
    [rounds |-> 2, shows |-> "request", check |-> "text", same |-> "always",
     restores |-> TRUE, ruled |-> TRUE, stub |-> "request"]
WriteCase ==
    [rounds |-> 1, shows |-> "last", check |-> "own", same |-> "reviewed",
     restores |-> TRUE, ruled |-> TRUE, stub |-> "request"]

\* Which prompt a code request uses: repair needs both a design and a report on
\* it, and an interface to freeze (code_prompt_section).
CodeGenerator(prev, feedback, hdl) ==
    IF feedback /\ prev # NoText /\ hdl THEN RepairCode ELSE WriteCode

\* The same for code_hdl, where an instruction that changes the port list must
\* not meet the frozen interface (code_hdl_prompt_section).
DesignGenerator(prev, feedback, changesPorts) ==
    IF feedback /\ prev # NoText /\ ~changesPorts THEN RepairDesign ELSE WriteDesign

-----------------------------------------------------------------------------
(* Checks of a draft *)

\* The ports of module `top` in a text: none to be read in a text of another name.
PortsOf(t, top) == IF Module[t] = top THEN Ports[t] ELSE NoPorts

\* An interface that cannot be read on either side means "cannot tell".
SamePorts(t, u, top) ==
    \/ NoPorts \in {PortsOf(t, top), PortsOf(u, top)}
    \/ PortsOf(t, top) = PortsOf(u, top)

\* Mutant: the last draft, not the design of the request, gives the ports.
RepairFaultOfDraft(t) ==
    /\ t # NoText
    /\ \/ t \notin Whole
       \/ Module[t] # job.top
       \/ job.draft # NoText /\ ~SamePorts(t, job.draft, job.top)

\* validate_rtl_fix: a text that ends and has the name and the ports of the design
\* that came with the request.
RepairFault(t) ==
    /\ t # NoText
    /\ \/ t \notin Whole
       \/ Module[t] # job.top
       \/ ~SamePorts(t, job.prev, job.top)

\* The validator of the kind; a new Verilog design must be named as asked, too.
OwnFault(t) ==
    /\ t # NoText
    /\ \/ t \notin Sound
       \/ job.gen = WriteDesign /\ ~job.vhdl /\ Module[t] # job.top

\* The text is the one the request asked to change.
Unchanged(t) ==
    /\ t = job.prev
    /\ \/ job.gen.same = "always"
       \/ job.gen.same = "reviewed" /\ job.feedback

Faulty(t) ==
    \/ t = NoText
    \/ Unchanged(t)
    \/ job.gen.check = "own" /\ OwnFault(t)
    \/ job.gen.check = "repair" /\ RepairFault(t)

\* The stated instructions that a text does not satisfy.
Unmet(t) == job.rules \ Meets[t]

\* gaps: instructions the answer itself reports as not applied, or leaves out.
Rejected(t, gaps) ==
    job.gen.check # "none" /\ (Faulty(t) \/ Unmet(t) # {} \/ gaps # {})

\* What annotates the reply without costing a round: the validator's warnings on
\* a new text, values inferred from the specification, the language VHDL.
Warned(t, result) ==
    \/ job.gen \in {WriteSpec, WriteDesign} /\ t \in Doubtful
    \/ job.inferred \ Meets[result] # {}
    \/ job.vhdl

-----------------------------------------------------------------------------
NoJob == [gen |-> WriteCode, prev |-> NoText, feedback |-> FALSE, rules |-> {},
          inferred |-> {}, top |-> NoName, vhdl |-> FALSE, round |-> 0, draft |-> NoText]
NoReply == [text |-> NoText, verdict |-> "none"]

Init ==
    /\ kind \in Kinds
    /\ keys \in SUBSET {"openai", "anthropic"}
    /\ port = NoText
    /\ pc = "idle"
    /\ job = NoJob
    /\ reply = NoReply

\* The code block asks for an OpenAI key, the others for either.
HasKey == IF kind = "code" THEN "openai" \in keys ELSE keys # {}

\* The fallback reply: the request's text where there is one to lose.
Stub(gen, prev) ==
    [text |-> IF gen.stub = "request" THEN prev ELSE NoText, verdict |-> "error"]

\* A handler up to its first call of the model.  The request carries the text on
\* the port, or none.  usable: the inputs the payload function insists on are there
\* and the language is one it accepts; a ValueError otherwise, which the handler
\* turns into the stub.
Ask(new, usable) ==
    /\ pc = "idle"
    /\ new.prev \in {port, NoText}
    /\ job' = [new EXCEPT !.draft = IF new.gen.shows = "nothing" THEN NoText ELSE new.prev]
    /\ IF HasKey /\ usable
       THEN pc' = "asking" /\ UNCHANGED reply
       ELSE pc' = "replied" /\ reply' = Stub(new.gen, new.prev)
    /\ UNCHANGED <<kind, keys, port>>

\* infer_top_module of a text; a default name stands for an empty one.
TopOf(t) == IF t = NoText THEN NoName ELSE Module[t]

AskCode ==
    \E prev \in Text, feedback, hdl \in BOOLEAN :
        /\ kind = "code"
        /\ Ask([NoJob EXCEPT !.gen = CodeGenerator(prev, feedback, hdl), !.prev = prev,
                             !.feedback = feedback, !.top = TopOf(prev)], TRUE)

\* A request about the text on the block, with instructions.
Review(gen, prev, feedback, rules) ==
    [NoJob EXCEPT !.gen = gen, !.prev = prev, !.feedback = feedback, !.rules = rules]

AskTestbench ==
    \E prev \in Text, feedback, specified \in BOOLEAN, rules \in SUBSET Rules :
        /\ kind = "testbench"
        /\ Ask(Review(WriteTestbench, prev, feedback, rules), specified)

\* usable: an explanation or a design to specify, in a hardware language.
AskSpec ==
    \E prev \in Text, feedback, usable \in BOOLEAN, rules \in SUBSET Rules :
        /\ kind = "spec_hdl"
        /\ Ask(Review(WriteSpec, prev, feedback, rules), usable)

Design(request, inferred, top, language) ==
    [request EXCEPT !.inferred = inferred \ request.rules,
                    !.top = IF top = NoName THEN TopOf(request.prev) ELSE top,
                    !.vhdl = language = "vhdl"]

\* top: the port of that name, which a repair reads from the design when it is
\* empty and a new design from the block's name.  An instruction that changes the
\* port list is one of the rules.  A repair needs no specification.
AskDesign ==
    \E prev \in Text, feedback, specified \in BOOLEAN, rules, inferred \in SUBSET Rules,
       changesPorts \in BOOLEAN, top \in Names \cup {NoName},
       language \in {"verilog", "vhdl", "other"} :
        LET gen == DesignGenerator(prev, feedback, changesPorts) IN
        /\ kind = "code_hdl"
        /\ changesPorts => rules # {}
        /\ inferred # {} => specified
        /\ gen = WriteDesign => top # NoName
        /\ Ask(Design(Review(gen, prev, feedback, rules), inferred, top, language),
               language # "other" /\ (gen = RepairDesign \/ specified))

AskNetlist ==
    \E prev \in Text, feedback, described \in BOOLEAN :
        /\ kind = "analogue_netlist"
        /\ Ask(Review(WriteNetlist, prev, feedback, {}), described \/ prev # NoText)

\* Both halves are required: the program and the order.
AskFix ==
    \E prev \in Text, ordered \in BOOLEAN, rules \in SUBSET Rules :
        /\ kind = "code_fix"
        /\ rules # {} => ordered
        /\ Ask(Review(FixProgram, prev, ordered, rules), prev # NoText /\ ordered)

\* usable: an explanation, and a language the cpu block can run.
AskCase ==
    \E prev \in Text, feedback, usable \in BOOLEAN, rules \in SUBSET Rules :
        /\ kind = "post_silicon_verification"
        /\ Ask(Review(WriteCase, prev, feedback, rules), usable)

Request == AskCode \/ AskTestbench \/ AskSpec \/ AskDesign \/ AskNetlist \/ AskFix \/ AskCase

-----------------------------------------------------------------------------
(* The model answers *)

NextDraft(t) ==
    CASE job.gen.shows = "last" -> t
      [] job.gen.shows = "lastText" /\ t # NoText -> t
      [] OTHER -> job.draft

\* Mutants: a rejected draft costs no round; one round more than paid for.
RepairUncounted ==
    /\ pc = "asking" /\ job.round < job.gen.rounds
    /\ \E t \in Text, gaps \in SUBSET job.rules :
          Rejected(t, gaps) /\ job' = [job EXCEPT !.draft = NextDraft(t)]
    /\ UNCHANGED <<kind, keys, port, pc, reply>>
RepairOnceMore ==
    /\ pc = "asking" /\ job.round <= job.gen.rounds
    /\ \E t \in Text, gaps \in SUBSET job.rules :
          Rejected(t, gaps) /\ job' = [job EXCEPT !.round = @ + 1, !.draft = NextDraft(t)]
    /\ UNCHANGED <<kind, keys, port, pc, reply>>

\* A rejected draft with a round left: it is sent back with its faults.
Repair ==
    /\ pc = "asking"
    /\ job.round < job.gen.rounds
    /\ \E t \in Text, gaps \in SUBSET job.rules :
          /\ Rejected(t, gaps)
          /\ job' = [job EXCEPT !.round = @ + 1, !.draft = NextDraft(t)]
    /\ UNCHANGED <<kind, keys, port, pc, reply>>

\* What is handed back for the last draft.
Result(t) == IF t = NoText /\ job.gen.restores THEN job.prev ELSE t

\* Mutant: the verdict is read off the re-check of the instructions alone.
VerdictOfResult(t, gaps) == IF Unmet(Result(t)) # {} THEN "needs_review" ELSE "ok"

\* The instructions are checked again in what is handed back.
Verdict(t, gaps) ==
    IF \/ Rejected(t, gaps)
       \/ Unmet(Result(t)) # {}
       \/ Warned(t, Result(t))
    THEN "needs_review" ELSE "ok"

\* An accepted draft, or a rejected one when no round is left.
Conclude ==
    /\ pc = "asking"
    /\ \E t \in Text, gaps \in SUBSET job.rules :
          /\ Rejected(t, gaps) => job.round = job.gen.rounds
          /\ reply' = [text |-> Result(t), verdict |-> Verdict(t, gaps)]
    /\ pc' = "replied"
    /\ UNCHANGED <<kind, keys, port, job>>

\* Mutant: the stub hands on the draft in hand.
CallFailsWithDraft ==
    /\ pc = "asking"
    /\ reply' = Stub(job.gen, job.draft)
    /\ pc' = "replied"
    /\ UNCHANGED <<kind, keys, port, job>>

\* The call raises in any round: a provider error, an answer that is not JSON, a
\* missing prompt section.  Every draft so far is lost.
CallFails ==
    /\ pc = "asking"
    /\ reply' = Stub(job.gen, job.prev)
    /\ pc' = "replied"
    /\ UNCHANGED <<kind, keys, port, job>>

-----------------------------------------------------------------------------
(* The app *)

Return ==
    /\ pc' = "idle"
    /\ job' = NoJob
    /\ reply' = NoReply
    /\ UNCHANGED <<kind, keys>>

\* It writes the ports it was handed over the block's own.
AppWrites ==
    /\ pc = "replied"
    /\ port' = reply.text
    /\ Return

\* The reply is lost on the way.
ReplyLost ==
    /\ pc = "replied"
    /\ UNCHANGED port
    /\ Return

\* The user types on the port, also while a request is out.
UserEdits ==
    /\ port' \in Text
    /\ UNCHANGED <<kind, keys, pc, job, reply>>

-----------------------------------------------------------------------------
Next ==
    \/ Request
    \/ Repair \/ Conclude \/ CallFails
    \/ AppWrites \/ ReplyLost \/ UserEdits

Spec == Init /\ [][Next]_vars

\* The provider's client answers or raises within its timeout.
FairSpec == Spec /\ WF_vars(Repair \/ Conclude \/ CallFails)

-----------------------------------------------------------------------------
(* Properties *)

Generators == {WriteCode, RepairCode, WriteTestbench, WriteSpec, WriteDesign, RepairDesign,
               WriteNetlist, FixProgram, WriteCase}
Jobs == [gen : Generators, prev : Text, feedback : BOOLEAN, rules : SUBSET Rules,
         inferred : SUBSET Rules, top : Names \cup {NoName}, vhdl : BOOLEAN, round : 0..2,
         draft : Text]
Replies == [text : Text, verdict : {"ok", "needs_review", "error"}]

\* Types, and the number of rounds a request has paid for.
TypeOK ==
    /\ kind \in Kinds /\ keys \subseteq {"openai", "anthropic"}
    /\ port \in Text
    /\ pc \in {"idle", "asking", "replied"}
    /\ job \in Jobs /\ job.round <= job.gen.rounds
    /\ IF pc = "replied" THEN reply \in Replies ELSE reply = NoReply

Repairs == {RepairCode, RepairDesign}

\* A text handed back as "ok" has passed, itself and not some earlier or later
\* draft, every check the request asks for: it is there, it honours each stated
\* and inferred instruction, it has the shape of its kind, and it is not the text
\* that was to be changed.  Only a code block written anew is not looked at.
OkIsEarned ==
    reply.verdict = "ok" /\ job.gen # WriteCode =>
        /\ reply.text # NoText
        /\ job.rules \cup job.inferred \subseteq Meets[reply.text]
        /\ job.gen \in {WriteTestbench, WriteSpec, WriteDesign, WriteNetlist, WriteCase}
               => reply.text \in Sound
        /\ \/ job.gen \in Repairs \cup {FixProgram}
           \/ job.gen \in {WriteTestbench, WriteCase} /\ job.feedback
           => reply.text # job.prev

\* A repair that is reported clean leaves the module's ports as they were on the
\* block, and its name, however many drafts it took: tests and wires address the
\* module by them (validate_rtl_fix).  It is so when the request names no other
\* module than the block has.
InterfaceKept ==
    [][/\ pc = "replied" /\ pc' = "idle" /\ port' # port
       /\ job.gen \in Repairs /\ reply.verdict = "ok"
       /\ port = job.prev /\ job.top = Module[port]
       => Module[port'] = Module[port] /\ SamePorts(port', port, Module[port])]_vars

\* The generators that hand an empty answer on although they had a text to keep.
Blanking == {WriteCode, RepairCode, WriteTestbench, WriteDesign}

\* No other request takes the text from a block that had one and sent it, through
\* any rounds of empty or rejected answers, failures and fallbacks: "a repair round
\* that came back empty must never blank the block".
BlanksOnly ==
    [][pc = "replied" /\ pc' = "idle" /\ port # NoText /\ port' = NoText
       => job.prev = NoText \/ job.gen \in Blanking]_vars

\* A request that fails hands back the text it was given and none of the drafts it
\* had already rejected; only the testbench stub is empty.
FailureIsNeutral ==
    reply.verdict = "error" /\ kind # "testbench" => reply.text = job.prev

\* A revision keeps the model's eye on a text: after an empty answer the next round
\* is shown the draft before it, or the text of the request.  Testbench and
\* post-silicon requests show the empty answer.
RepairSeesText ==
    pc = "asking" /\ job.prev # NoText /\ job.gen \notin {WriteCode, WriteTestbench, WriteCase}
    => job.draft # NoText

\* All three: a repair starts from a text it can see, ends with one that fits where the
\* old one was, and never with none.
RepairsFit == []RepairSeesText /\ InterfaceKept /\ BlanksOnly

\* Every request is answered: the rounds are counted.
RequestEnds == pc = "asking" ~> pc = "replied"
=============================================================================
