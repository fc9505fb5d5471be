------------------------------ MODULE Enrichers ------------------------------
(***************************************************************************)
(* What a generator writes on a block that was created: which keys of the  *)
(* create_block action reach which port, whatever the model answers, and   *)
(* which status is reported.  A port's content is reduced to where it came *)
(* from: "said" (a key of the action), "desc" (the description), "name",   *)
(* "default", or "reset" (a default put over a said value).                *)
(***************************************************************************)
EXTENDS FiniteSets

(***************************************************************************)
(* Kinds of block, and the keys of a create_block action.                  *)
(***************************************************************************)
Search == {"topics", "components", "procedures", "commands"}

Written == {"testbench", "code_hdl", "spec_hdl", "code_fix",
            "post_silicon_verification"}

Drawn == {"image", "location", "plotter", "live", "stream", "gpu", "devices",
          "selection", "filter", "white_board", "verilator", "yosys",
          "openroad", "openram", "opengcram", "analogue_simulator", "cpu"}

Enrichers == Search \cup Written \cup Drawn \cup {"tools", "code", "claw", "memory"}

(* "custom" stands for every type the registry does not list. *)
Types == Enrichers \cup {"custom"}

(* The keys function_call_to_action copies from a tool call; the JSON of a *)
(* chat turn is taken as it is. *)
Forwarded == {"language", "address", "url", "gpu_model", "instance_type", "top",
              "pdk", "clock_period", "data", "spec", "explanation", "fix",
              "source_code", "memory_mode", "connections"}

Keys == Forwarded \cup {"code", "word_size"}

Vias == {"chat", "voice", "agent"}

Heard(via, said) == IF via = "chat" THEN said ELSE said \cap Forwarded

(* odd: the language or the memory mode that was said is none the block    *)
(* knows. *)
Request == [type : Types, named : BOOLEAN, described : BOOLEAN,
            said : SUBSET Keys, odd : BOOLEAN]

(***************************************************************************)
(* The scaffolder: canonical ports, filled from seeds, the description and *)
(* the defaults, in this order.                                            *)
(***************************************************************************)
(* The keys the enricher of a Drawn block hands to the scaffolder. *)
SeedKeys == {"address", "url", "gpu_model", "language", "top", "pdk",
             "clock_period", "spec", "explanation", "data", "instance_type"}

(* Which seed goes to which port. *)
PlainSeeds(type) ==
    CASE type = "plotter"  -> {<<"data", "data">>}
      [] type = "location" -> {<<"address", "full_address">>}
      [] type = "live"     -> {<<"url", "live_stream_link">>}
      [] type = "gpu"      -> {<<"gpu_model", "gpu_model">>, <<"language", "language">>}
      [] type = "yosys"    -> {<<"top", "top">>, <<"pdk", "pdk">>}
      [] type = "verilator" -> {<<"top", "top">>}
      [] OTHER -> {}

ChipSeeds(type) ==
    CASE type = "openroad" -> {<<"top", "top">>, <<"pdk", "pdk">>,
                               <<"clock_period", "clock_period">>}
      [] type \in {"openram", "opengcram"} -> {<<"top", "output_name">>}
      [] type = "analogue_simulator" -> {<<"pdk", "pdk">>}
      [] OTHER -> {}

WrittenSeeds(type) ==
    CASE type = "testbench" -> {<<"top", "top">>, <<"spec", "spec">>}
      [] type = "code_hdl"  -> {<<"top", "top">>, <<"spec", "spec">>,
                                <<"language", "language">>}
      [] type = "spec_hdl"  -> {<<"top", "top">>, <<"spec", "explanation">>,
                                <<"language", "language">>}
      [] type = "code_fix"  -> {<<"code", "code">>, <<"fix", "fix">>,
                                <<"language", "language">>}
      [] type = "post_silicon_verification" ->
                               {<<"explanation", "explanation">>, <<"language", "language">>}
      [] type = "cpu" -> {<<"language", "language">>, <<"instance_type", "instance_type">>}
      [] OTHER -> {}

SeedMap(type) == PlainSeeds(type) \cup ChipSeeds(type) \cup WrittenSeeds(type)

DescribedPort(type) ==
    CASE type \in {"image", "white_board"} -> {"prompt"}
      [] type = "plotter"   -> {"data"}
      [] type = "location"  -> {"full_address"}
      [] type \in {"testbench", "code_hdl"} -> {"spec"}
      [] type \in {"spec_hdl", "post_silicon_verification"} -> {"explanation"}
      [] type = "code_fix"  -> {"fix"}
      [] OTHER -> {}

(* The defaults of ports that a key of the action may also fill. *)
DefaultPorts(type) ==
    CASE type \in {"devices", "cpu", "code_hdl", "spec_hdl",
                   "post_silicon_verification"} -> {"language"}
      [] type \in {"yosys", "analogue_simulator"} -> {"pdk"}
      [] type = "openroad" -> {"pdk", "clock_period"}
      [] type \in {"openram", "opengcram"} -> {"word_size"}
      [] OTHER -> {}

(* seeds is a set of pairs of a key and where its value comes from. *)
Seeded(type, seeds) ==
    {<<x[1][2], x[2][2]>> : x \in {y \in SeedMap(type) \X seeds : y[1][1] = y[2][1]}}

PortsOf(filled) == {f[1] : f \in filled}

(* (mutant) The description goes first. *)
ScaffoldDescribed(type, seeds, described) ==
    LET byDesc == IF described THEN {<<p, "desc">> : p \in DescribedPort(type)} ELSE {}
        seeded == {f \in Seeded(type, seeds) : f[1] \notin PortsOf(byDesc)}
        settled == PortsOf(seeded) \cup PortsOf(byDesc)
    IN  seeded \cup byDesc \cup {<<p, "default">> : p \in DefaultPorts(type) \ settled}

Scaffold(type, seeds, described) ==
    LET seeded  == Seeded(type, seeds)
        empty   == DescribedPort(type) \ PortsOf(seeded)
        byDesc  == IF described THEN {<<p, "desc">> : p \in empty} ELSE {}
        settled == PortsOf(seeded) \cup PortsOf(byDesc)
    IN  seeded \cup byDesc \cup {<<p, "default">> : p \in DefaultPorts(type) \ settled}

(***************************************************************************)
(* The enrichers.  A reply is how the model, or the claw scaffolder,       *)
(* answered: with content, with less than was asked, with nothing, not at  *)
(* all for want of a key, with a ValueError (unreadable JSON, a missing    *)
(* prompt section, a key missing further down) or with another exception.  *)
(***************************************************************************)
Replies == {"content", "partial", "nothing", "noKey", "valueError", "outage"}

Result(status, content, ports, filled) ==
    [status |-> status, content |-> content, ports |-> ports, filled |-> filled]

Ok == Result("ok", FALSE, "none", {})
Failed == Result("failed", FALSE, "none", {})

(* Python of a tools block, unless it was said inline. *)
ToolOutcome(r, reply) ==
    IF "code" \in r.said THEN Result("ok", TRUE, "none", {})
    ELSE IF ~r.named \/ ~r.described THEN Ok
    ELSE IF reply \in {"content", "partial"} THEN Result("ok", TRUE, "none", {})
    ELSE Failed

(* Entities of a topics, components, procedures or commands block. *)
SearchOutcome(r, reply) ==
    IF ~r.named THEN Ok
    ELSE IF reply \in {"content", "partial"} THEN Result("ok", TRUE, "generated", {})
    ELSE Failed

LanguageSeed(r) ==
    {<<"language", IF "language" \in r.said THEN "said" ELSE "default">>}

(* Source of a code block.  The generator returns its ports even when the  *)
(* reply was empty. *)
CodeOutcome(r, reply) ==
    IF ~r.named \/ ~r.described THEN Ok
    ELSE IF reply \in {"content", "partial", "nothing"}
         THEN Result("ok", reply # "nothing", "generated", LanguageSeed(r))
    ELSE Failed

(* Canonical ports first; then the drafted ones, the connections among     *)
(* them or not; the apps that were said are written only when nothing at   *)
(* all was drafted. *)
ClawOutcome(r, reply) ==
    LET connections ==
          CASE reply = "content" -> {<<"connections", "said">>}
            [] reply = "partial" -> {}
            [] OTHER -> IF "connections" \in r.said THEN {<<"connections", "said">>}
                                                    ELSE {}
    IN  IF ~r.named THEN Ok
        ELSE Result("ok", reply \in {"content", "partial"}, "scaffold",
                    Scaffold("claw", {}, r.described) \cup connections)

SaidSeeds(r) == {<<k, "said">> : k \in r.said \cap SeedKeys}

DrawnOutcome(r) ==
    IF ~r.named THEN Ok
    ELSE Result("ok", FALSE, "scaffold", Scaffold(r.type, SaidSeeds(r), r.described))

(* A mode that is none of the four becomes snapshot. *)
MemoryOutcome(r) ==
    IF ~r.named THEN Ok
    ELSE Result("ok", FALSE, "scaffold",
                {<<"memory_mode",
                   IF "memory_mode" \in r.said /\ ~r.odd THEN "said" ELSE "default">>})

(* Where the value of a seed comes from: the first key that was said, or   *)
(* the description, or nowhere. *)
From(r, seed, keys) ==
    IF keys \cap r.said # {} THEN {<<seed, "said">>}
    ELSE IF r.described THEN {<<seed, "desc">>} ELSE {}

TopSeed(r) == IF "top" \in r.said THEN {<<"top", "said">>} ELSE {}

Fits(r) == ~(r.odd /\ "language" \in r.said)

(* The recipes of the five written kinds: whether there is enough to write *)
(* from, whether the language is one the generator accepts, the seeds of   *)
(* the ports, whether a ValueError is caught, and whether catching it      *)
(* resets the language. *)
Testbench(r) ==
    [asks |-> "spec" \in r.said \/ r.described, fits |-> TRUE,
     seeds |-> TopSeed(r) \cup From(r, "spec", {"spec"}),
     catches |-> FALSE, resets |-> FALSE]

CodeHdl(r) ==
    [asks |-> "spec" \in r.said \/ r.described, fits |-> Fits(r),
     seeds |-> (IF "top" \in r.said THEN TopSeed(r) ELSE {<<"top", "name">>})
               \cup From(r, "spec", {"spec"}) \cup LanguageSeed(r),
     catches |-> TRUE, resets |-> TRUE]

PostSilicon(r) ==
    [asks |-> "explanation" \in r.said \/ r.described, fits |-> Fits(r),
     seeds |-> From(r, "explanation", {"explanation"}) \cup LanguageSeed(r),
     catches |-> TRUE, resets |-> TRUE]

SpecHdl(r) ==
    [asks |-> {"explanation", "spec"} \cap r.said # {} \/ r.described, fits |-> Fits(r),
     seeds |-> TopSeed(r) \cup From(r, "spec", {"explanation", "spec"}) \cup LanguageSeed(r),
     catches |-> TRUE, resets |-> TRUE]

CodeFix(r) ==
    [asks |-> "source_code" \in r.said /\ ("fix" \in r.said \/ r.described), fits |-> TRUE,
     seeds |-> (IF "source_code" \in r.said THEN {<<"code", "said">>} ELSE {})
               \cup From(r, "fix", {"fix"})
               \cup (IF "language" \in r.said THEN {<<"language", "said">>} ELSE {}),
     catches |-> TRUE, resets |-> FALSE]

Recipe(r) ==
    CASE r.type = "testbench" -> Testbench(r)
      [] r.type = "code_hdl"  -> CodeHdl(r)
      [] r.type = "spec_hdl"  -> SpecHdl(r)
      [] r.type = "code_fix"  -> CodeFix(r)
      [] OTHER -> PostSilicon(r)

ResetLanguage(seeds) ==
    {IF s = <<"language", "said">> THEN <<"language", "reset">> ELSE s : s \in seeds}

Rejects(r, reply) == reply = "valueError" \/ (~Recipe(r).fits /\ reply # "noKey")

WrittenOutcome(r, reply) ==
    LET recipe == Recipe(r)
        scaffold(seeds) == Scaffold(r.type, seeds, r.described)
    IN  IF ~r.named THEN Ok
        ELSE IF ~recipe.asks
             THEN Result("ok", FALSE, "scaffold", scaffold(recipe.seeds))
        ELSE IF reply = "noKey"
             THEN Result("failed", FALSE, "scaffold", scaffold(recipe.seeds))
        ELSE IF Rejects(r, reply)
             THEN IF recipe.catches
                  THEN Result("failed", FALSE, "scaffold",
                              scaffold(IF recipe.resets THEN ResetLanguage(recipe.seeds)
                                                        ELSE recipe.seeds))
                  ELSE Failed
        ELSE IF reply = "outage" THEN Failed
        ELSE Result("ok", reply # "nothing", "generated", Seeded(r.type, recipe.seeds))

(* The registry, and the dispatcher that turns an exception into "failed". *)
Outcome(r, reply) ==
    CASE r.type = "tools"     -> ToolOutcome(r, reply)
      [] r.type \in Search    -> SearchOutcome(r, reply)
      [] r.type = "code"      -> CodeOutcome(r, reply)
      [] r.type = "claw"      -> ClawOutcome(r, reply)
      [] r.type = "memory"    -> MemoryOutcome(r)
      [] r.type \in Written   -> WrittenOutcome(r, reply)
      [] OTHER                -> DrawnOutcome(r)

(***************************************************************************)
(* What the tool declarations promise, to compare the outcomes with.       *)
(***************************************************************************)
(* The enrichers that have something to ask the model. *)
Asks(r) ==
    CASE r.type = "tools" -> r.named /\ r.described
      [] r.type \in Search -> r.named
      [] r.type = "code" -> r.named /\ r.described
      [] r.type \in Written -> r.named /\ Recipe(r).asks
      [] OTHER -> FALSE

(* What the declarations of the tools and the chat prompt say a key does:  *)
(* for which types, and on which port. *)
Promised(type) ==
    {m \in SeedMap(type) : m[1] # "code"}
      \cup (IF type = "spec_hdl" THEN {<<"explanation", "explanation">>} ELSE {})
      \cup (IF type = "code_fix" THEN {<<"source_code", "code">>} ELSE {})
      \cup (IF type = "code" THEN {<<"language", "language">>} ELSE {})
      \cup (IF type = "memory" THEN {<<"memory_mode", "memory_mode">>} ELSE {})
      \cup (IF type = "claw" THEN {<<"connections", "connections">>} ELSE {})
      \cup (IF type \in {"openram", "opengcram"} THEN {<<"word_size", "word_size">>} ELSE {})

(* What may become of a said value all the same: a language, or a mode,    *)
(* the block does not know; any language, after a ValueError on an HDL or  *)
(* post-silicon block; apps, when the claw scaffolder drafted others       *)
(* without them; and always the sizes of a memory compiler. *)
MayBeLost(r, answer, key) ==
    \/ key \in {"language", "memory_mode"} /\ r.odd
    \/ /\ key = "language" /\ answer = "valueError"
       /\ r.type \in {"code_hdl", "spec_hdl", "post_silicon_verification"}
    \/ key = "connections" /\ answer = "partial"
    \/ key = "word_size"
=============================================================================
