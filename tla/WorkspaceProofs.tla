--------------------------- MODULE WorkspaceProofs --------------------------
(***************************************************************************)
(* Proofs about what people work on before an agent runs, for every value  *)
(* of the constants: ConfigReview (the review of a new version),           *)
(* Playground (trying an agent), ProjectLibrary (projects, agents and      *)
(* skills) and BuildWithAI (a proposal that is approved).                  *)
(***************************************************************************)
EXTENDS ConfigReview, Playground, ProjectLibrary, BuildWithAI,
        FiniteSetTheorems, FunctionTheorems, SequenceTheorems, TLAPS

-----------------------------------------------------------------------------
(***************************************************************************)
(* ConfigReview: for every catalogue of tools, every set of configurations *)
(* and any number of versions, what the change-impact analysis names and   *)
(* what the validator lets through.                                        *)
(***************************************************************************)

-----------------------------------------------------------------------------
(* One analysis: the difference between two configurations is named *)

LEMMA ConfigurationIsSomething ==
  ASSUME NEW c \in Configuration
  PROVE  c # NoConfiguration
<1>1. DOMAIN c = {"system_prompt", "guardrails", "knowledge_base", "tools", "tool_policies",
                  "embedded"}
  BY DEF Configuration
<1>2. DOMAIN NoConfiguration = {"at"}
  BY DEF NoConfiguration
<1> QED BY <1>1, <1>2

\* A rule that some entry of the diff matches is summed up.
LEMMA MatchedIsRequired ==
  ASSUME NEW from, NEW to, NEW e \in ConfigDiff(from, to), NEW r \in DOMAIN ImpactRules,
         MatchesField(e, r)
  PROVE  /\ ImpactRules[r].validations \subseteq Analyze(from, to).validations
         /\ ImpactRules[r].level = "HIGH" => Analyze(from, to).level = "HIGH"
<1>1. r \in MatchRules(ConfigDiff(from, to))
  BY DEF MatchRules
<1> HIDE DEF ImpactRules
<1> QED BY <1>1 DEF Analyze, Summarise

LEMMA TheRules ==
  /\ "guardrails.*" \in DOMAIN ImpactRules
  /\ ImpactRules["guardrails.*"].validations = {"FULL_GUARDRAIL_REGRESSION"}
  /\ "knowledge_base.*" \in DOMAIN ImpactRules
  /\ ImpactRules["knowledge_base.*"].validations = {"RAG_EVALUATION"}
  /\ "tools[*].add" \in DOMAIN ImpactRules
  /\ ImpactRules["tools[*].add"].level = "HIGH"
  /\ "TOOL_SECURITY" \in ImpactRules["tools[*].add"].validations
  /\ "tools[*].endpoint" \in DOMAIN ImpactRules
  /\ ImpactRules["tools[*].endpoint"].level = "HIGH"
  /\ "TOOL_SECURITY" \in ImpactRules["tools[*].endpoint"].validations
BY DEF ImpactRules

\* A block that differs is in the diff, as a whole or below its name.
LEMMA BlockInDiff ==
  ASSUME NEW from \in Configuration, NEW to \in Configuration,
         NEW f \in {"guardrails", "knowledge_base"}, from[f] # to[f]
  PROVE  \E e \in ConfigDiff(from, to) : e.field = f /\ e.kind = "changed"
<1> DEFINE e == Entry("changed", f, 0, IF Unset \in {from[f], to[f]} THEN "" ELSE "sub", to[f])
<1>1. e \in ConfigDiff(from, to)
  BY ConfigurationIsSomething DEF ConfigDiff
<1>2. e.field = f /\ e.kind = "changed"
  BY DEF Entry
<1> QED BY <1>1, <1>2

LEMMA BlocksNamed ==
  ASSUME NEW from \in Configuration, NEW to \in Configuration
  PROVE  /\ to.guardrails # from.guardrails =>
               "FULL_GUARDRAIL_REGRESSION" \in Analyze(from, to).validations
         /\ to.knowledge_base # from.knowledge_base =>
               "RAG_EVALUATION" \in Analyze(from, to).validations
<1>1. ASSUME to.guardrails # from.guardrails
      PROVE  "FULL_GUARDRAIL_REGRESSION" \in Analyze(from, to).validations
  <2>1. PICK e \in ConfigDiff(from, to) : e.field = "guardrails" /\ e.kind = "changed"
    BY <1>1, BlockInDiff
  <2>2. MatchesField(e, "guardrails.*")
    BY <2>1 DEF MatchesField
  <2> QED BY <2>2, MatchedIsRequired, TheRules
<1>2. ASSUME to.knowledge_base # from.knowledge_base
      PROVE  "RAG_EVALUATION" \in Analyze(from, to).validations
  <2>1. PICK e \in ConfigDiff(from, to) : e.field = "knowledge_base" /\ e.kind = "changed"
    BY <1>2, BlockInDiff
  <2>2. MatchesField(e, "knowledge_base.*")
    BY <2>1 DEF MatchesField
  <2> QED BY <2>2, MatchedIsRequired, TheRules
<1> QED BY <1>1, <1>2

\* By index: an endpoint that is nowhere in the old list differs from the one at
\* its place, or its place is past the end of the old list.
LEMMA EndpointNamed ==
  ASSUME NEW from \in Configuration, NEW to \in Configuration,
         ~(Endpoints(to) \subseteq Endpoints(from))
  PROVE  Analyze(from, to).level = "HIGH" /\ "TOOL_SECURITY" \in Analyze(from, to).validations
<1> DEFINE Item == [tool_id : CatalogTools, endpoint : Nat]
<1>1. from.tools \in Seq(Item) /\ to.tools \in Seq(Item)
  BY DEF Configuration
<1>2. PICK i \in DOMAIN to.tools : to.tools[i].endpoint \notin Endpoints(from)
  BY DEF Endpoints
<1>3. ListDiff(from.tools, to.tools) \subseteq ConfigDiff(from, to)
  BY ConfigurationIsSomething DEF ConfigDiff
<1>4. CASE i \in DOMAIN from.tools
  <2> DEFINE e == Entry("changed", "tools", i, "endpoint", to.tools[i]["endpoint"])
  <2>1. from.tools[i]["endpoint"] # to.tools[i]["endpoint"]
    BY <1>2, <1>4 DEF Endpoints
  <2>2. e \in ListDiff(from.tools, to.tools)
    <3>1. e \in ChangedItems(from.tools, to.tools)
      BY <1>2, <1>4, <2>1 DEF ChangedItems
    <3> QED BY <3>1 DEF ListDiff
  <2>3. e.kind = "changed" /\ e.sub = "endpoint"
    BY DEF Entry
  <2>4. MatchesField(e, "tools[*].endpoint")
    BY <2>3 DEF MatchesField
  <2> HIDE DEF e
  <2> QED BY <1>3, <2>2, <2>4, MatchedIsRequired, TheRules
<1>5. CASE i \notin DOMAIN from.tools
  <2> DEFINE e == Entry("added", "tools", i, "", to.tools[i])
  <2>1. i \in Len(from.tools) + 1 .. Len(to.tools) /\ i > 0
    BY <1>1, <1>2, <1>5
  <2>2. e \in ListDiff(from.tools, to.tools)
    <3>1. e \in AddedItems(from.tools, to.tools)
      BY <2>1 DEF AddedItems
    <3> QED BY <3>1 DEF ListDiff
  <2>3. e.kind = "added" /\ e.index = i
    BY DEF Entry
  <2>4. MatchesField(e, "tools[*].add")
    BY <2>1, <2>3 DEF MatchesField
  <2> HIDE DEF e
  <2> QED BY <1>3, <2>2, <2>4, MatchedIsRequired, TheRules
<1> QED BY <1>4, <1>5

-----------------------------------------------------------------------------
(***************************************************************************)
(* The inductive invariant: the types, the two properties, and that a save *)
(* under validation has found only tools that were approved.               *)
(***************************************************************************)
ApprovedNow == \A t \in CatalogTools : toolStatus[t] = "APPROVED" => t \in everApproved

\* What has been looked up so far, or all of it, is a set of approved tools.
CheckedTools ==
    /\ configRequest.at = "check" /\ ~configRequest.errors =>
          \A i \in DOMAIN configRequest.config.tools :
             i < configRequest.next => configRequest.config.tools[i].tool_id \in everApproved
    /\ configRequest.at = "save" =>
          \A i \in DOMAIN configRequest.config.tools :
             configRequest.config.tools[i].tool_id \in everApproved

ReviewInv == ConfigTypeOK /\ ApprovedNow /\ CheckedTools /\ ChangesAreNamed /\ ToolsWereApproved

LEMMA ReviewInitially == ConfigInit => ReviewInv
<1> SUFFICES ASSUME ConfigInit PROVE ReviewInv
  OBVIOUS
<1>1. ConfigTypeOK
  <2>1. configs \in Seq(Payloads)
    BY DEF ConfigInit
  <2>2. everApproved \subseteq CatalogTools
    BY DEF ConfigInit
  <2> QED BY <2>1, <2>2 DEF ConfigInit, ConfigTypeOK
<1>2. ApprovedNow /\ CheckedTools
  BY DEF ConfigInit, ApprovedNow, CheckedTools, NoConfigRequest
<1>3. ChangesAreNamed /\ ToolsWereApproved
  BY DEF ConfigInit, ChangesAreNamed, ToolsWereApproved
<1> QED BY <1>1, <1>2, <1>3 DEF ReviewInv

-----------------------------------------------------------------------------
(* A version more *)

\* What ChangesAreNamed says of version n and an earlier one,
\* of the versions cs.
ImpactIn(cs, k) == Analyze(IF k = 1 THEN NoConfiguration ELSE cs[k - 1], cs[k])

NamedSince(cs, n, live) ==
    LET required == UNION {ImpactIn(cs, k).validations : k \in live + 1 .. n} IN
    /\ ~(Endpoints(cs[n]) \subseteq Endpoints(cs[live])) =>
          \E k \in live + 1 .. n :
             ImpactIn(cs, k).level = "HIGH" /\ "TOOL_SECURITY" \in ImpactIn(cs, k).validations
    /\ cs[n].guardrails # cs[live].guardrails => "FULL_GUARDRAIL_REGRESSION" \in required
    /\ cs[n].knowledge_base # cs[live].knowledge_base => "RAG_EVALUATION" \in required

\* A step from one version to the next, after what is known of the one before.
LEMMA OneVersionMore ==
  ASSUME NEW cs, NEW n \in Nat, NEW live \in Nat, 1 <= live, live < n,
         \A k \in 1 .. n : cs[k] \in Configuration,
         live < n - 1 => NamedSince(cs, n - 1, live)
  PROVE  NamedSince(cs, n, live)
<1>1. ImpactIn(cs, n) = Analyze(cs[n - 1], cs[n])
  BY DEF ImpactIn
<1>2. cs[n - 1] \in Configuration /\ cs[n] \in Configuration
  OBVIOUS
<1>3. n \in live + 1 .. n /\ live + 1 .. n - 1 \subseteq live + 1 .. n
  OBVIOUS
<1>4. live = n - 1 \/ live < n - 1
  OBVIOUS
<1>5. ASSUME ~(Endpoints(cs[n]) \subseteq Endpoints(cs[live]))
      PROVE  \E k \in live + 1 .. n :
                ImpactIn(cs, k).level = "HIGH" /\ "TOOL_SECURITY" \in ImpactIn(cs, k).validations
  <2>1. CASE ~(Endpoints(cs[n]) \subseteq Endpoints(cs[n - 1]))
    BY <1>1, <1>2, <1>3, <2>1, EndpointNamed
  <2>2. CASE Endpoints(cs[n]) \subseteq Endpoints(cs[n - 1])
    <3>1. ~(Endpoints(cs[n - 1]) \subseteq Endpoints(cs[live]))
      BY <1>5, <2>2
    <3>2. NamedSince(cs, n - 1, live)
      BY <1>4, <3>1
    <3> QED BY <1>3, <3>1, <3>2 DEF NamedSince
  <2> QED BY <2>1, <2>2
<1>6. ASSUME cs[n].guardrails # cs[live].guardrails
      PROVE  \E k \in live + 1 .. n :
                "FULL_GUARDRAIL_REGRESSION" \in ImpactIn(cs, k).validations
  <2>1. CASE cs[n].guardrails # cs[n - 1].guardrails
    BY <1>1, <1>2, <1>3, <2>1, BlocksNamed
  <2>2. CASE cs[n].guardrails = cs[n - 1].guardrails
    BY <1>3, <1>4, <1>6, <2>2 DEF NamedSince
  <2> QED BY <2>1, <2>2
<1>7. ASSUME cs[n].knowledge_base # cs[live].knowledge_base
      PROVE  \E k \in live + 1 .. n : "RAG_EVALUATION" \in ImpactIn(cs, k).validations
  <2>1. CASE cs[n].knowledge_base # cs[n - 1].knowledge_base
    BY <1>1, <1>2, <1>3, <2>1, BlocksNamed
  <2>2. CASE cs[n].knowledge_base = cs[n - 1].knowledge_base
    BY <1>3, <1>4, <1>7, <2>2 DEF NamedSince
  <2> QED BY <2>1, <2>2
<1> QED BY <1>5, <1>6, <1>7 DEF NamedSince

LEMMA NamedIsNamedSince ==
  /\ ChangesAreNamed <=>
        \A n \in DOMAIN configs : \A live \in 1 .. n - 1 : NamedSince(configs, n, live)
  /\ ChangesAreNamed' <=>
        \A n \in DOMAIN configs' : \A live \in 1 .. n - 1 : NamedSince(configs', n, live)
BY DEF ChangesAreNamed, NamedSince, ImpactOf, ImpactIn

\* A configuration saved as the next version, by whichever route.
LEMMA SavedIsNamed ==
  ASSUME ConfigTypeOK, ChangesAreNamed, NEW c \in Payloads, configs' = Append(configs, c)
  PROVE  ChangesAreNamed'
<1>1. /\ configs' \in Seq(Payloads) /\ Len(configs) \in Nat
      /\ Len(configs') = Len(configs) + 1
      /\ \A k \in 1 .. Len(configs) : configs'[k] = configs[k]
      /\ DOMAIN configs = 1 .. Len(configs) /\ DOMAIN configs' = 1 .. Len(configs) + 1
  BY DEF ConfigTypeOK
<1>2. ASSUME NEW n \in 1 .. Len(configs), NEW live \in 1 .. n - 1
      PROVE  NamedSince(configs', n, live)
  <2>1. NamedSince(configs, n, live)
    BY <1>1, NamedIsNamedSince
  <2>2. configs'[n] = configs[n] /\ configs'[live] = configs[live]
    BY <1>1
  <2>3. \A k \in live + 1 .. n : ImpactIn(configs', k) = ImpactIn(configs, k)
    BY <1>1 DEF ImpactIn
  <2> QED BY <2>1, <2>2, <2>3 DEF NamedSince
<1>3. \A k \in 1 .. Len(configs) + 1 : configs'[k] \in Configuration
  BY <1>1, PayloadsAssumption
<1>4. ASSUME NEW live \in 1 .. Len(configs)
      PROVE  NamedSince(configs', Len(configs) + 1, live)
  <2>1. live < Len(configs) => NamedSince(configs', Len(configs), live)
    BY <1>1, <1>2
  <2>2. PICK cs : cs = configs'
    OBVIOUS
  <2>3. PICK n \in Nat : n = Len(configs) + 1
    BY <1>1
  <2>4. live \in Nat /\ 1 <= live /\ live < n /\ n - 1 = Len(configs)
    BY <1>1, <2>3
  <2>5. \A k \in 1 .. n : cs[k] \in Configuration
    BY <1>3, <2>2, <2>3
  <2>6. live < n - 1 => NamedSince(cs, n - 1, live)
    BY <2>1, <2>2, <2>4
  <2>7. NamedSince(cs, n, live)
    BY <2>4, <2>5, <2>6, OneVersionMore
  <2> QED BY <2>2, <2>3, <2>7
<1>5. DOMAIN configs' = 1 .. Len(configs) \cup {Len(configs) + 1}
  BY <1>1
<1> QED BY <1>1, <1>2, <1>4, <1>5, NamedIsNamedSince

-----------------------------------------------------------------------------
(* Each step keeps the invariant *)

LEMMA PayloadTools ==
  ASSUME NEW c \in Payloads
  PROVE  /\ c.tools \in Seq([tool_id : CatalogTools, endpoint : Nat])
         /\ DOMAIN c.tools = 1 .. Len(c.tools) /\ Len(c.tools) \in Nat
         /\ \A i \in DOMAIN c.tools : c.tools[i].tool_id \in CatalogTools
<1>1. c.tools \in Seq([tool_id : CatalogTools, endpoint : Nat])
  BY PayloadsAssumption DEF Configuration
<1>2. DOMAIN c.tools = 1 .. Len(c.tools) /\ Len(c.tools) \in Nat
  BY <1>1
<1>3. ASSUME NEW i \in DOMAIN c.tools
      PROVE  c.tools[i].tool_id \in CatalogTools
  <2>1. PICK Item : Item = [tool_id : CatalogTools, endpoint : Nat]
    OBVIOUS
  <2>2. PICK s : s = c.tools
    OBVIOUS
  <2>3. s \in Seq(Item) /\ i \in 1 .. Len(s)
    BY <1>1, <1>2, <2>1, <2>2
  <2>4. s[i] \in Item
    BY <2>3
  <2>5. c.tools[i] \in [tool_id : CatalogTools, endpoint : Nat]
    BY <2>1, <2>2, <2>4
  <2> QED BY <2>5
<1> QED BY <1>1, <1>2, <1>3

\* What a request that is being validated or saved is.
LEMMA RequestIs ==
  ASSUME ConfigTypeOK, configRequest.at \in {"check", "save"}
  PROVE  /\ configRequest.config \in Payloads /\ configRequest.next \in Nat \ {0}
         /\ configRequest.errors \in BOOLEAN
         /\ configRequest \in
               [at : {"check", "save"}, config : Payloads, next : Nat \ {0}, errors : BOOLEAN]
<1>1. configRequest # NoConfigRequest
  BY DEF NoConfigRequest
<1> QED BY <1>1 DEF ConfigTypeOK

\* The versions stay as they are.
LEMMA VersionsStay ==
  ASSUME ReviewInv, configs' = configs, unvalidated' = unvalidated,
         everApproved \subseteq everApproved'
  PROVE  ChangesAreNamed' /\ ToolsWereApproved'
<1>1. ChangesAreNamed'
  BY DEF ReviewInv, ChangesAreNamed, ImpactOf
<1>2. ToolsWereApproved'
  BY DEF ReviewInv, ToolsWereApproved
<1> QED BY <1>1, <1>2

\* A version more, of tools that were approved (or of a route that does not ask).
LEMMA VersionSaved ==
  ASSUME ReviewInv, NEW c \in Payloads, configs' = Append(configs, c),
         everApproved' = everApproved, unvalidated \in BOOLEAN, unvalidated' \in BOOLEAN,
         unvalidated => unvalidated',
         ~unvalidated' => \A i \in DOMAIN c.tools : c.tools[i].tool_id \in everApproved
  PROVE  ChangesAreNamed' /\ ToolsWereApproved' /\ configs' \in Seq(Payloads)
<1>1. ConfigTypeOK /\ ChangesAreNamed /\ ToolsWereApproved
  BY DEF ReviewInv
<1>2. ChangesAreNamed'
  BY <1>1, SavedIsNamed
<1>3. /\ configs' \in Seq(Payloads) /\ DOMAIN configs = 1 .. Len(configs)
      /\ \A k \in DOMAIN configs : configs'[k] = configs[k]
      /\ \A k \in DOMAIN configs' : k \in DOMAIN configs \/ configs'[k] = c
  BY <1>1 DEF ConfigTypeOK
<1>4. ToolsWereApproved'
  <2> SUFFICES ASSUME ~unvalidated', NEW n \in DOMAIN configs'
               PROVE  \A i \in DOMAIN configs'[n].tools :
                         configs'[n].tools[i].tool_id \in everApproved
    BY DEF ToolsWereApproved
  <2>1. CASE n \in DOMAIN configs
    BY <1>1, <1>3, <2>1 DEF ToolsWereApproved
  <2>2. CASE configs'[n] = c
    BY <2>2
  <2> QED BY <1>3, <2>1, <2>2
<1> QED BY <1>2, <1>3, <1>4

LEMMA ValidateSaveKeeps ==
  ASSUME ReviewInv, ValidateSave
  PROVE  ReviewInv'
<1>1. ChangesAreNamed' /\ ToolsWereApproved'
  BY VersionsStay DEF ValidateSave
<1>2. PICK c \in Payloads :
        configRequest' = [at |-> "check", config |-> c, next |-> 1, errors |-> FALSE]
  BY DEF ValidateSave
<1>3. ConfigTypeOK'
  BY <1>2 DEF ReviewInv, ConfigTypeOK, ValidateSave
<1>4. ApprovedNow'
  BY DEF ReviewInv, ApprovedNow, ValidateSave
<1>5. CheckedTools'
  <2>1. /\ configRequest'.at = "check" /\ configRequest'.config = c
        /\ configRequest'.next = 1
    BY <1>2
  <2>2. \A i \in DOMAIN c.tools : ~(i < 1)
    BY PayloadTools
  <2> QED BY <2>1, <2>2 DEF CheckedTools
<1> QED BY <1>1, <1>3, <1>4, <1>5 DEF ReviewInv

LEMMA CheckToolKeeps ==
  ASSUME ReviewInv, CheckTool
  PROVE  ReviewInv'
<1> DEFINE tool == configRequest.config.tools[configRequest.next].tool_id
<1>1. ChangesAreNamed' /\ ToolsWereApproved'
  BY VersionsStay DEF CheckTool
<1>2. /\ configRequest.config \in Payloads /\ configRequest.next \in Nat \ {0}
      /\ configRequest.errors \in BOOLEAN
      /\ configRequest \in
            [at : {"check", "save"}, config : Payloads, next : Nat \ {0}, errors : BOOLEAN]
  BY RequestIs DEF ReviewInv, CheckTool
<1>3. PICK errors \in BOOLEAN : errors = (configRequest.errors \/ toolStatus[tool] # "APPROVED")
  BY <1>2
<1>4. configRequest' = [configRequest EXCEPT !.next = @ + 1, !.errors = errors]
  BY <1>3 DEF CheckTool
<1>5. /\ configRequest' \in
            [at : {"check", "save"}, config : Payloads, next : Nat \ {0}, errors : BOOLEAN]
      /\ configRequest'.at = "check" /\ configRequest'.config = configRequest.config
      /\ configRequest'.next = configRequest.next + 1 /\ configRequest'.errors = errors
  <2>1. configRequest.at = "check"
    BY DEF CheckTool
  <2>2. configRequest.next + 1 \in Nat \ {0}
    BY <1>2
  <2> QED BY <1>2, <1>4, <2>1, <2>2
<1>6. ConfigTypeOK'
  BY <1>5 DEF ReviewInv, ConfigTypeOK, CheckTool
<1>7. ApprovedNow'
  BY DEF ReviewInv, ApprovedNow, CheckTool
<1>8. CheckedTools'
  <2> SUFFICES ASSUME ~errors, NEW i \in DOMAIN configRequest.config.tools,
                      i < configRequest.next + 1
               PROVE  configRequest.config.tools[i].tool_id \in everApproved
    BY <1>5 DEF CheckedTools, CheckTool
  <2>1. CASE i < configRequest.next
    BY <1>3, <2>1 DEF ReviewInv, CheckedTools, CheckTool
  <2>2. CASE i = configRequest.next
    <3>1. toolStatus[tool] = "APPROVED"
      BY <1>3
    <3>2. tool \in CatalogTools
      BY <1>2, <2>2, PayloadTools
    <3> QED BY <2>2, <3>1, <3>2 DEF ReviewInv, ApprovedNow
  <2>3. i \in Nat
    BY <1>2, PayloadTools
  <2> QED BY <1>2, <2>1, <2>2, <2>3
<1> QED BY <1>1, <1>6, <1>7, <1>8 DEF ReviewInv

LEMMA CheckConfigurationKeeps ==
  ASSUME ReviewInv, CheckConfiguration
  PROVE  ReviewInv'
<1>1. ChangesAreNamed' /\ ToolsWereApproved'
  BY VersionsStay DEF CheckConfiguration
<1>2. ApprovedNow'
  BY DEF ReviewInv, ApprovedNow, CheckConfiguration
<1>3. CASE configRequest' = NoConfigRequest
  <2>1. ConfigTypeOK'
    BY <1>3 DEF ReviewInv, ConfigTypeOK, CheckConfiguration
  <2>2. CheckedTools'
    BY <1>3 DEF CheckedTools, NoConfigRequest
  <2> QED BY <1>1, <1>2, <2>1, <2>2 DEF ReviewInv
<1>4. CASE ~configRequest.errors /\ configRequest' = [configRequest EXCEPT !.at = "save"]
  <2>1. /\ configRequest.config \in Payloads
        /\ configRequest \in
              [at : {"check", "save"}, config : Payloads, next : Nat \ {0}, errors : BOOLEAN]
    BY RequestIs DEF ReviewInv, CheckConfiguration
  <2>2. /\ configRequest' \in
              [at : {"check", "save"}, config : Payloads, next : Nat \ {0}, errors : BOOLEAN]
        /\ configRequest'.at = "save" /\ configRequest'.config = configRequest.config
    BY <1>4, <2>1
  <2>3. ConfigTypeOK'
    BY <2>2 DEF ReviewInv, ConfigTypeOK, CheckConfiguration
  <2>4. \A i \in DOMAIN configRequest.config.tools : i < configRequest.next
    BY <2>1, PayloadTools DEF CheckConfiguration
  <2>5. CheckedTools'
    BY <1>4, <2>2, <2>4 DEF ReviewInv, CheckedTools, CheckConfiguration
  <2> QED BY <1>1, <1>2, <2>3, <2>5 DEF ReviewInv
<1> QED BY <1>3, <1>4 DEF CheckConfiguration

LEMMA SaveConfigurationKeeps ==
  ASSUME ReviewInv, SaveConfiguration
  PROVE  ReviewInv'
<1>1. configRequest.config \in Payloads
  BY RequestIs DEF ReviewInv, SaveConfiguration
<1>2. ApprovedNow' /\ CheckedTools'
  BY DEF ReviewInv, ApprovedNow, CheckedTools, SaveConfiguration, NoConfigRequest
<1>3. ChangesAreNamed' /\ ToolsWereApproved' /\ configs' \in Seq(Payloads)
  <2>1. CASE configs' = configs
    BY <2>1, VersionsStay DEF SaveConfiguration, ReviewInv, ConfigTypeOK
  <2>2. CASE configs' = Append(configs, configRequest.config)
    <3>1. \A i \in DOMAIN configRequest.config.tools :
             configRequest.config.tools[i].tool_id \in everApproved
      BY DEF ReviewInv, CheckedTools, SaveConfiguration
    <3> QED BY <1>1, <2>2, <3>1, VersionSaved DEF SaveConfiguration, ReviewInv, ConfigTypeOK
  <2> QED BY <2>1, <2>2 DEF SaveConfiguration
<1>4. ConfigTypeOK'
  BY <1>3 DEF ReviewInv, ConfigTypeOK, SaveConfiguration
<1> QED BY <1>2, <1>3, <1>4 DEF ReviewInv

LEMMA SaveProjectConfigurationKeeps ==
  ASSUME ReviewInv, SaveProjectConfiguration
  PROVE  ReviewInv'
<1>1. PICK c \in Payloads : configs' = Append(configs, c)
  BY DEF SaveProjectConfiguration
<1>2. ApprovedNow' /\ CheckedTools'
  BY DEF ReviewInv, ApprovedNow, CheckedTools, SaveProjectConfiguration
<1>3. ChangesAreNamed' /\ ToolsWereApproved' /\ configs' \in Seq(Payloads)
  BY <1>1, VersionSaved DEF SaveProjectConfiguration, ReviewInv, ConfigTypeOK
<1>4. ConfigTypeOK'
  BY <1>3 DEF ReviewInv, ConfigTypeOK, SaveProjectConfiguration
<1> QED BY <1>2, <1>3, <1>4 DEF ReviewInv

LEMMA RestoreConfigurationKeeps ==
  ASSUME ReviewInv, RestoreConfiguration
  PROVE  ReviewInv'
<1>1. PICK n \in 1 .. Len(configs) - 1 : configs' = Append(configs, configs[n])
  BY DEF RestoreConfiguration
<1>2. n \in DOMAIN configs /\ configs[n] \in Payloads
  BY <1>1 DEF ReviewInv, ConfigTypeOK
<1>3. ApprovedNow' /\ CheckedTools'
  BY DEF ReviewInv, ApprovedNow, CheckedTools, RestoreConfiguration
<1>4. ~unvalidated => \A i \in DOMAIN configs[n].tools :
                         configs[n].tools[i].tool_id \in everApproved
  BY <1>2 DEF ReviewInv, ToolsWereApproved
<1>5. ChangesAreNamed' /\ ToolsWereApproved' /\ configs' \in Seq(Payloads)
  BY <1>1, <1>2, <1>4, VersionSaved DEF RestoreConfiguration, ReviewInv, ConfigTypeOK
<1>6. ConfigTypeOK'
  BY <1>5 DEF ReviewInv, ConfigTypeOK, RestoreConfiguration
<1> QED BY <1>3, <1>5, <1>6 DEF ReviewInv

LEMMA ReviewToolKeeps ==
  ASSUME ReviewInv, ReviewTool
  PROVE  ReviewInv'
<1>1. PICK t \in CatalogTools, status \in ToolStatus :
        /\ toolStatus' = [toolStatus EXCEPT ![t] = status]
        /\ everApproved' = everApproved \cup IF status = "APPROVED" THEN {t} ELSE {}
  BY DEF ReviewTool
<1>2. everApproved \subseteq everApproved'
  BY <1>1
<1>3. ChangesAreNamed' /\ ToolsWereApproved'
  BY <1>2, VersionsStay DEF ReviewTool
<1>4. ConfigTypeOK'
  BY <1>1 DEF ReviewInv, ConfigTypeOK, ReviewTool
<1>5. ApprovedNow'
  BY <1>1 DEF ReviewInv, ApprovedNow, ConfigTypeOK
<1>6. CheckedTools'
  BY <1>2 DEF ReviewInv, CheckedTools, ReviewTool
<1> QED BY <1>3, <1>4, <1>5, <1>6 DEF ReviewInv

LEMMA NothingReviewed ==
  ASSUME ReviewInv, UNCHANGED reviewVars
  PROVE  ReviewInv'
<1>1. ChangesAreNamed' /\ ToolsWereApproved'
  BY VersionsStay DEF reviewVars
<1>2. ConfigTypeOK' /\ ApprovedNow' /\ CheckedTools'
  BY DEF ReviewInv, ConfigTypeOK, ApprovedNow, CheckedTools, reviewVars
<1> QED BY <1>1, <1>2 DEF ReviewInv

LEMMA ReviewNextKeeps == ReviewInv /\ [ConfigNext]_reviewVars => ReviewInv'
BY ValidateSaveKeeps, CheckToolKeeps, CheckConfigurationKeeps, SaveConfigurationKeeps,
   SaveProjectConfigurationKeeps, RestoreConfigurationKeeps, ReviewToolKeeps, NothingReviewed
   DEF ConfigNext

-----------------------------------------------------------------------------
(* The theorems *)

\* Whatever configurations are saved, rolled back or reviewed, and however approvals
\* of tools change meanwhile: what a version does differently from any earlier one is
\* named by the analysis of a version in between, and while only validated routes
\* save, every tool of every version was approved at some time (ConfigurationReviewed).
THEOREM ChangesAreReviewed == ConfigSpec => []ConfigurationReviewed
<1>1. ReviewInv => ConfigurationReviewed
  BY DEF ReviewInv, ConfigurationReviewed
<1> QED BY <1>1, ReviewInitially, ReviewNextKeeps, PTL DEF ConfigSpec

\* Every saved configuration and every tool's status keep their types.
THEOREM ConfigTypeCorrect == ConfigSpec => []ConfigTypeOK
<1>1. ReviewInv => ConfigTypeOK
  BY DEF ReviewInv
<1> QED BY <1>1, ReviewInitially, ReviewNextKeeps, PTL DEF ConfigSpec

-----------------------------------------------------------------------------
(***************************************************************************)
(* Playground: what a turn has been told by the guardrail layers and may   *)
(* do with it, and a session of whole turns.                               *)
(***************************************************************************)

(***************************************************************************)
(* Playground: what a turn has been told and may do with it.               *)
(***************************************************************************)
PlayStates ==
    {"idle", "get", "create", "policy", "toxicity", "binary", "bedrock", "model",
     "output", "reread", "append", "done"}

PlayHandler ==
    [at : PlayStates, session : PlaySessions, had : Nat, guarded : BOOLEAN, policy : Policies,
     toxicity : Layers \cup {"none"}, input : {"none", "passed", "intervened"},
     output : {"none", "passed", "intervened"}, asked : BOOLEAN, text : Texts,
     copy : Seq(PlayEntry) \cup {NoTurns}]

Vetted(x) == x.guarded /\ x.policy.bedrock => x.toxicity = "pass" \/ x.input = "passed"

PlayPlaced(x) ==
    /\ x.at \in {"idle", "get", "create", "policy"} => ~x.guarded
    /\ x.at \notin {"output", "reread", "append"} => ~x.asked /\ x.text # "reply"
    /\ x.at = "toxicity" \/ x.at = "binary" \/ x.at = "bedrock" \/ x.at = "output" => x.guarded
    /\ x.at = "model" \/ x.asked => Vetted(x)
    /\ x.at \in {"reread", "append"} /\ x.text = "reply" /\ x.guarded /\ x.policy.bedrock =>
          x.output = "passed"

\* Past its first read, a turn has a session.
WithSession == PlayStates \ {"idle", "get", "create", "done"}

\* A session holds whole turns.
Paired(q) ==
    /\ Len(q) % 2 = 0
    /\ \A i \in 1 .. Len(q) :
          /\ q[i].role = IF i % 2 = 1 THEN "user" ELSE "assistant"
          /\ i % 2 = 1 => i < Len(q) /\ q[i + 1].turn = q[i].turn

Numbered(q) == \A i \in 1 .. Len(q) : q[i].id = i - 1

PlayKept(s, u) ==
    sessions[s] # NoTurns /\ \E i \in 1 .. Len(sessions[s]) : sessions[s][i].turn = u

\* One turn at a time, the session is as its first read found it.
PlayCounted(x) ==
    /\ x.at \in {"idle", "get", "create"} => x.had = 0
    /\ x.at = "create" => sessions[x.session] = NoTurns
    /\ x.at \in WithSession => x.had = Len(sessions[x.session])
    /\ x.at = "append" => x.copy = sessions[x.session]

PlayTyped ==
    /\ sessions \in [PlaySessions -> Seq(PlayEntry) \cup {NoTurns}]
    /\ playTurn \in [PlayTurns -> PlayHandler]
    /\ \A t \in PlayTurns : PlayPlaced(playTurn[t])
    /\ playLost \in BOOLEAN
    /\ playOverlap \in BOOLEAN

PlaySessionsWhole ==
    /\ \A s \in PlaySessions : sessions[s] # NoTurns => Paired(sessions[s])
    /\ \A t \in PlayTurns :
          /\ playTurn[t].at \in WithSession => sessions[playTurn[t].session] # NoTurns
          /\ playTurn[t].at = "append" => playTurn[t].copy # NoTurns /\ Paired(playTurn[t].copy)

PlayOneByOne ==
    ~playOverlap =>
        /\ \A t, u \in PlayTurns : PlayBusy(t) /\ PlayBusy(u) => t = u
        /\ \A s \in PlaySessions : sessions[s] # NoTurns => Numbered(sessions[s])
        /\ \A t \in PlayTurns : PlayCounted(playTurn[t])
        /\ ~playLost =>
              \A t \in PlayTurns : PlayAt(t, "done") => PlayKept(playTurn[t].session, t)

PlayInv == PlayTyped /\ PlaySessionsWhole /\ PlayOneByOne

-----------------------------------------------------------------------------
(* Sessions *)

LEMMA TurnsAppended ==
  ASSUME NEW q \in Seq(PlayEntry), NEW u \in PlayEntry, NEW v \in PlayEntry
  PROVE  /\ q \o <<u, v>> \in Seq(PlayEntry)
         /\ Len(q \o <<u, v>>) = Len(q) + 2
         /\ \A i \in 1 .. Len(q) : (q \o <<u, v>>)[i] = q[i]
         /\ (q \o <<u, v>>)[Len(q) + 1] = u
         /\ (q \o <<u, v>>)[Len(q) + 2] = v
<1>1. <<u, v>> \in Seq(PlayEntry) /\ Len(<<u, v>>) = 2
  OBVIOUS
<1> QED BY <1>1

LEMMA WholeAppended ==
  ASSUME NEW q \in Seq(PlayEntry), NEW u \in PlayEntry, NEW v \in PlayEntry,
         Paired(q), u.role = "user", v.role = "assistant", u.turn = v.turn
  PROVE  /\ Paired(q \o <<u, v>>)
         /\ Numbered(q) /\ u.id = Len(q) /\ v.id = Len(q) + 1 => Numbered(q \o <<u, v>>)
<1> DEFINE w == q \o <<u, v>>
<1>1. /\ w \in Seq(PlayEntry) /\ Len(w) = Len(q) + 2 /\ Len(q) \in Nat
      /\ \A i \in 1 .. Len(q) : w[i] = q[i]
      /\ w[Len(q) + 1] = u /\ w[Len(q) + 2] = v
  BY TurnsAppended
<1> HIDE DEF w
<1>2. Len(q) % 2 = 0
  BY DEF Paired
<1>3. ASSUME NEW i \in 1 .. Len(w)
      PROVE  /\ w[i].role = IF i % 2 = 1 THEN "user" ELSE "assistant"
             /\ i % 2 = 1 => i < Len(w) /\ w[i + 1].turn = w[i].turn
  <2>1. CASE i \in 1 .. Len(q)
    <3>1. /\ q[i].role = IF i % 2 = 1 THEN "user" ELSE "assistant"
          /\ i % 2 = 1 => i < Len(q) /\ q[i + 1].turn = q[i].turn
      BY <2>1 DEF Paired
    <3>2. i % 2 = 1 => w[i + 1] = q[i + 1]
      BY <1>1, <2>1, <3>1
    <3> QED BY <1>1, <2>1, <3>1, <3>2
  <2>2. CASE i = Len(q) + 1
    <3>1. i % 2 = 1
      BY <1>1, <1>2, <2>2
    <3> QED BY <1>1, <2>2, <3>1
  <2>3. CASE i = Len(q) + 2
    <3>1. i % 2 = 0
      BY <1>1, <1>2, <2>3
    <3> QED BY <1>1, <2>3, <3>1
  <2> QED BY <1>1, <2>1, <2>2, <2>3
<1>4. Len(w) % 2 = 0
  BY <1>1, <1>2
<1>5. Paired(w)
  BY <1>3, <1>4 DEF Paired
<1>6. ASSUME Numbered(q), u.id = Len(q), v.id = Len(q) + 1, NEW i \in 1 .. Len(w)
      PROVE  w[i].id = i - 1
  <2>1. CASE i \in 1 .. Len(q)
    BY <1>1, <1>6, <2>1 DEF Numbered
  <2>2. CASE i = Len(q) + 1
    BY <1>1, <1>6, <2>2
  <2>3. CASE i = Len(q) + 2
    BY <1>1, <1>6, <2>3
  <2> QED BY <1>1, <2>1, <2>2, <2>3
<1> QED BY <1>5, <1>6 DEF w, Numbered

-----------------------------------------------------------------------------
(* The records a turn may leave *)

\* A step of a turn replaces its record by x.
PlayBecomes(t, x) ==
    /\ x \in PlayHandler /\ PlayPlaced(x)
    /\ playTurn' = [playTurn EXCEPT ![t] = x]

LEMMA PlayHandlers ==
  /\ IdlePlay \in PlayHandler /\ PlayPlaced(IdlePlay) /\ IdlePlay.at = "idle"
  /\ IdlePlay.had = 0 /\ ~IdlePlay.guarded /\ ~IdlePlay.asked /\ IdlePlay.text = "blocked"
<1>1. <<>> \in Seq(PlayEntry)
  OBVIOUS
<1>2. Unguarded \in Policies
  BY DEF Unguarded, Policies
<1> QED BY <1>1, <1>2 DEF IdlePlay, PlayHandler, PlayStates, PlaySessions, Layers, Texts, PlayPlaced, Vetted

LEMMA PlayBecomesKeeps ==
  ASSUME PlayTyped, NEW t \in PlayTurns, NEW x, PlayBecomes(t, x)
  PROVE  /\ playTurn' \in [PlayTurns -> PlayHandler]
         /\ \A u \in PlayTurns : PlayPlaced(playTurn'[u])
         /\ playTurn'[t] = x
         /\ \A u \in PlayTurns \ {t} : playTurn'[u] = playTurn[u]
BY DEF PlayTyped, PlayBecomes

LEMMA PlayEnded ==
  ASSUME PlayTyped, NEW t \in PlayTurns, PlayEnds(t)
  PROVE  \E x : PlayBecomes(t, x) /\ x.at = "done" /\ x.session = playTurn[t].session
<1>1. PICK x : x = [IdlePlay EXCEPT !.at = "done", !.session = playTurn[t].session]
  OBVIOUS
<1>2. playTurn[t].session \in PlaySessions
  BY DEF PlayTyped, PlayHandler
<1>3. /\ x \in PlayHandler /\ x.at = "done" /\ x.session = playTurn[t].session
      /\ ~x.guarded /\ ~x.asked /\ x.text = "blocked"
  BY <1>1, <1>2, PlayHandlers DEF PlayHandler, PlayStates
<1> QED BY <1>1, <1>3 DEF PlayEnds, PlayBecomes, PlayPlaced

LEMMA PlayStepKeeps ==
  ASSUME PlayInv, NEW t \in PlayTurns, NEW x, PlayBecomes(t, x), UNCHANGED playOverlap,
         playLost' \in BOOLEAN, playLost => playLost',
         PlayBusy(t) \/ playOverlap \/ \A u \in PlayTurns : ~PlayBusy(u),
         sessions' \in [PlaySessions -> Seq(PlayEntry) \cup {NoTurns}],
         \A s \in PlaySessions :
            /\ sessions'[s] # NoTurns => Paired(sessions'[s])
            /\ sessions[s] # NoTurns => sessions'[s] # NoTurns,
         x.at \in WithSession => sessions'[x.session] # NoTurns,
         x.at = "append" => x.copy # NoTurns /\ Paired(x.copy),
         ~playOverlap =>
            /\ \A s \in PlaySessions : sessions'[s] # NoTurns => Numbered(sessions'[s])
            /\ PlayCounted(x)'
            /\ \A s \in PlaySessions, u \in PlayTurns : PlayKept(s, u) => PlayKept(s, u)'
            /\ ~playLost' /\ x.at = "done" => PlayKept(x.session, t)'
  PROVE  PlayInv'
<1>1. /\ playTurn' \in [PlayTurns -> PlayHandler]
      /\ \A u \in PlayTurns : PlayPlaced(playTurn'[u])
      /\ playTurn'[t] = x
      /\ \A u \in PlayTurns \ {t} : playTurn'[u] = playTurn[u]
  BY PlayBecomesKeeps DEF PlayInv
<1>2. \A u \in PlayTurns : playTurn[u].session \in PlaySessions
  BY DEF PlayInv, PlayTyped, PlayHandler
<1>3. PlayTyped'
  BY <1>1 DEF PlayInv, PlayTyped, PlayPlaced, Vetted
<1>4. PlaySessionsWhole'
  <2>1. ASSUME NEW u \in PlayTurns
        PROVE  /\ playTurn'[u].at \in WithSession => sessions'[playTurn'[u].session] # NoTurns
               /\ playTurn'[u].at = "append" => playTurn'[u].copy # NoTurns /\ Paired(playTurn'[u].copy)
    <3>1. CASE u = t
      BY <1>1, <3>1
    <3>2. CASE u # t
      BY <1>1, <1>2, <3>2 DEF PlayInv, PlaySessionsWhole
    <3> QED BY <3>1, <3>2
  <2> QED BY <2>1 DEF PlaySessionsWhole, Paired
<1>5. PlayOneByOne'
  <2> SUFFICES ASSUME ~playOverlap
               PROVE  /\ \A u, v \in PlayTurns : PlayBusy(u)' /\ PlayBusy(v)' => u = v
                      /\ \A s \in PlaySessions : sessions'[s] # NoTurns => Numbered(sessions'[s])
                      /\ \A u \in PlayTurns : PlayCounted(playTurn[u])'
                      /\ ~playLost' =>
                            \A u \in PlayTurns :
                               playTurn'[u].at = "done" => PlayKept(playTurn[u].session, u)'
    BY DEF PlayOneByOne, PlayAt, Numbered
  <2>1. \A u \in PlayTurns \ {t} : playTurn'[u].at \in {"idle", "done"} /\ playTurn'[u] = playTurn[u]
    BY <1>1 DEF PlayInv, PlayOneByOne, PlayBusy
  <2>2. \A u, v \in PlayTurns : PlayBusy(u)' /\ PlayBusy(v)' => u = v
    BY <2>1 DEF PlayBusy
  <2>3. ASSUME NEW u \in PlayTurns PROVE PlayCounted(playTurn[u])'
    <3>1. CASE u = t
      BY <1>1, <3>1 DEF PlayCounted
    <3>2. CASE u # t
      BY <2>1, <3>2 DEF PlayInv, PlayOneByOne, PlayCounted, WithSession
    <3> QED BY <3>1, <3>2
  <2>4. ASSUME ~playLost', NEW u \in PlayTurns, playTurn'[u].at = "done"
        PROVE  PlayKept(playTurn[u].session, u)'
    <3>1. CASE u = t
      BY <1>1, <2>4, <3>1 DEF PlayKept
    <3>2. CASE u # t
      <4>1. PlayKept(playTurn[u].session, u) /\ playTurn'[u] = playTurn[u]
        BY <2>1, <2>4, <3>2 DEF PlayInv, PlayOneByOne, PlayAt
      <4> QED BY <1>2, <4>1 DEF PlayKept
    <3> QED BY <3>1, <3>2
  <2> QED BY <2>2, <2>3, <2>4
<1> QED BY <1>3, <1>4, <1>5 DEF PlayInv

\* A turn that leaves the sessions alone.
LEMMA PlayQuietKeeps ==
  ASSUME PlayInv, NEW t \in PlayTurns, NEW x, PlayBecomes(t, x),
         UNCHANGED <<sessions, playOverlap>>,
         playLost' \in BOOLEAN, playLost => playLost',
         PlayBusy(t) \/ playOverlap \/ \A u \in PlayTurns : ~PlayBusy(u),
         x.at \in WithSession => sessions[x.session] # NoTurns,
         x.at = "append" => x.copy # NoTurns /\ Paired(x.copy),
         ~playOverlap => PlayCounted(x) /\ (x.at = "done" => playLost')
  PROVE  PlayInv'
<1>1. sessions' \in [PlaySessions -> Seq(PlayEntry) \cup {NoTurns}]
  BY DEF PlayInv, PlayTyped
<1>2. \A s \in PlaySessions :
            /\ sessions'[s] # NoTurns => Paired(sessions'[s])
            /\ sessions[s] # NoTurns => sessions'[s] # NoTurns
  BY DEF PlayInv, PlaySessionsWhole
<1>3. ~playOverlap =>
         /\ \A s \in PlaySessions : sessions'[s] # NoTurns => Numbered(sessions'[s])
         /\ PlayCounted(x)'
         /\ \A s \in PlaySessions, u \in PlayTurns : PlayKept(s, u) => PlayKept(s, u)'
  BY DEF PlayInv, PlayOneByOne, PlayCounted, PlayKept
<1> QED BY <1>1, <1>2, <1>3, PlayStepKeeps

LEMMA PlayRaiseKeeps ==
  ASSUME PlayInv, NEW t \in PlayTurns, PlayBusy(t), PlayRaises(t),
         UNCHANGED <<sessions, playOverlap>>
  PROVE  PlayInv'
<1>1. PICK x : PlayBecomes(t, x) /\ x.at = "done"
  BY PlayEnded DEF PlayInv, PlayRaises
<1>2. PlayCounted(x)
  BY <1>1 DEF PlayCounted, WithSession
<1> QED BY <1>1, <1>2, PlayQuietKeeps DEF PlayRaises, WithSession

\* A turn that goes on in its session.
LEMMA PlayOnKeeps ==
  ASSUME PlayInv, NEW t \in PlayTurns, NEW x, PlayBecomes(t, x),
         UNCHANGED <<sessions, playOverlap, playLost>>,
         playTurn[t].at \in WithSession, x.at \in WithSession \ {"append"},
         x.session = playTurn[t].session, x.had = playTurn[t].had
  PROVE  PlayInv'
<1>1. PlayBusy(t) /\ playLost \in BOOLEAN
  BY DEF PlayBusy, WithSession, PlayInv, PlayTyped
<1>2. sessions[x.session] # NoTurns
  BY DEF PlayInv, PlaySessionsWhole
<1>3. ~playOverlap => PlayCounted(x)
  BY DEF PlayInv, PlayOneByOne, PlayCounted, WithSession
<1> QED BY <1>1, <1>2, <1>3, PlayQuietKeeps DEF WithSession

LEMMA PlayGone ==
  ASSUME PlayTyped, NEW t \in PlayTurns, NEW state \in {"create", "binary", "bedrock", "model", "reread"},
         PlayGoes(t, state), playTurn[t].at \in PlayStates \ {"output", "reread", "append"},
         state \in {"binary", "bedrock"} => playTurn[t].guarded,
         state = "create" => ~playTurn[t].guarded,
         state = "model" => Vetted(playTurn[t])
  PROVE  \E x : /\ PlayBecomes(t, x) /\ x.at = state
                /\ x.session = playTurn[t].session /\ x.had = playTurn[t].had
<1>1. PICK x : x = [playTurn[t] EXCEPT !.at = state]
  OBVIOUS
<1>2. playTurn[t] \in PlayHandler /\ PlayPlaced(playTurn[t])
  BY DEF PlayTyped
<1>3. /\ x \in PlayHandler /\ x.at = state
      /\ x.session = playTurn[t].session /\ x.had = playTurn[t].had
      /\ x.guarded = playTurn[t].guarded /\ x.policy = playTurn[t].policy
      /\ x.toxicity = playTurn[t].toxicity /\ x.input = playTurn[t].input
      /\ x.output = playTurn[t].output /\ x.asked = playTurn[t].asked
      /\ x.text = playTurn[t].text
  BY <1>1, <1>2 DEF PlayHandler, PlayStates
<1>4. playTurn' = [playTurn EXCEPT ![t] = x]
  BY <1>1 DEF PlayGoes, PlayTyped
<1>5. PlayPlaced(x)
  BY <1>2, <1>3 DEF PlayPlaced, Vetted
<1> QED BY <1>3, <1>4, <1>5 DEF PlayBecomes

-----------------------------------------------------------------------------
(* The steps *)

LEMMA PlayInitially == PlayInit => PlayInv
<1> SUFFICES ASSUME PlayInit PROVE PlayInv
  OBVIOUS
<1>1. \A t \in PlayTurns : playTurn[t] = IdlePlay
  BY DEF PlayInit
<1>2. playTurn \in [PlayTurns -> PlayHandler]
  BY PlayHandlers DEF PlayInit
<1>3. PlayTyped
  BY <1>1, <1>2, PlayHandlers DEF PlayInit, PlayTyped
<1>4. \A s \in PlaySessions : sessions[s] = NoTurns
  BY DEF PlayInit
<1>5. PlaySessionsWhole
  BY <1>1, <1>4, PlayHandlers DEF PlaySessionsWhole, WithSession
<1>6. PlayOneByOne
  BY <1>1, <1>4, PlayHandlers DEF PlayOneByOne, PlayBusy, PlayCounted, WithSession, PlayAt
<1> QED BY <1>3, <1>5, <1>6 DEF PlayInv

LEMMA StartTurnOfKeeps ==
  ASSUME PlayInv, NEW t \in PlayTurns, StartTurnOf(t)
  PROVE  PlayInv'
<1>1. PICK s \in PlaySessions :
         playTurn' = [playTurn EXCEPT ![t].at = "get", ![t].session = s]
  BY DEF StartTurnOf, PlaySessions
<1>2. PICK x : x = [playTurn[t] EXCEPT !.at = "get", !.session = s]
  OBVIOUS
<1>3. playTurn[t] \in PlayHandler /\ PlayPlaced(playTurn[t]) /\ playTurn[t].at = "idle"
  BY DEF PlayInv, PlayTyped, StartTurnOf, PlayAt
<1>4. /\ x \in PlayHandler /\ x.at = "get" /\ x.had = playTurn[t].had
      /\ x.guarded = playTurn[t].guarded /\ x.asked = playTurn[t].asked
      /\ x.text = playTurn[t].text
  BY <1>2, <1>3 DEF PlayHandler, PlayStates
<1>5. playTurn' = [playTurn EXCEPT ![t] = x]
  BY <1>1, <1>2 DEF PlayInv, PlayTyped
<1>6. PlayBecomes(t, x)
  BY <1>3, <1>4, <1>5 DEF PlayBecomes, PlayPlaced
<1>7. ~playOverlap => PlayCounted(x)
  BY <1>3, <1>4 DEF PlayInv, PlayOneByOne, PlayCounted, WithSession
<1> QED BY <1>4, <1>6, <1>7, PlayQuietKeeps DEF StartTurnOf, WithSession, PlayInv, PlayTyped

\* A turn that has found its session, or put one.
LEMMA SessionFound ==
  ASSUME PlayTyped, NEW t \in PlayTurns, NEW mock \in BOOLEAN, NEW had \in Nat,
         playTurn[t].at \in {"get", "create"},
         playTurn' = [playTurn EXCEPT ![t].had = had, ![t].at = AfterSession(mock),
                                      ![t].text = IF mock THEN "canned" ELSE @]
  PROVE  \E x : /\ PlayBecomes(t, x) /\ x.at \in {"reread", "policy"}
                /\ x.session = playTurn[t].session /\ x.had = had
<1>1. PICK state \in {"reread", "policy"} : state = AfterSession(mock)
  BY DEF AfterSession
<1>2. PICK text \in {"canned", playTurn[t].text} : text = IF mock THEN "canned" ELSE playTurn[t].text
  OBVIOUS
<1>3. PICK x : x = [playTurn[t] EXCEPT !.had = had, !.at = state, !.text = text]
  OBVIOUS
<1>4. playTurn[t] \in PlayHandler /\ PlayPlaced(playTurn[t])
  BY DEF PlayTyped
<1>5. text \in Texts /\ text # "reply"
  BY <1>2, <1>4 DEF PlayHandler, PlayPlaced, Texts
<1>6. /\ x \in PlayHandler /\ x.at = state /\ x.had = had /\ x.text = text
      /\ x.session = playTurn[t].session /\ x.guarded = playTurn[t].guarded
      /\ x.asked = playTurn[t].asked
  BY <1>3, <1>4, <1>5 DEF PlayHandler, PlayStates
<1>7. playTurn' = [playTurn EXCEPT ![t] = x]
  BY <1>1, <1>2, <1>3 DEF PlayTyped
<1>8. PlayPlaced(x)
  BY <1>4, <1>5, <1>6 DEF PlayPlaced
<1> QED BY <1>6, <1>7, <1>8 DEF PlayBecomes

LEMMA GetSessionKeeps ==
  ASSUME PlayInv, NEW t \in PlayTurns, GetSession(t)
  PROVE  PlayInv'
<1> DEFINE item == sessions[playTurn[t].session]
<1>1. /\ playTurn[t] \in PlayHandler /\ PlayPlaced(playTurn[t]) /\ playTurn[t].at = "get"
      /\ PlayBusy(t) /\ UNCHANGED <<sessions, playOverlap, playLost>> /\ playLost \in BOOLEAN
      /\ item \in Seq(PlayEntry) \cup {NoTurns}
  BY DEF PlayInv, PlayTyped, GetSession, PlayAt, PlayBusy, PlayHandler
<1>2. CASE item = NoTurns
  <2>1. PICK x : /\ PlayBecomes(t, x) /\ x.at = "create"
                 /\ x.session = playTurn[t].session /\ x.had = playTurn[t].had
    BY <1>1, <1>2, PlayGone DEF GetSession, PlayInv, PlayPlaced, PlayStates
  <2>2. ~playOverlap => PlayCounted(x)
    BY <1>1, <1>2, <2>1 DEF PlayInv, PlayOneByOne, PlayCounted, WithSession
  <2> QED BY <1>1, <2>1, <2>2, PlayQuietKeeps DEF WithSession
<1>3. CASE item # NoTurns
  <2>1. PICK mock \in BOOLEAN :
           playTurn' = [playTurn EXCEPT
                  ![t].had = Len(item), ![t].at = AfterSession(mock),
                  ![t].text = IF mock THEN "canned" ELSE @]
    BY <1>3 DEF GetSession
  <2>2. Len(item) \in Nat
    BY <1>1, <1>3
  <2>3. PICK x : /\ PlayBecomes(t, x) /\ x.at \in {"reread", "policy"}
                 /\ x.session = playTurn[t].session /\ x.had = Len(item)
    BY <1>1, <2>1, <2>2, SessionFound DEF PlayInv
  <2>4. ~playOverlap => PlayCounted(x)
    BY <2>3 DEF PlayCounted, WithSession
  <2> QED BY <1>1, <1>3, <2>3, <2>4, PlayQuietKeeps
<1> QED BY <1>2, <1>3

LEMMA PutEmptySessionKeeps ==
  ASSUME PlayInv, NEW t \in PlayTurns, PutEmptySession(t)
  PROVE  PlayInv'
<1>1. /\ playTurn[t] \in PlayHandler /\ PlayPlaced(playTurn[t]) /\ playTurn[t].at = "create"
      /\ PlayBusy(t) /\ UNCHANGED <<playOverlap, playLost>> /\ playLost \in BOOLEAN
      /\ playTurn[t].session \in PlaySessions /\ playTurn[t].had \in Nat
  BY DEF PlayInv, PlayTyped, PutEmptySession, PlayAt, PlayBusy, PlayHandler
<1>2. sessions' = [sessions EXCEPT ![playTurn[t].session] = <<>>]
  BY DEF PutEmptySession
<1>3. PICK mock \in BOOLEAN :
         playTurn' = [playTurn EXCEPT
             ![t].at = AfterSession(mock), ![t].text = IF mock THEN "canned" ELSE @]
  BY DEF PutEmptySession
<1>4. playTurn' = [playTurn EXCEPT ![t].had = playTurn[t].had, ![t].at = AfterSession(mock),
                                   ![t].text = IF mock THEN "canned" ELSE @]
  <2>1. playTurn[t] = [playTurn[t] EXCEPT !.had = playTurn[t].had]
    BY <1>1 DEF PlayHandler
  <2> QED BY <1>3, <2>1 DEF PlayInv, PlayTyped
<1>5. PICK x : /\ PlayBecomes(t, x) /\ x.at \in {"reread", "policy"}
               /\ x.session = playTurn[t].session /\ x.had = playTurn[t].had
  BY <1>1, <1>4, SessionFound DEF PlayInv
<1>6. <<>> \in Seq(PlayEntry) /\ <<>> # NoTurns /\ Paired(<<>>) /\ Numbered(<<>>) /\ Len(<<>>) = 0
  <2>1. <<>> \in Seq(PlayEntry) /\ Len(<<>>) = 0
    OBVIOUS
  <2>2. <<>> # NoTurns
    BY <2>1, PlaygroundAssumption
  <2> QED BY <2>1, <2>2 DEF Paired, Numbered
<1>7. /\ sessions' \in [PlaySessions -> Seq(PlayEntry) \cup {NoTurns}]
      /\ sessions'[playTurn[t].session] = <<>>
      /\ \A s \in PlaySessions \ {playTurn[t].session} : sessions'[s] = sessions[s]
  BY <1>1, <1>2, <1>6 DEF PlayInv, PlayTyped
<1>8. \A s \in PlaySessions :
         /\ sessions'[s] # NoTurns => Paired(sessions'[s])
         /\ sessions[s] # NoTurns => sessions'[s] # NoTurns
  BY <1>6, <1>7 DEF PlayInv, PlaySessionsWhole
<1>9. ASSUME ~playOverlap
      PROVE  /\ \A s \in PlaySessions : sessions'[s] # NoTurns => Numbered(sessions'[s])
             /\ PlayCounted(x)'
             /\ \A s \in PlaySessions, u \in PlayTurns : PlayKept(s, u) => PlayKept(s, u)'
  <2>1. sessions[playTurn[t].session] = NoTurns /\ playTurn[t].had = 0
    BY <1>1, <1>9 DEF PlayInv, PlayOneByOne, PlayCounted
  <2>2. \A s \in PlaySessions : sessions'[s] # NoTurns => Numbered(sessions'[s])
    BY <1>6, <1>7, <1>9 DEF PlayInv, PlayOneByOne
  <2>3. PlayCounted(x)'
    BY <1>5, <1>6, <1>7, <2>1 DEF PlayCounted
  <2>4. \A s \in PlaySessions, u \in PlayTurns : PlayKept(s, u) => PlayKept(s, u)'
    BY <1>7, <2>1 DEF PlayKept
  <2> QED BY <2>2, <2>3, <2>4
<1> QED BY <1>1, <1>5, <1>6, <1>7, <1>8, <1>9, PlayStepKeeps

LEMMA ReadPlayPolicyKeeps ==
  ASSUME PlayInv, NEW t \in PlayTurns, ReadPlayPolicy(t)
  PROVE  PlayInv'
<1>1. /\ playTurn[t] \in PlayHandler /\ PlayPlaced(playTurn[t]) /\ playTurn[t].at = "policy"
      /\ UNCHANGED <<sessions, playOverlap, playLost>>
  BY DEF PlayInv, PlayTyped, ReadPlayPolicy, PlayAt
<1>2. CASE PlayGoes(t, "model")
  <2>1. Vetted(playTurn[t])
    BY <1>1 DEF PlayPlaced, Vetted
  <2>2. PICK x : /\ PlayBecomes(t, x) /\ x.at = "model"
                 /\ x.session = playTurn[t].session /\ x.had = playTurn[t].had
    BY <1>1, <1>2, <2>1, PlayGone DEF PlayInv, PlayStates
  <2> QED BY <1>1, <2>2, PlayOnKeeps DEF WithSession, PlayStates
<1>3. ASSUME NEW policy \in Policies,
             playTurn' = [playTurn EXCEPT
                ![t].guarded = TRUE, ![t].policy = policy, ![t].at = "toxicity"]
      PROVE  PlayInv'
  <2>1. PICK x : x = [playTurn[t] EXCEPT !.guarded = TRUE, !.policy = policy, !.at = "toxicity"]
    OBVIOUS
  <2>2. /\ x \in PlayHandler /\ x.at = "toxicity" /\ x.guarded
        /\ x.session = playTurn[t].session /\ x.had = playTurn[t].had
        /\ x.asked = playTurn[t].asked /\ x.text = playTurn[t].text
    BY <1>1, <2>1 DEF PlayHandler, PlayStates
  <2>3. PlayBecomes(t, x)
    BY <1>1, <1>3, <2>1, <2>2 DEF PlayBecomes, PlayPlaced, PlayInv, PlayTyped
  <2> QED BY <1>1, <2>2, <2>3, PlayOnKeeps DEF WithSession, PlayStates
<1> QED BY <1>2, <1>3 DEF ReadPlayPolicy

LEMMA CheckToxicityKeeps ==
  ASSUME PlayInv, NEW t \in PlayTurns, CheckToxicity(t)
  PROVE  PlayInv'
<1>1. /\ playTurn[t] \in PlayHandler /\ PlayPlaced(playTurn[t]) /\ playTurn[t].at = "toxicity"
      /\ UNCHANGED <<sessions, playOverlap>> /\ PlayBusy(t) /\ playTurn[t].guarded
  BY DEF PlayInv, PlayTyped, CheckToxicity, PlayAt, PlayBusy, PlayPlaced
<1>2. CASE PlayGoes(t, "binary") /\ UNCHANGED playLost
  <2>1. PICK x : /\ PlayBecomes(t, x) /\ x.at = "binary"
                 /\ x.session = playTurn[t].session /\ x.had = playTurn[t].had
    BY <1>1, <1>2, PlayGone DEF PlayInv, PlayStates
  <2> QED BY <1>1, <1>2, <2>1, PlayOnKeeps DEF WithSession, PlayStates
<1>3. ASSUME NEW layer \in Layers, UNCHANGED playLost,
             playTurn' = [playTurn EXCEPT
                   ![t].toxicity = layer,
                   ![t].at = IF layer = "block" THEN "reread" ELSE "binary"]
      PROVE  PlayInv'
  <2>1. PICK state \in {"reread", "binary"} : state = IF layer = "block" THEN "reread" ELSE "binary"
    OBVIOUS
  <2>2. PICK x : x = [playTurn[t] EXCEPT !.toxicity = layer, !.at = state]
    OBVIOUS
  <2>3. /\ x \in PlayHandler /\ x.at = state /\ x.guarded
        /\ x.session = playTurn[t].session /\ x.had = playTurn[t].had
        /\ x.asked = playTurn[t].asked /\ x.text = playTurn[t].text
    BY <1>1, <2>2 DEF PlayHandler, PlayStates
  <2>4. playTurn' = [playTurn EXCEPT ![t] = x]
    BY <1>3, <2>1, <2>2 DEF PlayInv, PlayTyped
  <2>5. PlayBecomes(t, x)
    BY <1>1, <2>3, <2>4 DEF PlayBecomes, PlayPlaced
  <2> QED BY <1>1, <1>3, <2>3, <2>5, PlayOnKeeps DEF WithSession, PlayStates
<1>4. CASE PlayRaises(t)
  BY <1>1, <1>4, PlayRaiseKeeps
<1> QED BY <1>2, <1>3, <1>4 DEF CheckToxicity

LEMMA CheckBinaryKeeps ==
  ASSUME PlayInv, NEW t \in PlayTurns, CheckBinary(t)
  PROVE  PlayInv'
<1>1. /\ playTurn[t] \in PlayHandler /\ PlayPlaced(playTurn[t]) /\ playTurn[t].at = "binary"
      /\ UNCHANGED <<sessions, playOverlap>> /\ PlayBusy(t) /\ playTurn[t].guarded
  BY DEF PlayInv, PlayTyped, CheckBinary, PlayAt, PlayBusy, PlayPlaced
<1>2. ASSUME NEW state \in {"bedrock", "model", "reread"}, PlayGoes(t, state), UNCHANGED playLost,
             state = "model" => ~ConsultsBedrock(t)
      PROVE  PlayInv'
  <2>1. state = "model" => Vetted(playTurn[t])
    BY <1>2 DEF ConsultsBedrock, Vetted
  <2>2. PICK x : /\ PlayBecomes(t, x) /\ x.at = state
                 /\ x.session = playTurn[t].session /\ x.had = playTurn[t].had
    BY <1>1, <1>2, <2>1, PlayGone DEF PlayInv, PlayStates
  <2> QED BY <1>1, <1>2, <2>2, PlayOnKeeps DEF WithSession, PlayStates
<1>3. CASE PlayRaises(t)
  BY <1>1, <1>3, PlayRaiseKeeps
<1>4. CASE PlayGoes(t, IF ConsultsBedrock(t) THEN "bedrock" ELSE "model") /\ UNCHANGED playLost
  <2>1. CASE ConsultsBedrock(t)
    BY <1>2, <1>4, <2>1
  <2>2. CASE ~ConsultsBedrock(t)
    BY <1>2, <1>4, <2>2
  <2> QED BY <2>1, <2>2
<1>5. CASE PlayGoes(t, "reread") /\ UNCHANGED playLost
  BY <1>2, <1>5
<1> QED BY <1>3, <1>4, <1>5 DEF CheckBinary

LEMMA AskBedrockKeeps ==
  ASSUME PlayInv, NEW t \in PlayTurns, AskBedrock(t)
  PROVE  PlayInv'
<1>1. /\ playTurn[t] \in PlayHandler /\ PlayPlaced(playTurn[t]) /\ playTurn[t].at = "bedrock"
      /\ UNCHANGED <<sessions, playOverlap, playLost>>
  BY DEF PlayInv, PlayTyped, AskBedrock, PlayAt
<1>2. PICK answer \in {"passed", "intervened", "none"} :
        playTurn' = [playTurn EXCEPT
             ![t].input = answer,
             ![t].at = IF Judged(answer) = "block" THEN "reread" ELSE "model"]
  BY DEF AskBedrock
<1>3. PICK state \in {"reread", "model"} :
         /\ state = IF Judged(answer) = "block" THEN "reread" ELSE "model"
         /\ state = "model" => answer = "passed"
  BY DEF Judged
<1>4. PICK x : x = [playTurn[t] EXCEPT !.input = answer, !.at = state]
  OBVIOUS
<1>5. /\ x \in PlayHandler /\ x.at = state /\ x.input = answer
      /\ x.session = playTurn[t].session /\ x.had = playTurn[t].had
      /\ x.asked = playTurn[t].asked /\ x.text = playTurn[t].text
  BY <1>1, <1>4 DEF PlayHandler, PlayStates
<1>6. playTurn' = [playTurn EXCEPT ![t] = x]
  BY <1>2, <1>3, <1>4 DEF PlayInv, PlayTyped
<1>7. PlayBecomes(t, x)
  BY <1>1, <1>3, <1>5, <1>6 DEF PlayBecomes, PlayPlaced, Vetted
<1> QED BY <1>1, <1>5, <1>7, PlayOnKeeps DEF WithSession, PlayStates

LEMMA CallPlayModelKeeps ==
  ASSUME PlayInv, NEW t \in PlayTurns, CallPlayModel(t)
  PROVE  PlayInv'
<1>1. /\ playTurn[t] \in PlayHandler /\ PlayPlaced(playTurn[t]) /\ playTurn[t].at = "model"
      /\ UNCHANGED <<sessions, playOverlap>> /\ PlayBusy(t)
  BY DEF PlayInv, PlayTyped, CallPlayModel, PlayAt, PlayBusy
<1>2. CASE PlayRaises(t)
  BY <1>1, <1>2, PlayRaiseKeeps
<1>3. ASSUME playTurn' = [playTurn EXCEPT
                ![t].asked = TRUE, ![t].text = "reply",
                ![t].at = IF playTurn[t].guarded /\ playTurn[t].policy.bedrock THEN "output"
                          ELSE "reread"],
             UNCHANGED playLost
      PROVE  PlayInv'
  <2>1. PICK state \in {"output", "reread"} :
           state = IF playTurn[t].guarded /\ playTurn[t].policy.bedrock THEN "output" ELSE "reread"
    OBVIOUS
  <2>2. PICK x : x = [playTurn[t] EXCEPT !.asked = TRUE, !.text = "reply", !.at = state]
    OBVIOUS
  <2>3. /\ x \in PlayHandler /\ x.at = state /\ x.guarded = playTurn[t].guarded
        /\ x.policy = playTurn[t].policy /\ x.toxicity = playTurn[t].toxicity
        /\ x.input = playTurn[t].input
        /\ x.session = playTurn[t].session /\ x.had = playTurn[t].had
    BY <1>1, <2>2 DEF PlayHandler, PlayStates, Texts
  <2>4. playTurn' = [playTurn EXCEPT ![t] = x]
    BY <1>3, <2>1, <2>2 DEF PlayInv, PlayTyped
  <2>5. PlayBecomes(t, x)
    BY <1>1, <2>1, <2>3, <2>4 DEF PlayBecomes, PlayPlaced, Vetted
  <2> QED BY <1>1, <1>3, <2>3, <2>5, PlayOnKeeps DEF WithSession, PlayStates
<1> QED BY <1>2, <1>3 DEF CallPlayModel

LEMMA CheckPlayOutputKeeps ==
  ASSUME PlayInv, NEW t \in PlayTurns, CheckPlayOutput(t)
  PROVE  PlayInv'
<1>1. /\ playTurn[t] \in PlayHandler /\ PlayPlaced(playTurn[t]) /\ playTurn[t].at = "output"
      /\ UNCHANGED <<sessions, playOverlap, playLost>>
  BY DEF PlayInv, PlayTyped, CheckPlayOutput, PlayAt
<1>2. PICK answer \in {"passed", "intervened", "none"} :
        playTurn' = [playTurn EXCEPT
             ![t].output = answer, ![t].at = "reread",
             ![t].text = IF Judged(answer) = "block" THEN "blocked" ELSE "reply"]
  BY DEF CheckPlayOutput
<1>3. PICK text \in {"blocked", "reply"} :
         /\ text = IF Judged(answer) = "block" THEN "blocked" ELSE "reply"
         /\ text = "reply" => answer = "passed"
  BY DEF Judged
<1>4. PICK x : x = [playTurn[t] EXCEPT !.output = answer, !.at = "reread", !.text = text]
  OBVIOUS
<1>5. /\ x \in PlayHandler /\ x.at = "reread" /\ x.output = answer /\ x.text = text
      /\ x.session = playTurn[t].session /\ x.had = playTurn[t].had
      /\ x.asked = playTurn[t].asked /\ x.guarded = playTurn[t].guarded
      /\ x.policy = playTurn[t].policy /\ x.toxicity = playTurn[t].toxicity
      /\ x.input = playTurn[t].input
  BY <1>1, <1>4 DEF PlayHandler, PlayStates, Texts
<1>6. playTurn' = [playTurn EXCEPT ![t] = x]
  BY <1>2, <1>3, <1>4 DEF PlayInv, PlayTyped
<1>7. PlayBecomes(t, x)
  BY <1>1, <1>3, <1>5, <1>6 DEF PlayBecomes, PlayPlaced, Vetted
<1> QED BY <1>1, <1>5, <1>7, PlayOnKeeps DEF WithSession, PlayStates

LEMMA RereadSessionKeeps ==
  ASSUME PlayInv, NEW t \in PlayTurns, RereadSession(t)
  PROVE  PlayInv'
<1> DEFINE item == sessions[playTurn[t].session]
<1>1. /\ playTurn[t] \in PlayHandler /\ PlayPlaced(playTurn[t]) /\ playTurn[t].at = "reread"
      /\ UNCHANGED <<sessions, playOverlap, playLost>> /\ PlayBusy(t) /\ playLost \in BOOLEAN
      /\ item \in Seq(PlayEntry) \cup {NoTurns}
  BY DEF PlayInv, PlayTyped, RereadSession, PlayAt, PlayBusy, PlayHandler
<1>2. item # NoTurns /\ Paired(item)
  BY <1>1 DEF PlayInv, PlayTyped, PlayHandler, PlaySessionsWhole, WithSession, PlayStates
<1>3. PICK x : x = [playTurn[t] EXCEPT !.copy = item, !.at = "append"]
  OBVIOUS
<1>4. /\ x \in PlayHandler /\ x.at = "append" /\ x.copy = item
      /\ x.session = playTurn[t].session /\ x.had = playTurn[t].had
      /\ x.asked = playTurn[t].asked /\ x.guarded = playTurn[t].guarded
      /\ x.policy = playTurn[t].policy /\ x.toxicity = playTurn[t].toxicity
      /\ x.input = playTurn[t].input /\ x.output = playTurn[t].output
      /\ x.text = playTurn[t].text
  BY <1>1, <1>3 DEF PlayHandler, PlayStates
<1>5. playTurn' = [playTurn EXCEPT ![t] = x]
  BY <1>3 DEF PlayInv, PlayTyped, RereadSession
<1>6. PlayBecomes(t, x)
  BY <1>1, <1>4, <1>5 DEF PlayBecomes, PlayPlaced, Vetted
<1>7. ~playOverlap => PlayCounted(x)
  BY <1>1, <1>4 DEF PlayInv, PlayOneByOne, PlayCounted, WithSession, PlayStates
<1> QED BY <1>1, <1>2, <1>4, <1>6, <1>7, PlayQuietKeeps

LEMMA AppendTurnsKeeps ==
  ASSUME PlayInv, NEW t \in PlayTurns, AppendTurns(t)
  PROVE  PlayInv'
<1> DEFINE s0 == playTurn[t].session
           q == playTurn[t].copy
           u == [id |-> playTurn[t].had, role |-> "user", turn |-> t, text |-> "message"]
           v == [id |-> playTurn[t].had + 1, role |-> "assistant", turn |-> t,
                 text |-> playTurn[t].text]
           w == q \o <<u, v>>
<1>1. /\ playTurn[t] \in PlayHandler /\ playTurn[t].at = "append"
      /\ UNCHANGED <<playOverlap, playLost>> /\ PlayBusy(t) /\ playLost \in BOOLEAN
      /\ s0 \in PlaySessions /\ playTurn[t].had \in Nat /\ playTurn[t].text \in Texts
  BY DEF PlayInv, PlayTyped, AppendTurns, PlayAt, PlayBusy, PlayHandler
<1>2. q \in Seq(PlayEntry) /\ Paired(q)
  BY <1>1 DEF PlayInv, PlayHandler, PlaySessionsWhole
<1>3. u \in PlayEntry /\ v \in PlayEntry
  BY <1>1 DEF PlayEntry, Texts
<1>4. /\ u.role = "user" /\ v.role = "assistant" /\ u.turn = t /\ v.turn = t
      /\ u.id = playTurn[t].had /\ v.id = playTurn[t].had + 1
  OBVIOUS
<1>5. sessions' = [sessions EXCEPT ![s0] = w]
  BY DEF AppendTurns, NewTurns
<1>6. PICK x : PlayBecomes(t, x) /\ x.at = "done" /\ x.session = s0
  BY PlayEnded DEF PlayInv, AppendTurns
<1> HIDE DEF u, v
<1>7. /\ w \in Seq(PlayEntry) /\ Len(w) = Len(q) + 2 /\ Len(q) \in Nat
      /\ \A i \in 1 .. Len(q) : w[i] = q[i]
      /\ w[Len(q) + 1] = u
      /\ Paired(w)
      /\ Numbered(q) /\ playTurn[t].had = Len(q) => Numbered(w)
  BY <1>2, <1>3, <1>4, TurnsAppended, WholeAppended
<1>8. w # NoTurns
  BY <1>7, PlaygroundAssumption
<1> HIDE DEF w
<1>9. /\ sessions' \in [PlaySessions -> Seq(PlayEntry) \cup {NoTurns}]
      /\ sessions'[s0] = w
      /\ \A s \in PlaySessions \ {s0} : sessions'[s] = sessions[s]
  BY <1>1, <1>5, <1>7 DEF PlayInv, PlayTyped
<1>10. \A s \in PlaySessions :
         /\ sessions'[s] # NoTurns => Paired(sessions'[s])
         /\ sessions[s] # NoTurns => sessions'[s] # NoTurns
  BY <1>7, <1>8, <1>9 DEF PlayInv, PlaySessionsWhole
<1>11. ASSUME ~playOverlap
       PROVE  /\ \A s \in PlaySessions : sessions'[s] # NoTurns => Numbered(sessions'[s])
              /\ \A s \in PlaySessions, p \in PlayTurns : PlayKept(s, p) => PlayKept(s, p)'
              /\ PlayKept(x.session, t)'
  <2>1. q = sessions[s0] /\ playTurn[t].had = Len(q) /\ q # NoTurns
    BY <1>1, <1>2, <1>11, PlaygroundAssumption
    DEF PlayInv, PlayOneByOne, PlayCounted, WithSession, PlayStates
  <2>2. Numbered(w)
    BY <1>1, <1>7, <1>11, <2>1 DEF PlayInv, PlayOneByOne
  <2>3. \A s \in PlaySessions : sessions'[s] # NoTurns => Numbered(sessions'[s])
    BY <1>9, <1>11, <2>2 DEF PlayInv, PlayOneByOne
  <2>4. ASSUME NEW s \in PlaySessions, NEW p \in PlayTurns, PlayKept(s, p)
        PROVE  PlayKept(s, p)'
    <3>1. CASE s # s0
      BY <1>9, <2>4, <3>1 DEF PlayKept
    <3>2. CASE s = s0
      <4>1. PICK i \in 1 .. Len(q) : q[i].turn = p
        BY <2>1, <2>4, <3>2 DEF PlayKept
      <4>2. i \in 1 .. Len(w) /\ w[i].turn = p
        BY <1>7, <4>1
      <4> QED BY <1>8, <1>9, <3>2, <4>2 DEF PlayKept
    <3> QED BY <3>1, <3>2
  <2>5. PlayKept(x.session, t)'
    <3>1. Len(q) + 1 \in 1 .. Len(w) /\ w[Len(q) + 1].turn = t
      BY <1>4, <1>7
    <3> QED BY <1>6, <1>8, <1>9, <3>1 DEF PlayKept
  <2> QED BY <2>3, <2>4, <2>5
<1>12. PlayCounted(x)'
  BY <1>6 DEF PlayCounted, WithSession
<1> QED BY <1>1, <1>6, <1>9, <1>10, <1>11, <1>12, PlayStepKeeps DEF WithSession

LEMMA PlayNextKeeps == PlayInv /\ [PlayNext]_playVars => PlayInv'
<1> SUFFICES ASSUME PlayInv, [PlayNext]_playVars PROVE PlayInv'
  OBVIOUS
<1>1. ASSUME NEW t \in PlayTurns, PlayCutShort(t) PROVE PlayInv'
  BY <1>1, PlayRaiseKeeps DEF PlayCutShort
<1>2. CASE UNCHANGED playVars
  BY <1>2 DEF playVars, PlayInv, PlayTyped, PlayPlaced, Vetted, PlaySessionsWhole, PlayOneByOne,
              PlayBusy, PlayCounted, PlayKept, PlayAt, Paired, Numbered
<1> QED BY <1>1, <1>2, StartTurnOfKeeps, GetSessionKeeps, PutEmptySessionKeeps, ReadPlayPolicyKeeps,
           CheckToxicityKeeps, CheckBinaryKeeps, AskBedrockKeeps, CallPlayModelKeeps,
           CheckPlayOutputKeeps, RereadSessionKeeps, AppendTurnsKeeps DEF PlayNext

LEMMA PlayAlways == PlaySpec => []PlayInv
<1> QED BY PlayInitially, PlayNextKeeps, PTL DEF PlaySpec

\* The sessions and the turns under way keep their types.
THEOREM PlayTypeCorrect == PlaySpec => []PlayTypeOK
<1>1. ASSUME PlayInv PROVE PlayTypeOK
  <2>1. \A s \in PlaySessions :
           sessions[s] # NoTurns => \A i \in DOMAIN sessions[s] : sessions[s][i] \in PlayEntry
    BY <1>1 DEF PlayInv, PlayTyped
  <2>2. \A t \in PlayTurns : playTurn[t] \in PlayHandler
    BY <1>1 DEF PlayInv, PlayTyped
  <2> QED BY <1>1, <2>1, <2>2 DEF PlayTypeOK, PlayHandler, PlayStates, PlayInv, PlayTyped
<1> QED BY <1>1, PlayAlways, PTL

\* Whatever the guardrail layers answer, a guarded message reaches the model and
\* its reply the session only past the layers of the policy (guardrails/engine.py);
\* and append_turns (playground/store.py) keeps the session in whole turns.
THEOREM PlaygroundIsKept == PlaySpec => []PlaygroundKept
<1>1. PlayInv => OnlyVettedIsKept
  BY DEF PlayInv, PlayTyped, PlayPlaced, Vetted, OnlyVettedIsKept
<1>2. ASSUME PlayInv, NEW s \in PlaySessions, sessions[s] # NoTurns
      PROVE  /\ \A i \in DOMAIN sessions[s] :
                   /\ sessions[s][i].role = IF i % 2 = 1 THEN "user" ELSE "assistant"
                   /\ i % 2 = 1 => /\ i < Len(sessions[s])
                                   /\ sessions[s][i + 1].turn = sessions[s][i].turn
                   /\ ~playOverlap => sessions[s][i].id = i - 1
             /\ ~playOverlap /\ ~playLost =>
                   \A t \in PlayTurns :
                      PlayAt(t, "done") /\ playTurn[t].session = s =>
                         \E i \in DOMAIN sessions[s] : sessions[s][i].turn = t
  <2>1. DOMAIN sessions[s] = 1 .. Len(sessions[s])
    BY <1>2 DEF PlayInv, PlayTyped
  <2>2. Paired(sessions[s]) /\ (~playOverlap => Numbered(sessions[s]))
    BY <1>2 DEF PlayInv, PlaySessionsWhole, PlayOneByOne
  <2>3. ~playOverlap /\ ~playLost =>
           \A t \in PlayTurns :
              PlayAt(t, "done") /\ playTurn[t].session = s =>
                 \E i \in 1 .. Len(sessions[s]) : sessions[s][i].turn = t
    BY <1>2 DEF PlayInv, PlayOneByOne, PlayKept
  <2> QED BY <2>1, <2>2, <2>3 DEF Paired, Numbered
<1>3. PlayInv => SessionIsWhole
  BY <1>2 DEF SessionIsWhole
<1>4. PlayInv => PlaygroundKept
  BY <1>1, <1>3 DEF PlaygroundKept
<1> QED BY <1>4, PlayAlways, PTL

-----------------------------------------------------------------------------
(***************************************************************************)
(* ProjectLibrary: no delete takes away what is named, at the end of every *)
(* request and wherever one is cut short. The invariant says which         *)
(* reference each step of a request still owes.                            *)
(***************************************************************************)

(***************************************************************************)
(* Types: a request that goes on with what it read has read an item.       *)
(***************************************************************************)
LibStates == {"idle", "get", "put", "write", "guard", "delete", "list", "relist", "done"}

LibHandler ==
    [op : LibraryOps \cup {"none"}, at : LibStates,
     arg : LibraryAgents \cup LibrarySkills \cup {"none"},
     saw : ProjectItem \cup {NoProject}, sawAgent : RegisteredAgent \cup {NotRegistered}]

\* The requests that put back an agent they have read.
AgentPuts == {"updateAgent", "archiveAgent", "unarchiveAgent", "rollbackAgent"}

LibPlaced(x) ==
    /\ x.op = "none" => x.at \in {"idle", "done"}
    /\ x.op \in {"createAgent", "deleteAgent"} \cup AgentPuts => x.arg \in LibraryAgents
    /\ x.op \in {"createSkill", "updateSkill", "deleteSkill"} => x.arg \in LibrarySkills
    /\ x.op = "updateProject" /\ x.at = "put" => x.saw \in ProjectItem
    /\ x.at = "relist" => x.saw \in ProjectItem
    /\ x.op \in AgentPuts /\ x.at = "write" => x.sawAgent \in RegisteredAgent

VersionsTyped == versionSkills \in [LibraryAgents -> SUBSET SUBSET LibrarySkills]

Tables(proj, regs, index, skills) ==
    /\ proj \in ProjectItem \cup {NoProject}
    /\ regs \in [LibraryAgents -> RegisteredAgent \cup {NotRegistered}]
    /\ index \subseteq LibraryAgents
    /\ skills \subseteq LibrarySkills

LibTyped ==
    /\ Tables(project, registered, projectIndex, skillItems)
    /\ VersionsTyped
    /\ libRequest \in [LibraryRequests -> LibHandler]
    /\ \A r \in LibraryRequests : LibPlaced(libRequest[r])
    /\ \A q, r \in LibraryRequests : q < r /\ libRequest[q].at = "idle" => libRequest[r].at = "idle"
    /\ libCutShort \in BOOLEAN /\ libOverlap \in BOOLEAN

(***************************************************************************)
(* Requests one at a time: the one that is served knows the tables.        *)
(***************************************************************************)
There(regs) == {a \in LibraryAgents : regs[a] # NotRegistered}

Served(x) == x.at \notin {"idle", "done"}

LibHolds(x, proj, regs, index) ==
    /\ x.op = "createProject" => There(regs) = {}
    /\ x.op = "updateProject" /\ x.at = "put" => proj # NoProject /\ x.saw = proj
    /\ x.op = "deleteProject" =>
          /\ index = There(regs)
          /\ x.at = "delete" => There(regs) = {}
    /\ x.op = "createAgent" =>
          /\ x.at \in {"get", "write"} => regs[x.arg] = NotRegistered
          /\ x.at \in {"list", "relist"} => regs[x.arg] # NotRegistered
          /\ x.at \in {"write", "list", "relist"} => proj # NoProject
    /\ x.op \in {"deleteAgent"} \cup AgentPuts /\ x.at = "write" =>
          regs[x.arg] = x.sawAgent /\ x.sawAgent # NotRegistered
    /\ x.op = "deleteAgent" /\ x.at \in {"list", "relist"} =>
          regs[x.arg] = NotRegistered /\ proj # NoProject
    /\ x.at = "relist" => x.saw = proj
    /\ x.op = "deleteSkill" /\ x.at = "delete" => \A a \in There(regs) : x.arg \notin regs[a].skills

\* The agents the project lists: a request that has changed the agents table has
\* not yet changed the project.
ListedBy(x, regs) ==
    IF x.at \notin {"list", "relist"} THEN There(regs)
    ELSE IF x.op = "createAgent" THEN There(regs) \ {x.arg}
    ELSE There(regs) \cup {x.arg}

References(proj, regs, skills) ==
    /\ There(regs) # {} => proj # NoProject
    /\ \A a \in There(regs) : regs[a].found \subseteq skills \cap regs[a].skills

LibAlone ==
    ~libOverlap =>
        /\ \A q, r \in LibraryRequests :
              Served(libRequest[q]) /\ Served(libRequest[r]) => q = r
        /\ (\A r \in LibraryRequests : libRequest[r].at = "idle") => There(registered) = {}
        /\ References(project, registered, skillItems)
        /\ \A r \in LibraryRequests :
              Served(libRequest[r]) => LibHolds(libRequest[r], project, registered, projectIndex)
        /\ ~libCutShort =>
              /\ \A r \in LibraryRequests :
                    Served(libRequest[r]) =>
                       project.agent_ids = ListedBy(libRequest[r], registered)
              /\ (\A r \in LibraryRequests : ~Served(libRequest[r])) =>
                    project.agent_ids = There(registered)

LibInv == LibTyped /\ LibAlone

-----------------------------------------------------------------------------
(* The frame of a step *)

LEMMA ItemsAreSomething ==
  /\ \A item \in ProjectItem : item # NoProject
  /\ \A item \in RegisteredAgent : item # NotRegistered
BY DEF ProjectItem, NoProject, RegisteredAgent, NotRegistered

LEMMA AgentsThereAre == AgentsThere = There(registered)
BY DEF AgentsThere, There

\* Request r leaves x behind.
LEMMA LibStepKeeps ==
  ASSUME LibInv, NEW r \in LibraryRequests, NEW x \in LibHandler,
         libRequest' = [libRequest EXCEPT ![r] = x], UNCHANGED libOverlap,
         libCutShort' \in BOOLEAN, LibPlaced(x), x.at # "idle",
         \A q \in LibraryRequests : q < r => libRequest[q].at # "idle",
         Tables(project', registered', projectIndex', skillItems'), VersionsTyped',
         ~libOverlap =>
            /\ \A q \in LibraryRequests \ {r} : ~Served(libRequest[q])
            /\ References(project', registered', skillItems')
            /\ Served(x) => LibHolds(x, project', registered', projectIndex')
            /\ ~libCutShort' => project'.agent_ids = ListedBy(x, registered')
  PROVE  LibInv'
<1>1. /\ libRequest' \in [LibraryRequests -> LibHandler] /\ libRequest'[r] = x
      /\ \A q \in LibraryRequests \ {r} : libRequest'[q] = libRequest[q]
  BY DEF LibInv, LibTyped
<1>2. \A q \in LibraryRequests : LibPlaced(libRequest'[q])
  BY <1>1 DEF LibInv, LibTyped
<1>3. \A q, p \in LibraryRequests :
         q < p /\ libRequest'[q].at = "idle" => libRequest'[p].at = "idle"
  BY <1>1, LibraryAssumption DEF LibInv, LibTyped
<1>4. LibTyped'
  <2>1. Tables(project, registered, projectIndex, skillItems)'
    BY DEF Tables
  <2>2. (\A q \in LibraryRequests : LibPlaced(libRequest[q]))'
    BY <1>2 DEF LibPlaced
  <2> QED BY <1>1, <1>3, <2>1, <2>2 DEF LibInv, LibTyped
<1>5. LibAlone'
  <2>1. CASE libOverlap
    BY <2>1 DEF LibAlone
  <2>2. CASE ~libOverlap
    <3>1. \A q \in LibraryRequests \ {r} : ~Served(libRequest'[q])
      BY <1>1, <2>2
    <3>2. \A p, q \in LibraryRequests :
             Served(libRequest'[q]) /\ Served(libRequest'[p]) => q = p
      BY <3>1
    <3>3. \A q \in LibraryRequests : Served(libRequest'[q]) =>
             LibHolds(libRequest'[q], project', registered', projectIndex')
      BY <1>1, <2>2, <3>1
    <3>4. ~libCutShort' =>
             /\ \A q \in LibraryRequests : Served(libRequest'[q]) =>
                   project'.agent_ids = ListedBy(libRequest'[q], registered')
             /\ (\A q \in LibraryRequests : ~Served(libRequest'[q])) =>
                   project'.agent_ids = There(registered')
      BY <1>1, <2>2, <3>1 DEF ListedBy, Served
    <3>5. ~\A q \in LibraryRequests : libRequest'[q].at = "idle"
      BY <1>1
    <3>6. References(project, registered, skillItems)'
      BY <2>2 DEF References, There
    <3> QED BY <2>2, <3>2, <3>3, <3>4, <3>5, <3>6
            DEF LibAlone, Served, LibHolds, ListedBy, There
  <2> QED BY <2>1, <2>2
<1> QED BY <1>4, <1>5 DEF LibInv

\* What a request that is served starts from.
LEMMA ServedRequest ==
  ASSUME LibInv, NEW r \in LibraryRequests, Served(libRequest[r])
  PROVE  /\ libRequest[r] \in LibHandler /\ LibPlaced(libRequest[r])
         /\ Tables(project, registered, projectIndex, skillItems)
         /\ VersionsTyped
         /\ \A q \in LibraryRequests : q < r => libRequest[q].at # "idle"
         /\ libCutShort \in BOOLEAN
         /\ ~libOverlap =>
               /\ \A q \in LibraryRequests \ {r} : ~Served(libRequest[q])
               /\ References(project, registered, skillItems)
               /\ LibHolds(libRequest[r], project, registered, projectIndex)
               /\ ~libCutShort => project.agent_ids = ListedBy(libRequest[r], registered)
BY DEF LibInv, LibTyped, LibAlone, Served

LEMMA RequestReplies ==
  ASSUME LibInv, NEW r \in LibraryRequests, Replies(r)
  PROVE  \E x \in LibHandler :
            /\ libRequest' = [libRequest EXCEPT ![r] = x]
            /\ x.at = "done" /\ LibPlaced(x) /\ ~Served(x)
<1>1. PICK x : x = [IdleLibrary EXCEPT !.at = "done"]
  OBVIOUS
<1>2. x \in LibHandler /\ x.at = "done" /\ x.op = "none"
  BY <1>1 DEF IdleLibrary, LibHandler, LibStates
<1>3. LibPlaced(x) /\ ~Served(x)
  BY <1>2 DEF LibPlaced, Served, AgentPuts
<1> QED BY <1>1, <1>2, <1>3 DEF Replies

LEMMA RequestGoesOn ==
  ASSUME LibInv, NEW r \in LibraryRequests, NEW state \in LibStates, Continues(r, state)
  PROVE  \E x \in LibHandler :
            /\ libRequest' = [libRequest EXCEPT ![r] = x]
            /\ x.at = state /\ x.op = libRequest[r].op /\ x.arg = libRequest[r].arg
            /\ x.saw = libRequest[r].saw /\ x.sawAgent = libRequest[r].sawAgent
<1>1. PICK x : x = [libRequest[r] EXCEPT !.at = state]
  OBVIOUS
<1>2. libRequest[r] \in LibHandler
  BY DEF LibInv, LibTyped
<1>3. /\ x \in LibHandler
      /\ x.at = state /\ x.op = libRequest[r].op /\ x.arg = libRequest[r].arg
      /\ x.saw = libRequest[r].saw /\ x.sawAgent = libRequest[r].sawAgent
  BY <1>1, <1>2 DEF LibHandler
<1> QED BY <1>1, <1>3 DEF Continues, LibInv, LibTyped

LEMMA VersionsKept ==
  ASSUME LibInv, UNCHANGED versionSkills
  PROVE  VersionsTyped'
BY DEF LibInv, LibTyped, VersionsTyped

\* A request that ends, with what it leaves in the tables.
LEMMA ReplyKeeps ==
  ASSUME LibInv, NEW r \in LibraryRequests, Served(libRequest[r]), Replies(r),
         UNCHANGED libOverlap, libCutShort' \in BOOLEAN,
         Tables(project', registered', projectIndex', skillItems'), VersionsTyped',
         ~libOverlap =>
            /\ References(project', registered', skillItems')
            /\ ~libCutShort' => project'.agent_ids = There(registered')
  PROVE  LibInv'
<1>1. PICK x \in LibHandler :
            /\ libRequest' = [libRequest EXCEPT ![r] = x]
            /\ x.at = "done" /\ LibPlaced(x) /\ ~Served(x)
  BY RequestReplies
<1>2. ListedBy(x, registered') = There(registered')
  BY <1>1 DEF ListedBy
<1> QED BY <1>1, <1>2, ServedRequest, LibStepKeeps

\* A request that ends without an effect.
LEMMA ReplyOnly ==
  ASSUME LibInv, NEW r \in LibraryRequests, Served(libRequest[r]), Replies(r),
         UNCHANGED <<project, registered, versionSkills, projectIndex, skillItems, libOverlap>>,
         \/ libCutShort' = TRUE
         \/ UNCHANGED libCutShort /\ libRequest[r].at \notin {"list", "relist"}
  PROVE  LibInv'
<1>1. ~libOverlap /\ ~libCutShort' => project.agent_ids = There(registered)
  <2>1. CASE libCutShort' = TRUE
    BY <2>1
  <2>2. CASE UNCHANGED libCutShort /\ libRequest[r].at \notin {"list", "relist"}
    <3>1. ListedBy(libRequest[r], registered) = There(registered)
      BY <2>2 DEF ListedBy
    <3> QED BY <2>2, <3>1, ServedRequest
  <2> QED BY <2>1, <2>2
<1> QED BY <1>1, ServedRequest, VersionsKept, ReplyKeeps

\* A request that goes on, with what it knows then.
LEMMA GoOnKeeps ==
  ASSUME LibInv, NEW r \in LibraryRequests, Served(libRequest[r]), NEW x \in LibHandler,
         libRequest' = [libRequest EXCEPT ![r] = x], x.at # "idle",
         UNCHANGED <<project, registered, versionSkills, projectIndex, skillItems, libOverlap,
                     libCutShort>>,
         LibPlaced(x),
         ~libOverlap =>
            /\ LibHolds(x, project, registered, projectIndex)
            /\ ListedBy(x, registered) = ListedBy(libRequest[r], registered)
  PROVE  LibInv'
BY ServedRequest, VersionsKept, LibStepKeeps

-----------------------------------------------------------------------------
(* The requests *)

LEMMA LibInitially == LibInit => LibInv
<1> SUFFICES ASSUME LibInit PROVE LibInv
  OBVIOUS
<1>1. IdleLibrary \in LibHandler /\ IdleLibrary.at = "idle" /\ IdleLibrary.op = "none"
  BY DEF IdleLibrary, LibHandler, LibStates
<1>2. LibPlaced(IdleLibrary) /\ ~Served(IdleLibrary)
  BY <1>1 DEF LibPlaced, Served, AgentPuts
<1>3. \A r \in LibraryRequests : libRequest[r] = IdleLibrary
  BY DEF LibInit
<1>4. There(registered) = {}
  BY DEF LibInit, There
<1>5. Tables(project, registered, projectIndex, skillItems)
  BY DEF LibInit, Tables
<1>6. LibTyped
  BY <1>1, <1>2, <1>3, <1>5 DEF LibInit, LibTyped, VersionsTyped
<1>7. project.agent_ids = {}
  BY DEF LibInit, NoProject
<1>8. LibAlone
  BY <1>2, <1>3, <1>4, <1>7 DEF LibAlone, References
<1> QED BY <1>6, <1>8 DEF LibInv

LEMMA CallKeeps ==
  ASSUME LibInv, NEW r \in LibraryRequests, NEW op \in LibraryOps, NEW arg, Call(r, op, arg),
         \/ op \in {"createProject", "updateProject", "deleteProject"} /\ arg = "none"
         \/ /\ op \in {"createAgent", "deleteAgent"} \cup AgentPuts
            /\ arg \in LibraryAgents
         \/ op \in {"createSkill", "updateSkill", "deleteSkill"} /\ arg \in LibrarySkills
  PROVE  LibInv'
<1>1. PICK x : x = [IdleLibrary EXCEPT !.op = op, !.arg = arg, !.at = "get"]
  OBVIOUS
<1>2. /\ x \in LibHandler /\ x.op = op /\ x.arg = arg /\ x.at = "get"
  BY <1>1 DEF IdleLibrary, LibHandler, LibStates
<1>3. libRequest' = [libRequest EXCEPT ![r] = x]
  BY <1>1 DEF Call
<1>4. LibPlaced(x)
  BY <1>2 DEF LibPlaced, LibraryOps, AgentPuts
<1>5. /\ UNCHANGED <<project, registered, versionSkills, projectIndex, skillItems, libCutShort,
                     libOverlap>>
      /\ \A q \in LibraryRequests : q < r => libRequest[q].at # "idle"
      /\ ~libOverlap => LibQuiescent /\ projectIndex = There(registered)
      /\ op = "createAgent" => registered[arg] = NotRegistered
      /\ libRequest[r].at = "idle"
  BY AgentsThereAre DEF Call
<1>6. ASSUME ~libOverlap
      PROVE  /\ \A q \in LibraryRequests : ~Served(libRequest[q])
             /\ ~libCutShort => project.agent_ids = ListedBy(x, registered)
  BY <1>2, <1>5, <1>6 DEF LibQuiescent, LibBusy, Served, LibInv, LibAlone, ListedBy
<1>7. ASSUME ~libOverlap, op = "createProject" PROVE There(registered) = {}
  <2>1. \A q \in LibraryRequests : r <= q
    BY <1>7 DEF Call
  <2>2. \A q \in LibraryRequests : q = r \/ r < q
    BY <2>1, LibraryAssumption
  <2>3. \A q \in LibraryRequests : libRequest[q].at = "idle"
    BY <1>5, <2>2 DEF LibInv, LibTyped
  <2> QED BY <1>7, <2>3 DEF LibInv, LibAlone
<1>8. ~libOverlap => LibHolds(x, project, registered, projectIndex)
  BY <1>2, <1>5, <1>7 DEF LibHolds
<1>9. /\ Tables(project, registered, projectIndex, skillItems) /\ libCutShort \in BOOLEAN
      /\ ~libOverlap => References(project, registered, skillItems)
  BY DEF LibInv, LibTyped, LibAlone
<1> QED BY <1>2, <1>3, <1>4, <1>5, <1>6, <1>8, <1>9, VersionsKept, LibStepKeeps

LEMMA IndexFollowsKeeps ==
  ASSUME LibInv, NEW a \in LibraryAgents, IndexFollows(a)
  PROVE  LibInv'
<1>1. /\ UNCHANGED <<project, registered, versionSkills, skillItems, libRequest, libCutShort,
                     libOverlap>>
      /\ projectIndex # There(registered) /\ projectIndex' \subseteq projectIndex \cup {a}
  BY AgentsThereAre DEF IndexFollows
<1>2. LibTyped'
  BY <1>1 DEF LibInv, LibTyped, Tables, VersionsTyped, LibPlaced
<1>3. \A r \in LibraryRequests :
         LibHolds(libRequest[r], project, registered, projectIndex) =>
            LibHolds(libRequest[r], project, registered, projectIndex')
  BY <1>1 DEF LibHolds
<1>4. LibAlone'
  BY <1>1, <1>3 DEF LibInv, LibAlone, References, ListedBy, There, Served, LibHolds
<1> QED BY <1>2, <1>4 DEF LibInv

LEMMA CreateProjectKeeps ==
  ASSUME LibInv, NEW r \in LibraryRequests, CreateProject(r)
  PROVE  LibInv'
<1>1. /\ Served(libRequest[r]) /\ libRequest[r].op = "createProject" /\ Replies(r)
      /\ UNCHANGED <<registered, versionSkills, projectIndex, skillItems, libCutShort, libOverlap>>
  BY DEF CreateProject, Reached, Served
<1>2. project' \in ProjectItem /\ project'.agent_ids = {}
  BY DEF CreateProject, ProjectItem
<1>3. ~libOverlap => There(registered) = {}
  BY <1>1, ServedRequest DEF LibHolds
<1>4. Tables(project', registered, projectIndex, skillItems)
  BY <1>1, <1>2, ServedRequest DEF Tables
<1>5. ~libOverlap => References(project', registered, skillItems)
  BY <1>3 DEF References
<1> QED BY <1>1, <1>2, <1>3, <1>4, <1>5, ServedRequest, VersionsKept, ReplyKeeps

LEMMA RequireProjectKeeps ==
  ASSUME LibInv, NEW r \in LibraryRequests, NEW state \in LibStates,
         NEW next \in {"put", "guard", "write", "relist"},
         RequireProject(r, state, next), Served(libRequest[r]),
         \/ libRequest[r].op = "updateProject" /\ state = "get" /\ next = "put"
         \/ libRequest[r].op = "deleteProject" /\ state = "get" /\ next = "guard"
         \/ libRequest[r].op = "createAgent" /\ state = "get" /\ next = "write"
         \/ /\ libRequest[r].op \in {"createAgent", "deleteAgent"}
            /\ state = "list" /\ next = "relist"
  PROVE  LibInv'
<1>1. /\ libRequest[r].at = state
      /\ UNCHANGED <<project, registered, versionSkills, projectIndex, skillItems, libCutShort,
                     libOverlap>>
  BY DEF RequireProject
<1>2. CASE ~ProjectThere
  <2>1. Replies(r)
    BY <1>2 DEF RequireProject
  <2>2. CASE state = "get"
    BY <1>1, <2>1, <2>2, ReplyOnly
  <2>3. CASE state = "list" /\ ~libOverlap
    <3>1. project # NoProject
      BY <1>1, <2>3, ServedRequest DEF LibHolds
    <3> QED BY <1>2, <3>1 DEF ProjectThere
  <2>4. CASE libOverlap
    BY <1>1, <2>1, <2>4, ServedRequest, VersionsKept, ReplyKeeps
  <2> QED BY <2>2, <2>3, <2>4
<1>3. CASE ProjectThere
  <2>1. PICK x : x = [libRequest[r] EXCEPT !.saw = project, !.at = next]
    OBVIOUS
  <2>2. project \in ProjectItem /\ project # NoProject
    BY <1>3, ServedRequest DEF ProjectThere, Tables
  <2>3. /\ x \in LibHandler /\ x.saw = project /\ x.at = next /\ x.op = libRequest[r].op
        /\ x.arg = libRequest[r].arg /\ x.sawAgent = libRequest[r].sawAgent
    BY <2>1, <2>2, ServedRequest DEF LibHandler, LibStates
  <2>4. libRequest' = [libRequest EXCEPT ![r] = x]
    BY <1>3, <2>1 DEF RequireProject, LibInv, LibTyped
  <2>5. LibPlaced(x)
    BY <2>2, <2>3, ServedRequest DEF LibPlaced, AgentPuts
  <2>6. ~libOverlap => LibHolds(x, project, registered, projectIndex)
    BY <1>1, <2>2, <2>3, ServedRequest DEF LibHolds, AgentPuts
  <2>7. ListedBy(x, registered) = ListedBy(libRequest[r], registered)
    BY <1>1, <2>3 DEF ListedBy
  <2> QED BY <1>1, <2>3, <2>4, <2>5, <2>6, <2>7, GoOnKeeps
<1> QED BY <1>2, <1>3

LEMMA GetProjectKeeps ==
  ASSUME LibInv, NEW r \in LibraryRequests, GetProject(r) \/ GetProjectAgain(r)
  PROVE  LibInv'
<1>1. CASE Reached(r, {"updateProject"}, "get") /\ RequireProject(r, "get", "put")
  BY <1>1, RequireProjectKeeps DEF Reached, Served, LibStates
<1>2. CASE Reached(r, {"deleteProject"}, "get") /\ RequireProject(r, "get", "guard")
  BY <1>2, RequireProjectKeeps DEF Reached, Served, LibStates
<1>3. CASE Reached(r, {"createAgent"}, "get") /\ RequireProject(r, "get", "write")
  BY <1>3, RequireProjectKeeps DEF Reached, Served, LibStates
<1>4. CASE /\ Reached(r, {"createAgent", "deleteAgent"}, "list")
           /\ RequireProject(r, "list", "relist")
  BY <1>4, RequireProjectKeeps DEF Reached, Served, LibStates
<1> QED BY <1>1, <1>2, <1>3, <1>4 DEF GetProject, GetProjectAgain

LEMMA PutProjectKeeps ==
  ASSUME LibInv, NEW r \in LibraryRequests, PutProject(r)
  PROVE  LibInv'
<1>1. /\ Served(libRequest[r]) /\ Replies(r)
      /\ libRequest[r].op = "updateProject" /\ libRequest[r].at = "put"
      /\ UNCHANGED <<registered, versionSkills, projectIndex, skillItems, libCutShort, libOverlap>>
  BY DEF PutProject, Reached, Served
<1>2. PICK state \in {"active", "archived"} :
         project' = [libRequest[r].saw EXCEPT !.status = state]
  BY DEF PutProject
<1>3. libRequest[r].saw \in ProjectItem
  BY <1>1, ServedRequest DEF LibPlaced
<1>4. project' \in ProjectItem /\ project'.agent_ids = libRequest[r].saw.agent_ids
  BY <1>2, <1>3 DEF ProjectItem
<1>5. ~libOverlap => /\ project # NoProject /\ libRequest[r].saw = project
                     /\ ListedBy(libRequest[r], registered) = There(registered)
  BY <1>1, ServedRequest DEF LibHolds, ListedBy
<1>6. Tables(project', registered, projectIndex, skillItems)
  BY <1>1, <1>4, ServedRequest DEF Tables
<1>7. ~libOverlap => References(project', registered, skillItems)
  BY <1>1, <1>4, ItemsAreSomething, ServedRequest DEF References
<1> QED BY <1>1, <1>4, <1>5, <1>6, <1>7, ServedRequest, VersionsKept, ReplyKeeps

LEMMA GuardProjectKeeps ==
  ASSUME LibInv, NEW r \in LibraryRequests, GuardProject(r)
  PROVE  LibInv'
<1>1. /\ Served(libRequest[r])
      /\ libRequest[r].op = "deleteProject" /\ libRequest[r].at = "guard"
      /\ UNCHANGED <<project, registered, versionSkills, projectIndex, skillItems, libCutShort,
                     libOverlap>>
  BY DEF GuardProject, Reached, Served
<1>2. CASE Replies(r)
  BY <1>1, <1>2, ReplyOnly
<1>3. CASE projectIndex = {} /\ Continues(r, "delete")
  <2>1. PICK x \in LibHandler :
            /\ libRequest' = [libRequest EXCEPT ![r] = x]
            /\ x.at = "delete" /\ x.op = libRequest[r].op /\ x.arg = libRequest[r].arg
            /\ x.saw = libRequest[r].saw /\ x.sawAgent = libRequest[r].sawAgent
    BY <1>3, RequestGoesOn DEF LibStates
  <2>2. LibPlaced(x)
    BY <1>1, <2>1, ServedRequest DEF LibPlaced
  <2>3. ~libOverlap => LibHolds(x, project, registered, projectIndex)
    BY <1>1, <1>3, <2>1, ServedRequest DEF LibHolds
  <2>4. ListedBy(x, registered) = ListedBy(libRequest[r], registered)
    BY <1>1, <2>1 DEF ListedBy
  <2> QED BY <1>1, <2>1, <2>2, <2>3, <2>4, GoOnKeeps
<1> QED BY <1>2, <1>3 DEF GuardProject, AgentsReferencingProject

LEMMA DeleteProjectKeeps ==
  ASSUME LibInv, NEW r \in LibraryRequests, DeleteProject(r)
  PROVE  LibInv'
<1>1. /\ Served(libRequest[r]) /\ Replies(r) /\ project' = NoProject
      /\ libRequest[r].op = "deleteProject" /\ libRequest[r].at = "delete"
      /\ UNCHANGED <<registered, versionSkills, projectIndex, skillItems, libCutShort, libOverlap>>
  BY DEF DeleteProject, Reached, Served
<1>2. ~libOverlap => There(registered) = {}
  BY <1>1, ServedRequest DEF LibHolds
<1>3. Tables(project', registered, projectIndex, skillItems)
  BY <1>1, ServedRequest DEF Tables
<1>4. ~libOverlap => References(project', registered, skillItems)
  BY <1>2 DEF References
<1>5. project'.agent_ids = {}
  BY <1>1 DEF NoProject
<1> QED BY <1>1, <1>2, <1>3, <1>4, <1>5, ServedRequest, VersionsKept, ReplyKeeps

\* A request changes one row of the agents table and goes on to the project.
LEMMA RowBecomes ==
  ASSUME LibInv, NEW a \in LibraryAgents, NEW item \in RegisteredAgent \cup {NotRegistered},
         registered' = [registered EXCEPT ![a] = item]
  PROVE  /\ registered' \in [LibraryAgents -> RegisteredAgent \cup {NotRegistered}]
         /\ registered'[a] = item
         /\ \A b \in LibraryAgents \ {a} : registered'[b] = registered[b]
         /\ There(registered') = IF item = NotRegistered THEN There(registered) \ {a}
                                 ELSE There(registered) \cup {a}
<1>1. /\ registered' \in [LibraryAgents -> RegisteredAgent \cup {NotRegistered}]
      /\ registered'[a] = item
      /\ \A b \in LibraryAgents \ {a} : registered'[b] = registered[b]
  BY DEF LibInv, LibTyped, Tables
<1> QED BY <1>1 DEF There

\* A version that becomes current finds the skills it names that are there.
LEMMA NamingFinds ==
  ASSUME NEW item \in RegisteredAgent, NEW skills \in SUBSET LibrarySkills
  PROVE  /\ Naming(item, skills) \in RegisteredAgent
         /\ Naming(item, skills).found \subseteq skillItems \cap Naming(item, skills).skills
         /\ [Naming(item, skills) EXCEPT !.archived = FALSE] \in RegisteredAgent
         /\ [Naming(item, skills) EXCEPT !.archived = FALSE].found \subseteq
               skillItems \cap [Naming(item, skills) EXCEPT !.archived = FALSE].skills
BY DEF Naming, RegisteredAgent

LEMMA RegisterAgentKeeps ==
  ASSUME LibInv, NEW r \in LibraryRequests, RegisterAgent(r)
  PROVE  LibInv'
<1>1. /\ Served(libRequest[r]) /\ Continues(r, "list")
      /\ libRequest[r].op = "createAgent" /\ libRequest[r].at = "write"
      /\ UNCHANGED <<project, projectIndex, skillItems, libCutShort, libOverlap>>
  BY DEF RegisterAgent, Reached, Served
<1>2. PICK a \in LibraryAgents : a = libRequest[r].arg
  BY <1>1, ServedRequest DEF LibPlaced
<1>3. PICK skills \in SUBSET LibrarySkills :
         /\ registered' = [registered EXCEPT ![a] = Naming(BlankAgent, skills)]
         /\ versionSkills' = [versionSkills EXCEPT ![a] = {skills}]
  BY <1>2 DEF RegisterAgent
<1>4. PICK item : item = Naming(BlankAgent, skills)
  OBVIOUS
<1>5. /\ item \in RegisteredAgent /\ item # NotRegistered
      /\ item.found \subseteq skillItems \cap item.skills
  BY <1>4, ItemsAreSomething, NamingFinds DEF BlankAgent, RegisteredAgent
<1>6. /\ registered' \in [LibraryAgents -> RegisteredAgent \cup {NotRegistered}]
      /\ registered'[a] = item
      /\ \A b \in LibraryAgents \ {a} : registered'[b] = registered[b]
      /\ There(registered') = There(registered) \cup {a}
  BY <1>3, <1>4, <1>5, RowBecomes
<1>7. PICK x \in LibHandler :
            /\ libRequest' = [libRequest EXCEPT ![r] = x]
            /\ x.at = "list" /\ x.op = libRequest[r].op /\ x.arg = libRequest[r].arg
            /\ x.saw = libRequest[r].saw /\ x.sawAgent = libRequest[r].sawAgent
  BY <1>1, RequestGoesOn DEF LibStates
<1>8. LibPlaced(x)
  BY <1>1, <1>7, ServedRequest DEF LibPlaced
<1>9. Tables(project, registered', projectIndex, skillItems) /\ VersionsTyped'
  BY <1>1, <1>3, <1>6, ServedRequest DEF Tables, VersionsTyped
<1>10. ASSUME ~libOverlap
       PROVE  /\ References(project, registered', skillItems)
              /\ LibHolds(x, project, registered', projectIndex)
              /\ ~libCutShort => project.agent_ids = ListedBy(x, registered')
  <2>1. project # NoProject /\ a \notin There(registered)
    BY <1>1, <1>2, <1>10, ServedRequest DEF LibHolds, There
  <2>2. References(project, registered', skillItems)
    <3>1. \A b \in There(registered') : b = a \/ b \in There(registered)
      BY <1>6
    <3>2. ASSUME NEW b \in There(registered')
          PROVE  registered'[b].found \subseteq skillItems \cap registered'[b].skills
      <4>1. CASE b = a
        BY <1>5, <1>6, <4>1
      <4>2. CASE b # a
        BY <1>1, <1>6, <1>10, <3>1, <4>2, ServedRequest DEF References, There
      <4> QED BY <4>1, <4>2
    <3> QED BY <2>1, <3>2 DEF References
  <2>3. LibHolds(x, project, registered', projectIndex)
    BY <1>1, <1>2, <1>5, <1>6, <1>7, <2>1 DEF LibHolds
  <2>4. ListedBy(x, registered') = There(registered)
    BY <1>1, <1>2, <1>6, <1>7, <2>1 DEF ListedBy
  <2>5. ListedBy(libRequest[r], registered) = There(registered)
    BY <1>1 DEF ListedBy
  <2> QED BY <1>1, <1>10, <2>2, <2>3, <2>4, <2>5, ServedRequest
<1> QED BY <1>1, <1>7, <1>8, <1>9, <1>10, ServedRequest, LibStepKeeps

LEMMA GetProjectAgentKeeps ==
  ASSUME LibInv, NEW r \in LibraryRequests, GetProjectAgent(r)
  PROVE  LibInv'
<1>1. /\ Served(libRequest[r])
      /\ libRequest[r].op \in {"deleteAgent"} \cup AgentPuts /\ libRequest[r].at = "get"
      /\ UNCHANGED <<project, registered, versionSkills, projectIndex, skillItems, libCutShort,
                     libOverlap>>
  BY DEF GetProjectAgent, Reached, Served, AgentPuts
<1>2. CASE Replies(r)
  BY <1>1, <1>2, ReplyOnly
<1>3. CASE ~Replies(r)
  <2>1. PICK item : item = registered[libRequest[r].arg]
    OBVIOUS
  <2>2. /\ item # NotRegistered
        /\ libRequest' = [libRequest EXCEPT ![r].sawAgent = item, ![r].at = "write"]
    BY <1>3, <2>1 DEF GetProjectAgent
  <2>3. item \in RegisteredAgent
    BY <1>1, <2>1, <2>2, ServedRequest DEF LibPlaced, Tables
  <2>4. PICK x : x = [libRequest[r] EXCEPT !.sawAgent = item, !.at = "write"]
    OBVIOUS
  <2>5. /\ x \in LibHandler /\ x.saw = libRequest[r].saw /\ x.at = "write"
        /\ x.op = libRequest[r].op /\ x.arg = libRequest[r].arg /\ x.sawAgent = item
    BY <2>3, <2>4, <1>1, ServedRequest DEF LibHandler, LibStates
  <2>6. libRequest' = [libRequest EXCEPT ![r] = x]
    BY <2>2, <2>4 DEF LibInv, LibTyped
  <2>7. LibPlaced(x)
    BY <1>1, <2>3, <2>5, ServedRequest DEF LibPlaced, AgentPuts
  <2>8. LibHolds(x, project, registered, projectIndex)
    BY <1>1, <2>1, <2>2, <2>5 DEF LibHolds, AgentPuts
  <2>9. ListedBy(x, registered) = ListedBy(libRequest[r], registered)
    BY <1>1, <2>5 DEF ListedBy, AgentPuts
  <2> QED BY <1>1, <2>5, <2>6, <2>7, <2>8, <2>9, GoOnKeeps
<1> QED BY <1>2, <1>3

LEMMA RefusesAgentKeeps ==
  ASSUME LibInv, NEW r \in LibraryRequests, RefusesAgent(r)
  PROVE  LibInv'
BY ReplyOnly DEF RefusesAgent, Reached, Served

\* An agent that was read is put back, and the project goes on listing it: what its
\* version found is found now, or was when it was read.
LEMMA PutBack ==
  ASSUME LibInv, NEW r \in LibraryRequests, Served(libRequest[r]),
         libRequest[r].op \in AgentPuts, libRequest[r].at = "write",
         NEW a \in LibraryAgents, a = libRequest[r].arg,
         NEW item \in RegisteredAgent, registered' = [registered EXCEPT ![a] = item],
         \/ item.found \subseteq skillItems \cap item.skills
         \/ /\ item.found = libRequest[r].sawAgent.found
            /\ item.skills = libRequest[r].sawAgent.skills
  PROVE  /\ Tables(project, registered', projectIndex, skillItems)
         /\ ~libOverlap =>
               /\ References(project, registered', skillItems)
               /\ There(registered') = There(registered)
               /\ ~libCutShort => project.agent_ids = There(registered')
<1>1. /\ registered' \in [LibraryAgents -> RegisteredAgent \cup {NotRegistered}]
      /\ registered'[a] = item
      /\ \A b \in LibraryAgents \ {a} : registered'[b] = registered[b]
      /\ There(registered') = There(registered) \cup {a}
  BY ItemsAreSomething, RowBecomes
<1>2. Tables(project, registered', projectIndex, skillItems)
  BY <1>1, ServedRequest DEF Tables
<1>3. ASSUME ~libOverlap
      PROVE  /\ References(project, registered', skillItems)
             /\ There(registered') = There(registered)
             /\ ~libCutShort => project.agent_ids = There(registered')
  <2>1. registered[a] = libRequest[r].sawAgent /\ a \in There(registered)
    BY <1>3, ServedRequest DEF LibHolds, There
  <2>2. There(registered') = There(registered)
    <3>1. There(registered') = There(registered) \cup {a} /\ a \in There(registered)
      BY <1>1, <2>1
    <3> QED BY <3>1, Zenon
  <2>3. \A b \in There(registered) : registered[b].found \subseteq skillItems \cap registered[b].skills
    BY <1>3, ServedRequest DEF References
  <2>4. ASSUME NEW b \in There(registered')
        PROVE  registered'[b].found \subseteq skillItems \cap registered'[b].skills
    <3>1. CASE b = a
      BY <1>1, <2>1, <2>3, <3>1
    <3>2. CASE b # a
      BY <1>1, <2>2, <2>3, <3>2 DEF There
    <3> QED BY <3>1, <3>2
  <2>5. ListedBy(libRequest[r], registered) = There(registered)
    BY DEF ListedBy
  <2> QED BY <1>3, <2>2, <2>4, <2>5, ServedRequest DEF References
<1> QED BY <1>2, <1>3

LEMMA PutVersionKeeps ==
  ASSUME LibInv, NEW r \in LibraryRequests, PutVersion(r)
  PROVE  LibInv'
<1>1. /\ Served(libRequest[r])
      /\ libRequest[r].op = "updateAgent" /\ libRequest[r].at = "write"
      /\ UNCHANGED <<project, projectIndex, skillItems, libCutShort, libOverlap>>
  BY DEF PutVersion, Reached, Served
<1>2. PICK a \in LibraryAgents : a = libRequest[r].arg
  BY <1>1, ServedRequest DEF LibPlaced, AgentPuts
<1>3. PICK skills \in SUBSET LibrarySkills :
         /\ registered' = [registered EXCEPT ![a] = Naming(libRequest[r].sawAgent, skills)]
         /\ versionSkills' = [versionSkills EXCEPT ![a] = @ \cup {skills}]
  BY <1>2 DEF PutVersion
<1>4. PICK item : item = Naming(libRequest[r].sawAgent, skills)
  OBVIOUS
<1>5. item \in RegisteredAgent /\ item.found \subseteq skillItems \cap item.skills
  BY <1>1, <1>4, NamingFinds, ServedRequest DEF LibPlaced, AgentPuts
<1>6. /\ Tables(project, registered', projectIndex, skillItems)
      /\ ~libOverlap =>
            /\ References(project, registered', skillItems)
            /\ ~libCutShort => project.agent_ids = There(registered')
  BY <1>1, <1>2, <1>3, <1>4, <1>5, PutBack DEF AgentPuts
<1>7. VersionsTyped'
  BY <1>3, <1>1, ServedRequest DEF VersionsTyped
<1>8. CASE Replies(r)
  BY <1>1, <1>6, <1>7, <1>8, ReplyKeeps, ServedRequest
<1>9. CASE libRequest' = [libRequest EXCEPT ![r].op = "unarchiveAgent", ![r].at = "get"]
  <2>1. PICK x : x = [libRequest[r] EXCEPT !.op = "unarchiveAgent", !.at = "get"]
    OBVIOUS
  <2>2. /\ x \in LibHandler /\ x.at = "get" /\ x.op = "unarchiveAgent"
        /\ x.arg = libRequest[r].arg
    BY <1>1, <2>1, ServedRequest DEF LibHandler, LibStates, LibraryOps
  <2>3. libRequest' = [libRequest EXCEPT ![r] = x]
    BY <1>9, <2>1 DEF LibInv, LibTyped
  <2>4. LibPlaced(x)
    BY <1>2, <2>2 DEF LibPlaced, AgentPuts
  <2>5. LibHolds(x, project, registered', projectIndex)
    BY <2>2 DEF LibHolds
  <2>6. ListedBy(x, registered') = There(registered')
    BY <2>2 DEF ListedBy
  <2> QED BY <1>1, <1>6, <1>7, <2>2, <2>3, <2>4, <2>5, <2>6, ServedRequest, LibStepKeeps
<1> QED BY <1>8, <1>9 DEF PutVersion

LEMMA RollBackKeeps ==
  ASSUME LibInv, NEW r \in LibraryRequests, RollBack(r)
  PROVE  LibInv'
<1>1. /\ Served(libRequest[r]) /\ Replies(r)
      /\ libRequest[r].op = "rollbackAgent" /\ libRequest[r].at = "write"
      /\ UNCHANGED <<project, versionSkills, projectIndex, skillItems, libCutShort, libOverlap>>
  BY DEF RollBack, Reached, Served
<1>2. PICK a \in LibraryAgents : a = libRequest[r].arg
  BY <1>1, ServedRequest DEF LibPlaced, AgentPuts
<1>3. PICK skills \in SUBSET LibrarySkills :
         registered' = [registered EXCEPT
            ![a] = [Naming(libRequest[r].sawAgent, skills) EXCEPT !.archived = FALSE]]
  BY <1>1, <1>2, ServedRequest DEF RollBack, VersionsTyped
<1>4. PICK item : item = [Naming(libRequest[r].sawAgent, skills) EXCEPT !.archived = FALSE]
  OBVIOUS
<1>5. item \in RegisteredAgent /\ item.found \subseteq skillItems \cap item.skills
  BY <1>1, <1>4, NamingFinds, ServedRequest DEF LibPlaced, AgentPuts
<1>6. /\ Tables(project, registered', projectIndex, skillItems)
      /\ ~libOverlap =>
            /\ References(project, registered', skillItems)
            /\ ~libCutShort => project.agent_ids = There(registered')
  BY <1>1, <1>2, <1>3, <1>4, <1>5, PutBack DEF AgentPuts
<1>7. VersionsTyped'
  BY <1>1, ServedRequest DEF VersionsTyped
<1> QED BY <1>1, <1>6, <1>7, ReplyKeeps, ServedRequest

LEMMA PutLifecycleKeeps ==
  ASSUME LibInv, NEW r \in LibraryRequests, PutLifecycle(r)
  PROVE  LibInv'
<1>1. /\ Served(libRequest[r]) /\ Replies(r)
      /\ libRequest[r].op \in {"archiveAgent", "unarchiveAgent"} /\ libRequest[r].at = "write"
      /\ UNCHANGED <<project, versionSkills, projectIndex, skillItems, libCutShort, libOverlap>>
  BY DEF PutLifecycle, Reached, Served
<1>2. PICK a \in LibraryAgents : a = libRequest[r].arg
  BY <1>1, ServedRequest DEF LibPlaced, AgentPuts
<1>3. PICK item : item = [libRequest[r].sawAgent EXCEPT
                             !.archived = (libRequest[r].op = "archiveAgent")]
  OBVIOUS
<1>4. registered' = [registered EXCEPT ![a] = item]
  BY <1>2, <1>3 DEF PutLifecycle
<1>5. /\ item \in RegisteredAgent
      /\ item.found = libRequest[r].sawAgent.found /\ item.skills = libRequest[r].sawAgent.skills
  <2>1. libRequest[r].sawAgent \in RegisteredAgent
    BY <1>1, ServedRequest DEF LibPlaced, AgentPuts
  <2>2. (libRequest[r].op = "archiveAgent") \in BOOLEAN
    OBVIOUS
  <2> QED BY <1>3, <2>1, <2>2 DEF RegisteredAgent
<1>6. /\ Tables(project, registered', projectIndex, skillItems)
      /\ ~libOverlap =>
            /\ References(project, registered', skillItems)
            /\ ~libCutShort => project.agent_ids = There(registered')
  BY <1>1, <1>2, <1>4, <1>5, PutBack DEF AgentPuts
<1>7. VersionsTyped'
  BY <1>1, ServedRequest DEF VersionsTyped
<1> QED BY <1>1, <1>6, <1>7, ReplyKeeps, ServedRequest

LEMMA HardDeleteAgentKeeps ==
  ASSUME LibInv, NEW r \in LibraryRequests, HardDeleteAgent(r)
  PROVE  LibInv'
<1>1. /\ Served(libRequest[r]) /\ Continues(r, "list")
      /\ libRequest[r].op = "deleteAgent" /\ libRequest[r].at = "write"
      /\ UNCHANGED <<project, projectIndex, skillItems, libCutShort, libOverlap>>
  BY DEF HardDeleteAgent, Reached, Served
<1>2. PICK a \in LibraryAgents : a = libRequest[r].arg
  BY <1>1, ServedRequest DEF LibPlaced
<1>3. /\ registered' = [registered EXCEPT ![a] = NotRegistered]
      /\ versionSkills' = [versionSkills EXCEPT ![a] = {}]
  BY <1>2 DEF HardDeleteAgent
<1>4. /\ registered' \in [LibraryAgents -> RegisteredAgent \cup {NotRegistered}]
      /\ registered'[a] = NotRegistered
      /\ \A b \in LibraryAgents \ {a} : registered'[b] = registered[b]
      /\ There(registered') = There(registered) \ {a}
  BY <1>3, RowBecomes
<1>5. PICK x \in LibHandler :
            /\ libRequest' = [libRequest EXCEPT ![r] = x]
            /\ x.at = "list" /\ x.op = libRequest[r].op /\ x.arg = libRequest[r].arg
            /\ x.saw = libRequest[r].saw /\ x.sawAgent = libRequest[r].sawAgent
  BY <1>1, RequestGoesOn DEF LibStates
<1>6. LibPlaced(x)
  BY <1>1, <1>5, ServedRequest DEF LibPlaced
<1>7. Tables(project, registered', projectIndex, skillItems) /\ VersionsTyped'
  BY <1>1, <1>3, <1>4, ServedRequest DEF Tables, VersionsTyped
<1>8. ASSUME ~libOverlap
      PROVE  /\ References(project, registered', skillItems)
             /\ LibHolds(x, project, registered', projectIndex)
             /\ ~libCutShort => project.agent_ids = ListedBy(x, registered')
  <2>1. References(project, registered, skillItems) /\ a \in There(registered)
    BY <1>1, <1>2, <1>8, ServedRequest DEF LibHolds, There
  <2>2. project # NoProject
    BY <2>1 DEF References
  <2>3. References(project, registered', skillItems)
    BY <1>4, <2>1 DEF References, There
  <2>4. LibHolds(x, project, registered', projectIndex)
    BY <1>1, <1>2, <1>4, <1>5, <2>2 DEF LibHolds
  <2>5. ListedBy(x, registered') = There(registered)
    BY <1>1, <1>2, <1>4, <1>5, <2>1 DEF ListedBy
  <2>6. ListedBy(libRequest[r], registered) = There(registered)
    BY <1>1 DEF ListedBy
  <2> QED BY <1>1, <1>8, <2>3, <2>4, <2>5, <2>6, ServedRequest
<1> QED BY <1>1, <1>5, <1>6, <1>7, <1>8, ServedRequest, LibStepKeeps

LEMMA PutAgentIdsKeeps ==
  ASSUME LibInv, NEW r \in LibraryRequests, PutAgentIds(r)
  PROVE  LibInv'
<1>1. /\ Served(libRequest[r]) /\ Replies(r)
      /\ libRequest[r].op \in {"createAgent", "deleteAgent"} /\ libRequest[r].at = "relist"
      /\ UNCHANGED <<registered, versionSkills, projectIndex, skillItems, libCutShort, libOverlap>>
  BY DEF PutAgentIds, Reached, Served
<1>2. PICK a \in LibraryAgents : a = libRequest[r].arg
  BY <1>1, ServedRequest DEF LibPlaced
<1>3. PICK saw \in ProjectItem : saw = libRequest[r].saw
  BY <1>1, ServedRequest DEF LibPlaced
<1>4. PICK ids : ids = IF libRequest[r].op = "createAgent" THEN saw.agent_ids \cup {a}
                       ELSE saw.agent_ids \ {a}
  OBVIOUS
<1>5. project' = IF ids = saw.agent_ids THEN project ELSE [saw EXCEPT !.agent_ids = ids]
  BY <1>2, <1>3, <1>4 DEF PutAgentIds
<1>6. [saw EXCEPT !.agent_ids = ids] \in ProjectItem
      /\ [saw EXCEPT !.agent_ids = ids].agent_ids = ids
  BY <1>3, <1>4 DEF ProjectItem
<1>7. Tables(project', registered, projectIndex, skillItems)
  BY <1>1, <1>5, <1>6, ServedRequest DEF Tables
<1>8. ASSUME ~libOverlap
      PROVE  /\ References(project', registered, skillItems)
             /\ ~libCutShort => project'.agent_ids = There(registered)
  <2>1. /\ saw = project
        /\ libRequest[r].op = "createAgent" => a \in There(registered)
        /\ libRequest[r].op = "deleteAgent" => a \notin There(registered)
    BY <1>1, <1>2, <1>3, <1>8, ServedRequest DEF LibHolds, There
  <2>2. project'.agent_ids = ids /\ project' # NoProject
    BY <1>3, <1>5, <1>6, <2>1, ItemsAreSomething
  <2>3. References(project', registered, skillItems)
    BY <1>1, <1>8, <2>2, ServedRequest DEF References
  <2>4. ~libCutShort => saw.agent_ids = ListedBy(libRequest[r], registered)
    BY <1>1, <1>8, <2>1, ServedRequest
  <2>5. ~libCutShort => ids = There(registered)
    BY <1>1, <1>2, <1>4, <2>1, <2>4 DEF ListedBy
  <2> QED BY <2>2, <2>3, <2>5
<1> QED BY <1>1, <1>7, <1>8, ServedRequest, VersionsKept, ReplyKeeps

\* The put of a skill, new or updated.
LEMMA SkillPutKeeps ==
  ASSUME LibInv, NEW r \in LibraryRequests, CreateSkill(r) \/ PutSkill(r)
  PROVE  LibInv'
<1>1. /\ Served(libRequest[r]) /\ Replies(r)
      /\ libRequest[r].op \in {"createSkill", "updateSkill"}
      /\ libRequest[r].at \in {"get", "put"}
      /\ skillItems' = skillItems \cup {libRequest[r].arg}
      /\ UNCHANGED <<project, registered, versionSkills, projectIndex, libCutShort, libOverlap>>
  BY DEF CreateSkill, PutSkill, Reached, Served
<1>2. Tables(project, registered, projectIndex, skillItems')
  BY <1>1, ServedRequest DEF Tables, LibPlaced
<1>3. ~libOverlap => References(project, registered, skillItems')
  BY <1>1, ServedRequest DEF References
<1>4. ListedBy(libRequest[r], registered) = There(registered)
  BY <1>1 DEF ListedBy
<1> QED BY <1>1, <1>2, <1>3, <1>4, ServedRequest, VersionsKept, ReplyKeeps

LEMMA GetSkillKeeps ==
  ASSUME LibInv, NEW r \in LibraryRequests, GetSkill(r) \/ GuardSkill(r)
  PROVE  LibInv'
<1>1. /\ Served(libRequest[r])
      /\ libRequest[r].op \in {"updateSkill", "deleteSkill"}
      /\ libRequest[r].at \in {"get", "guard"}
      /\ UNCHANGED <<project, registered, versionSkills, projectIndex, skillItems, libCutShort,
                     libOverlap>>
  BY DEF GetSkill, GuardSkill, Reached, Served
<1>2. CASE Replies(r)
  BY <1>1, <1>2, ReplyOnly
<1>3. ASSUME NEW state \in {"put", "guard", "delete"}, Continues(r, state),
             state = "delete" => \A a \in There(registered) :
                                    libRequest[r].arg \notin registered[a].skills
      PROVE  LibInv'
  <2>1. PICK x \in LibHandler :
            /\ libRequest' = [libRequest EXCEPT ![r] = x]
            /\ x.at = state /\ x.op = libRequest[r].op /\ x.arg = libRequest[r].arg
            /\ x.saw = libRequest[r].saw /\ x.sawAgent = libRequest[r].sawAgent
    BY <1>3, RequestGoesOn DEF LibStates
  <2>2. LibPlaced(x)
    BY <1>1, <2>1, ServedRequest DEF LibPlaced
  <2>3. LibHolds(x, project, registered, projectIndex)
    BY <1>1, <1>3, <2>1 DEF LibHolds
  <2>4. ListedBy(x, registered) = ListedBy(libRequest[r], registered)
    BY <1>1, <2>1 DEF ListedBy
  <2> QED BY <1>1, <2>1, <2>2, <2>3, <2>4, GoOnKeeps
<1>4. CASE GetSkill(r)
  BY <1>2, <1>3, <1>4 DEF GetSkill
<1>5. CASE GuardSkill(r)
  BY <1>2, <1>3, <1>5, AgentsThereAre DEF GuardSkill
<1> QED BY <1>4, <1>5

LEMMA DeleteSkillKeeps ==
  ASSUME LibInv, NEW r \in LibraryRequests, DeleteSkill(r)
  PROVE  LibInv'
<1>1. /\ Served(libRequest[r]) /\ Replies(r)
      /\ libRequest[r].op = "deleteSkill" /\ libRequest[r].at = "delete"
      /\ skillItems' = skillItems \ {libRequest[r].arg}
      /\ UNCHANGED <<project, registered, versionSkills, projectIndex, libCutShort, libOverlap>>
  BY DEF DeleteSkill, Reached, Served
<1>2. Tables(project, registered, projectIndex, skillItems')
  BY <1>1, ServedRequest DEF Tables
<1>3. ~libOverlap => References(project, registered, skillItems')
  BY <1>1, ServedRequest DEF References, LibHolds
<1>4. ListedBy(libRequest[r], registered) = There(registered)
  BY <1>1 DEF ListedBy
<1> QED BY <1>1, <1>2, <1>3, <1>4, ServedRequest, VersionsKept, ReplyKeeps

LEMMA LibNextKeeps == LibInv /\ [LibNext]_libVars => LibInv'
<1> SUFFICES ASSUME LibInv, [LibNext]_libVars PROVE LibInv'
  OBVIOUS
<1>1. CASE UNCHANGED libVars
  <2>1. LibTyped'
    BY <1>1 DEF libVars, LibInv, LibTyped, Tables, VersionsTyped, LibPlaced
  <2>2. LibAlone'
    BY <1>1 DEF libVars, LibInv, LibAlone, References, ListedBy, There, Served, LibHolds
  <2> QED BY <2>1, <2>2 DEF LibInv
<1>2. ASSUME NEW r \in LibraryRequests, LibraryCutShort(r) PROVE LibInv'
  <2>1. /\ Served(libRequest[r]) /\ Replies(r) /\ libCutShort' = TRUE
        /\ UNCHANGED <<project, registered, versionSkills, projectIndex, skillItems, libOverlap>>
    BY <1>2 DEF LibraryCutShort, LibBusy, Served
  <2> QED BY <2>1, ReplyOnly
<1>3. ASSUME NEW r \in LibraryRequests, LibraryStep(r) PROVE LibInv'
  BY <1>2, <1>3, CreateProjectKeeps, GetProjectKeeps, PutProjectKeeps, GuardProjectKeeps,
     DeleteProjectKeeps, RegisterAgentKeeps, GetProjectAgentKeeps, RefusesAgentKeeps,
     PutVersionKeeps, RollBackKeeps, PutLifecycleKeeps, HardDeleteAgentKeeps, PutAgentIdsKeeps,
     SkillPutKeeps, GetSkillKeeps, DeleteSkillKeeps
     DEF LibraryStep
<1>4. ASSUME NEW r \in LibraryRequests,
             \/ \E op \in {"createProject", "updateProject", "deleteProject"} : Call(r, op, "none")
             \/ \E op \in {"createAgent", "deleteAgent"} \cup AgentPuts,
                   a \in LibraryAgents : Call(r, op, a)
             \/ \E op \in {"createSkill", "updateSkill", "deleteSkill"},
                   s \in LibrarySkills : Call(r, op, s)
      PROVE  LibInv'
  BY <1>4, CallKeeps DEF LibraryOps, AgentPuts
<1> QED BY <1>1, <1>3, <1>4, IndexFollowsKeeps DEF LibNext, AgentPuts

LEMMA LibAlways == LibSpec => []LibInv
<1> QED BY LibInitially, LibNextKeeps, PTL DEF LibSpec

\* The three tables, the index and what the requests have read keep their types:
\* what is put back is an item that was read.
THEOREM LibTypeCorrect == LibSpec => []LibTypeOK
<1>1. LibInv => LibTypeOK
  BY DEF LibInv, LibTyped, Tables, VersionsTyped, LibTypeOK, LibHandler, LibStates
<1> QED BY <1>1, LibAlways, PTL

\* Requests one at a time never delete what is named: an agent's project, and a skill
\* that was there when the agent's current version was saved or rolled back to, stay,
\* wherever a request is cut short (projects.py, agents.py and skills.py), and the
\* project lists exactly its agents while none was.
THEOREM ReferencesAreKept == LibSpec => []ReferencesHold
<1>1. LibInv => ReferencesHold
  BY AgentsThereAre DEF LibInv, LibAlone, References, ReferencesHold, ProjectThere, LibQuiescent,
     LibBusy, Served
<1> QED BY <1>1, LibAlways, PTL

-----------------------------------------------------------------------------
(***************************************************************************)
(* BuildWithAI: a proposal is created once. The invariant splits it, while *)
(* one approval runs, into what was created, what is skipped and what is   *)
(* left, with the orchestrator always last.                                *)
(***************************************************************************)

(***************************************************************************)
(* Types                                                                   *)
(***************************************************************************)
BuildStates == {"idle", "creating", "putCompleted", "putFailed", "done"}

BuildRecord ==
    [at : BuildStates, left : Seq(Things), created : SUBSET Things, saw : Session \cup {NoSession}]

Creation == [thing : Things, by : Approvals, lists : SUBSET Things]

Approving(x) == x.at \in {"creating", "putCompleted", "putFailed"}

BuildPlaced(x) ==
    /\ Approving(x) => x.saw \in Session
    /\ x.at = "creating" => x.left # << >> /\ x.left[Len(x.left)] = Orchestrator

BuildTyped ==
    /\ session \in Session \cup {NoSession}
    /\ approval \in [Approvals -> BuildRecord]
    /\ \A a \in Approvals : BuildPlaced(approval[a])
    /\ made \subseteq Creation
    /\ approvalLost \in BOOLEAN /\ buildOverlap \in BOOLEAN

(***************************************************************************)
(* One approval at a time, whose outcome is recorded                       *)
(***************************************************************************)
ResourceNo(i) == [kind |-> "resource", n |-> i]

SubAgentNo(i) == [kind |-> "subAgent", n |-> i]

SubAgentsUpTo(k) == {SubAgentNo(i) : i \in 1 .. k}

ThingsOf(creations) == {m.thing : m \in creations}

OnceEach(creations) == \A m, n \in creations : m.thing = n.thing => m = n

\* Nothing of what is left was created.
Creating(x, creations) ==
    /\ x.created = ThingsOf(creations)
    /\ \A i, j \in 1 .. Len(x.left) : x.left[i] = x.left[j] => i = j
    /\ \A i \in 1 .. Len(x.left) : x.left[i] \notin x.created
    /\ \A s \in SubAgentsUpTo(x.saw.subAgents) :
          s \in x.created \/ \E i \in 1 .. Len(x.left) : s = x.left[i]
    /\ \A i \in 1 .. Len(x.left) :
          x.left[i] \in SubAgentsOf => x.left[i] \in SubAgentsUpTo(x.saw.subAgents)
    /\ x.created \cap SubAgentsOf \subseteq SubAgentsUpTo(x.saw.subAgents)

Complete(created, count, creations) ==
    /\ created = ThingsOf(creations) /\ Orchestrator \in created
    /\ created \cap SubAgentsOf = SubAgentsUpTo(count)
    /\ \A m \in creations : m.thing = Orchestrator => m.lists = created \cap SubAgentsOf

ApprovalHolds(x, item, creations) ==
    Approving(x) =>
        /\ item = x.saw /\ item.status = "proposed"
        /\ x.at = "creating" => Creating(x, creations)
        /\ x.at = "putCompleted" => Complete(x.created, x.saw.subAgents, creations)

BuildAlone ==
    ~buildOverlap /\ ~approvalLost =>
        /\ \A a, b \in Approvals : Approving(approval[a]) /\ Approving(approval[b]) => a = b
        /\ OnceEach(made)
        /\ \A a \in Approvals : ApprovalHolds(approval[a], session, made)
        /\ (\A a \in Approvals : ~Approving(approval[a])) =>
              /\ session.status \in {"none", "proposed"} => made = {}
              /\ session.status = "completed" =>
                    Complete(session.listed, session.subAgents, made)

BuildInv == BuildTyped /\ BuildAlone

-----------------------------------------------------------------------------
(* The plan of a proposal *)

LEMMA SessionIsSomething == \A item \in Session : item # NoSession /\ item.status # "none"
BY DEF Session, NoSession

LEMMA ThingsNumbered ==
  \A i : /\ ResourceNo(i).kind = "resource" /\ ResourceNo(i).n = i
         /\ SubAgentNo(i).kind = "subAgent" /\ SubAgentNo(i).n = i
BY DEF ResourceNo, SubAgentNo

LEMMA SubAgentsCounted ==
  ASSUME NEW k \in Nat
  PROVE  IsFiniteSet(SubAgentsUpTo(k)) /\ Cardinality(SubAgentsUpTo(k)) = k
<1> DEFINE nth == [i \in 1 .. k |-> SubAgentNo(i)]
<1>1. nth \in [1 .. k -> SubAgentsUpTo(k)]
  BY DEF SubAgentsUpTo
<1>2. \A i, j \in 1 .. k : nth[i] = nth[j] => i = j
  <2>1. \A i \in 1 .. k : nth[i].n = i
    BY ThingsNumbered
  <2> QED BY <2>1
<1>3. \A t \in SubAgentsUpTo(k) : \E i \in 1 .. k : nth[i] = t
  BY DEF SubAgentsUpTo
<1>4. nth \in Bijection(1 .. k, SubAgentsUpTo(k))
  BY <1>1, <1>2, <1>3, Fun_IsBij
<1>5. ExistsBijection(1 .. k, SubAgentsUpTo(k))
  BY <1>4 DEF ExistsBijection
<1> QED BY <1>5, FS_CountingElements, FS_NatBijection

LEMMA ThingKinds ==
  /\ \A t \in Missing : t.kind = "resource" /\ t \notin SubAgentsOf /\ t # Orchestrator
  /\ \A t \in SubAgentsOf : t.kind = "subAgent" /\ t # Orchestrator
  /\ Orchestrator.kind = "orchestrator" /\ Orchestrator \in Things
  /\ Orchestrator \notin SubAgentsOf
BY DEF Missing, SubAgentsOf, Orchestrator, Things

LEMMA UpToAreSubAgents ==
  ASSUME NEW k \in 0 .. MaxSubAgents
  PROVE  SubAgentsUpTo(k) \subseteq SubAgentsOf
BY BuildAssumption DEF SubAgentsUpTo, SubAgentNo, SubAgentsOf

\* The plan has each thing once, every sub-agent of the proposal and the
\* orchestrator at its end.
LEMMA PlanOfProposal ==
  ASSUME NEW item \in Session
  PROVE  /\ Plan(item) \in Seq(Things) /\ Plan(item) # << >>
         /\ \A i, j \in 1 .. Len(Plan(item)) : Plan(item)[i] = Plan(item)[j] => i = j
         /\ Plan(item)[Len(Plan(item))] = Orchestrator
         /\ \A s \in SubAgentsUpTo(item.subAgents) :
               \E i \in 1 .. Len(Plan(item)) : s = Plan(item)[i]
         /\ \A i \in 1 .. Len(Plan(item)) :
               Plan(item)[i] \in SubAgentsOf => Plan(item)[i] \in SubAgentsUpTo(item.subAgents)
<1>1. PICK m \in Nat, k \in Nat : m = item.missing /\ k = item.subAgents
                                  /\ m <= MaxMissing /\ k <= MaxSubAgents
  BY BuildAssumption DEF Session
<1>2. PICK resources : resources = [n \in 1 .. m |-> ResourceNo(n)]
  OBVIOUS
<1>3. PICK agents : agents = [n \in 1 .. k |-> SubAgentNo(n)]
  OBVIOUS
<1>4. PICK plan : plan = Plan(item)
  OBVIOUS
<1>5. plan = resources \o agents \o <<Orchestrator>>
  BY <1>1, <1>2, <1>3, <1>4 DEF Plan, ResourceNo, SubAgentNo
<1>6. /\ resources \in Seq(Things) /\ Len(resources) = m
       /\ \A i \in 1 .. m : resources[i] = ResourceNo(i)
  <2>1. \A i \in 1 .. m : ResourceNo(i) \in Things
    BY <1>1, BuildAssumption DEF Things, Missing, ResourceNo
  <2> QED BY <1>2, <2>1
<1>7. /\ agents \in Seq(Things) /\ Len(agents) = k
       /\ \A i \in 1 .. k : agents[i] = SubAgentNo(i)
  <2>1. \A i \in 1 .. k : SubAgentNo(i) \in Things
    BY <1>1, BuildAssumption DEF Things, SubAgentsOf, SubAgentNo
  <2> QED BY <1>3, <2>1
<1>8. PICK front : front = resources \o agents
  OBVIOUS
<1>9. /\ front \in Seq(Things) /\ Len(front) = m + k
      /\ \A i \in 1 .. m + k : front[i] = IF i <= m THEN resources[i] ELSE agents[i - m]
  BY <1>6, <1>7, <1>8, ConcatProperties
<1>10. /\ plan \in Seq(Things) /\ Len(plan) = m + k + 1 /\ plan[m + k + 1] = Orchestrator
      /\ \A i \in 1 .. m + k : plan[i] = front[i]
  <2>1. plan = front \o <<Orchestrator>>
    BY <1>5, <1>8
  <2>2. <<Orchestrator>> \in Seq(Things) /\ Len(<<Orchestrator>>) = 1
        /\ <<Orchestrator>>[1] = Orchestrator
    BY ThingKinds
  <2>3. /\ plan \in Seq(Things) /\ Len(plan) = m + k + 1
        /\ \A i \in 1 .. m + k + 1 :
              plan[i] = IF i <= m + k THEN front[i] ELSE <<Orchestrator>>[i - (m + k)]
    BY <1>9, <2>1, <2>2, ConcatProperties
  <2>4. m + k + 1 \in 1 .. m + k + 1 /\ (m + k + 1) - (m + k) = 1 /\ ~(m + k + 1 <= m + k)
    BY <1>1
  <2>5. \A i \in 1 .. m + k : i \in 1 .. m + k + 1 /\ i <= m + k
    BY <1>1
  <2> QED BY <2>2, <2>3, <2>4, <2>5
<1>11. /\ \A i \in 1 .. m : plan[i] = ResourceNo(i)
      /\ \A i \in m + 1 .. m + k : plan[i] = SubAgentNo(i - m)
  <2>1. \A i \in 1 .. m : i \in 1 .. m + k /\ i <= m
    BY <1>1
  <2>2. \A i \in m + 1 .. m + k : i \in 1 .. m + k /\ ~(i <= m) /\ i - m \in 1 .. k
    BY <1>1
  <2> QED BY <1>6, <1>7, <1>9, <1>10, <2>1, <2>2
<1>12. /\ \A i \in 1 .. m : plan[i].kind = "resource" /\ plan[i].n = i
       /\ \A i \in m + 1 .. m + k : plan[i].kind = "subAgent" /\ plan[i].n = i - m
       /\ plan[m + k + 1].kind = "orchestrator"
  <2>1. \A i \in 1 .. m : plan[i].kind = "resource" /\ plan[i].n = i
    BY <1>11, ThingsNumbered
  <2>2. \A i \in m + 1 .. m + k : plan[i].kind = "subAgent" /\ plan[i].n = i - m
    BY <1>11, ThingsNumbered
  <2> QED BY <1>10, <2>1, <2>2, ThingKinds
<1>13. \A i \in 1 .. Len(plan) : i \in 1 .. m \/ i \in m + 1 .. m + k \/ i = m + k + 1
  BY <1>1, <1>10
<1>14. ASSUME NEW i \in 1 .. Len(plan), NEW j \in 1 .. Len(plan), plan[i] = plan[j]
       PROVE  i = j
  <2>1. CASE i \in 1 .. m
    BY <1>12, <1>13, <1>14, <2>1
  <2>2. CASE i \in m + 1 .. m + k
    <3>1. j \in m + 1 .. m + k
      BY <1>12, <1>13, <1>14, <2>2
    <3>2. i - m = j - m
      BY <1>12, <1>14, <2>2, <3>1
    <3> QED BY <1>1, <2>2, <3>1, <3>2
  <2>3. CASE i = m + k + 1
    BY <1>12, <1>13, <1>14, <2>3
  <2> QED BY <1>13, <2>1, <2>2, <2>3
<1>15. ASSUME NEW i \in 1 .. Len(plan), plan[i] \in SubAgentsOf
       PROVE  plan[i] \in SubAgentsUpTo(k)
  <2>1. i \in m + 1 .. m + k
    BY <1>12, <1>13, <1>15, ThingKinds
  <2>2. i - m \in 1 .. k
    BY <1>1, <2>1
  <2> QED BY <1>11, <2>1, <2>2 DEF SubAgentsUpTo
<1>16. ASSUME NEW s \in SubAgentsUpTo(k)
       PROVE  \E i \in 1 .. Len(plan) : s = plan[i]
  <2>1. PICK n \in 1 .. k : s = SubAgentNo(n)
    BY DEF SubAgentsUpTo
  <2>2. m + n \in m + 1 .. m + k /\ m + n \in 1 .. Len(plan) /\ (m + n) - m = n
    BY <1>1, <1>10
  <2>3. plan[m + n] = SubAgentNo(n)
    BY <1>11, <2>2
  <2> QED BY <2>1, <2>2, <2>3
<1>17. plan # << >> /\ plan[Len(plan)] = Orchestrator
  BY <1>1, <1>10
<1> QED BY <1>1, <1>4, <1>10, <1>14, <1>15, <1>16, <1>17

-----------------------------------------------------------------------------
(* The frame of a step *)

LEMMA BuildStepKeeps ==
  ASSUME BuildInv, NEW a \in Approvals, NEW x \in BuildRecord,
         approval' = [approval EXCEPT ![a] = x], BuildPlaced(x),
         session' \in Session \cup {NoSession}, made' \subseteq Creation,
         approvalLost' \in BOOLEAN, UNCHANGED buildOverlap,
         ~buildOverlap /\ ~approvalLost' =>
            /\ \A b \in Approvals \ {a} : ~Approving(approval[b])
            /\ OnceEach(made')
            /\ ApprovalHolds(x, session', made')
            /\ ~Approving(x) =>
                  /\ session'.status \in {"none", "proposed"} => made' = {}
                  /\ session'.status = "completed" =>
                        Complete(session'.listed, session'.subAgents, made')
  PROVE  BuildInv'
<1>1. /\ approval' \in [Approvals -> BuildRecord] /\ approval'[a] = x
      /\ \A b \in Approvals \ {a} : approval'[b] = approval[b]
  BY DEF BuildInv, BuildTyped
<1>2. (\A b \in Approvals : BuildPlaced(approval[b]))'
  <2>1. \A b \in Approvals : BuildPlaced(approval'[b])
    BY <1>1 DEF BuildInv, BuildTyped
  <2> QED BY <2>1 DEF BuildPlaced, Approving
<1>3. BuildTyped'
  BY <1>1, <1>2 DEF BuildInv, BuildTyped
<1>4. BuildAlone'
  <2>1. CASE buildOverlap \/ approvalLost'
    BY <2>1 DEF BuildAlone
  <2>2. CASE ~buildOverlap /\ ~approvalLost'
    <3>1. \A b \in Approvals \ {a} : ~Approving(approval'[b])
      BY <1>1, <2>2
    <3>2. \A b, c \in Approvals : Approving(approval'[b]) /\ Approving(approval'[c]) => b = c
      BY <3>1
    <3>3. \A b \in Approvals : ApprovalHolds(approval'[b], session', made')
      BY <1>1, <2>2, <3>1 DEF ApprovalHolds
    <3>4. (\A b \in Approvals : ~Approving(approval'[b])) =>
             /\ session'.status \in {"none", "proposed"} => made' = {}
             /\ session'.status = "completed" =>
                   Complete(session'.listed, session'.subAgents, made')
      BY <1>1, <2>2
    <3>5. OnceEach(made')
      BY <2>2
    <3>6. (\A b \in Approvals : ApprovalHolds(approval[b], session, made))'
      BY <3>3 DEF ApprovalHolds, Approving, Creating, Complete, ThingsOf
    <3>7. OnceEach(made)'
      BY <3>5 DEF OnceEach
    <3>8. (\A b, c \in Approvals : Approving(approval[b]) /\ Approving(approval[c]) => b = c)'
      BY <3>2 DEF Approving
    <3>9. ((\A b \in Approvals : ~Approving(approval[b])) =>
              /\ session.status \in {"none", "proposed"} => made = {}
              /\ session.status = "completed" =>
                    Complete(session.listed, session.subAgents, made))'
      BY <3>4 DEF Approving, Complete, ThingsOf
    <3> QED BY <3>6, <3>7, <3>8, <3>9 DEF BuildAlone
  <2> QED BY <2>1, <2>2
<1> QED BY <1>3, <1>4 DEF BuildInv

LEMMA ApprovingOne ==
  ASSUME BuildInv, NEW a \in Approvals, Approving(approval[a])
  PROVE  /\ approval[a] \in BuildRecord /\ BuildPlaced(approval[a])
         /\ session \in Session \cup {NoSession} /\ made \subseteq Creation
         /\ approvalLost \in BOOLEAN
         /\ ~buildOverlap /\ ~approvalLost =>
               /\ \A b \in Approvals \ {a} : ~Approving(approval[b])
               /\ OnceEach(made)
               /\ ApprovalHolds(approval[a], session, made)
BY DEF BuildInv, BuildTyped, BuildAlone

LEMMA DoneApproval ==
  LET x == [IdleApproval EXCEPT !.at = "done"] IN
  x \in BuildRecord /\ BuildPlaced(x) /\ ~Approving(x)
<1>1. PICK x : x = [IdleApproval EXCEPT !.at = "done"]
  OBVIOUS
<1>2. x \in BuildRecord /\ x.at = "done"
  <2>1. IdleApproval \in BuildRecord
    BY DEF IdleApproval, BuildRecord, BuildStates
  <2> QED BY <1>1, <2>1 DEF BuildRecord, BuildStates
<1>3. BuildPlaced(x) /\ ~Approving(x)
  BY <1>2 DEF BuildPlaced, Approving
<1> QED BY <1>1, <1>2, <1>3

-----------------------------------------------------------------------------
(* The steps *)

LEMMA BuildInitially == BuildInit => BuildInv
<1> SUFFICES ASSUME BuildInit PROVE BuildInv
  OBVIOUS
<1>1. IdleApproval \in BuildRecord /\ IdleApproval.at = "idle"
  BY DEF IdleApproval, BuildRecord, BuildStates
<1>2. BuildPlaced(IdleApproval) /\ ~Approving(IdleApproval)
  BY <1>1 DEF BuildPlaced, Approving
<1>3. \A a \in Approvals : approval[a] = IdleApproval
  BY DEF BuildInit
<1>4. BuildTyped
  BY <1>1, <1>2, <1>3 DEF BuildInit, BuildTyped
<1>5. session.status = "none"
  BY DEF BuildInit, NoSession
<1>6. BuildAlone
  BY <1>2, <1>3, <1>5 DEF BuildInit, BuildAlone, ApprovalHolds, OnceEach
<1> QED BY <1>4, <1>6 DEF BuildInv

LEMMA ProposeKeeps ==
  ASSUME BuildInv, ProposeBuild
  PROVE  BuildInv'
<1>1. session = NoSession /\ UNCHANGED <<approval, made, approvalLost, buildOverlap>>
  BY DEF ProposeBuild
<1>2. session' \in Session /\ session'.status = "proposed"
  BY DEF ProposeBuild, Session
<1>3. BuildTyped'
  BY <1>1, <1>2 DEF BuildInv, BuildTyped, BuildPlaced, Approving
<1>4. CASE buildOverlap \/ approvalLost
  BY <1>1, <1>3, <1>4 DEF BuildInv, BuildAlone
<1>5. CASE ~buildOverlap /\ ~approvalLost
  <2>1. \A a \in Approvals : ~Approving(approval[a])
    BY <1>1, <1>5, SessionIsSomething
       DEF BuildInv, BuildTyped, BuildAlone, BuildPlaced, ApprovalHolds
  <2>2. made = {} /\ OnceEach(made)
    BY <1>1, <1>5, <2>1 DEF BuildInv, BuildAlone, NoSession
  <2>3. BuildAlone'
    BY <1>1, <1>2, <2>1, <2>2 DEF BuildAlone, ApprovalHolds, Approving, OnceEach
  <2> QED BY <1>3, <2>3 DEF BuildInv
<1> QED BY <1>4, <1>5

LEMMA ReadSessionKeeps ==
  ASSUME BuildInv, NEW a \in Approvals, ReadSession(a)
  PROVE  BuildInv'
<1>1. /\ approval[a].at = "idle" /\ session # NoSession
      /\ UNCHANGED <<session, made, approvalLost, buildOverlap>>
      /\ session \in Session /\ made \subseteq Creation /\ approvalLost \in BOOLEAN
  BY DEF ReadSession, BuildInv, BuildTyped
<1>2. ~buildOverlap => \A b \in Approvals : ~Approving(approval[b])
  BY DEF ReadSession, Approving
<1>3. ~buildOverlap /\ ~approvalLost =>
         /\ OnceEach(made)
         /\ session.status = "proposed" => made = {}
         /\ session.status = "completed" =>
               Complete(session.listed, session.subAgents, made)
  BY <1>2 DEF BuildInv, BuildAlone
<1>4. CASE session.status # "proposed"
  <2>1. PICK x : x = [IdleApproval EXCEPT !.at = "done"]
    OBVIOUS
  <2>2. x \in BuildRecord /\ BuildPlaced(x) /\ ~Approving(x)
    BY <2>1, DoneApproval
  <2>3. approval' = [approval EXCEPT ![a] = x]
    BY <1>4, <2>1 DEF ReadSession
  <2>4. session.status # "none"
    BY <1>1, SessionIsSomething
  <2>5. ApprovalHolds(x, session, made)
    BY <2>2 DEF ApprovalHolds
  <2> QED BY <1>1, <1>2, <1>3, <1>4, <2>2, <2>3, <2>4, <2>5, BuildStepKeeps
<1>5. CASE session.status = "proposed"
  <2>1. PICK plan : plan = Plan(session)
    OBVIOUS
  <2>2. PICK x : x = [at |-> "creating", left |-> plan, created |-> {}, saw |-> session]
    OBVIOUS
  <2>3. approval' = [approval EXCEPT ![a] = x]
    BY <1>5, <2>1, <2>2 DEF ReadSession
  <2>4. plan \in Seq(Things) /\ plan # << >> /\ plan[Len(plan)] = Orchestrator
    BY <1>1, <2>1, PlanOfProposal
  <2>5. /\ x \in BuildRecord /\ x.at = "creating" /\ x.left = plan /\ x.created = {}
        /\ x.saw = session
    BY <1>1, <2>2, <2>4 DEF BuildRecord, BuildStates
  <2>6. BuildPlaced(x) /\ Approving(x)
    BY <1>1, <2>4, <2>5 DEF BuildPlaced, Approving
  <2>7. made = {} => Creating(x, made)
    <3>1. made = {} => ThingsOf(made) = {}
      BY DEF ThingsOf
    <3>2. /\ \A i, j \in 1 .. Len(plan) : plan[i] = plan[j] => i = j
          /\ \A s \in SubAgentsUpTo(session.subAgents) :
                \E i \in 1 .. Len(plan) : s = plan[i]
          /\ \A i \in 1 .. Len(plan) :
                plan[i] \in SubAgentsOf => plan[i] \in SubAgentsUpTo(session.subAgents)
      BY <1>1, <2>1, PlanOfProposal
    <3> QED BY <2>5, <3>1, <3>2 DEF Creating
  <2>8. ~buildOverlap /\ ~approvalLost => ApprovalHolds(x, session, made)
    BY <1>3, <1>5, <2>5, <2>7 DEF ApprovalHolds
  <2> QED BY <1>1, <1>2, <1>3, <2>3, <2>5, <2>6, <2>8, BuildStepKeeps
<1> QED BY <1>4, <1>5

\* What is left after a thing of the plan.
LEMMA RestOfPlan ==
  ASSUME NEW left \in Seq(Things), left # << >>, left[Len(left)] = Orchestrator,
         NEW rest, rest = Tail(left)
  PROVE  /\ rest \in Seq(Things) /\ Len(rest) \in Nat /\ Len(left) = Len(rest) + 1
         /\ Head(left) = left[1] /\ Head(left) \in Things
         /\ \A i \in 1 .. Len(rest) : rest[i] = left[i + 1]
         /\ rest # << >> => Len(rest) \in 1 .. Len(rest) /\ rest[Len(rest)] = Orchestrator
         /\ rest = << >> => Len(rest) = 0 /\ Head(left) = Orchestrator
<1>1. rest \in Seq(Things) /\ Len(rest) = Len(left) - 1
  BY HeadTailProperties
<1>2. PICK len \in Nat : len = Len(rest)
  <2>1. Len(rest) \in Nat
    BY <1>1
  <2> QED BY <2>1
<1>3. Head(left) = left[1] /\ Head(left) \in Things
  BY HeadTailProperties
<1>4. \A i \in 1 .. len : rest[i] = left[i + 1]
  BY <1>2, HeadTailProperties
<1>5. Len(left) = len + 1
  BY <1>1, <1>2
<1>6. rest = << >> <=> len = 0
  BY <1>1, <1>2, EmptySeq
<1>7. rest # << >> => len \in 1 .. len /\ rest[len] = Orchestrator
  <2>1. rest # << >> => len \in 1 .. len
    BY <1>6
  <2> QED BY <1>4, <1>5, <2>1
<1>8. rest = << >> => len = 0 /\ Head(left) = Orchestrator
  BY <1>3, <1>5, <1>6
<1> QED BY <1>1, <1>2, <1>3, <1>4, <1>5, <1>7, <1>8

\* A thing of the plan is behind it, created or skipped, and others are left.
LEMMA StillCreating ==
  ASSUME NEW old \in BuildRecord, NEW creations, Creating(old, creations), old.saw \in Session,
         old.left # << >>, old.left[Len(old.left)] = Orchestrator,
         NEW x \in BuildRecord, x.left = Tail(old.left), x.left # << >>, x.saw = old.saw,
         NEW thing, thing = Head(old.left),
         \/ x.created = old.created \cup {thing}
         \/ x.created = old.created /\ thing \notin SubAgentsOf,
         NEW after, x.created = ThingsOf(after)
  PROVE  Creating(x, after)
<1>1. PICK left, rest : left \in Seq(Things) /\ left = old.left /\ rest = Tail(left)
  BY DEF BuildRecord
<1>2. PICK created, more : created = old.created /\ more = x.created
  OBVIOUS
<1>3. PICK agents : agents = SubAgentsUpTo(old.saw.subAgents)
  OBVIOUS
<1>4. PICK len : len = Len(rest)
  OBVIOUS
<1>5. /\ len \in Nat /\ Len(left) = len + 1 /\ thing = left[1]
      /\ \A i \in 1 .. len : rest[i] = left[i + 1]
  BY <1>1, <1>4, RestOfPlan
<1>6. x.left = rest /\ Len(x.left) = len /\ SubAgentsUpTo(x.saw.subAgents) = agents
  BY <1>1, <1>3, <1>4
<1>7. \/ more = created \cup {thing}
      \/ more = created /\ thing \notin SubAgentsOf
  BY <1>2
<1>8. /\ \A i, j \in 1 .. len + 1 : left[i] = left[j] => i = j
      /\ \A i \in 1 .. len + 1 : left[i] \notin created
      /\ \A s \in agents : s \in created \/ \E i \in 1 .. len + 1 : s = left[i]
      /\ \A i \in 1 .. len + 1 : left[i] \in SubAgentsOf => left[i] \in agents
      /\ created \cap SubAgentsOf \subseteq agents
  BY <1>1, <1>2, <1>3, <1>5 DEF Creating
<1>9. /\ 1 \in 1 .. len + 1
      /\ \A i \in 1 .. len : i + 1 \in 1 .. len + 1 /\ i + 1 # 1
      /\ \A i \in 1 .. len + 1 : i # 1 => i - 1 \in 1 .. len /\ (i - 1) + 1 = i
  <2>1. len \in Nat
    BY <1>5
  <2>2. 1 \in 1 .. len + 1
    BY <2>1
  <2>3. \A i \in 1 .. len : i + 1 \in 1 .. len + 1 /\ i + 1 # 1
    BY <2>1
  <2>4. \A i \in 1 .. len + 1 : i # 1 => i - 1 \in 1 .. len /\ (i - 1) + 1 = i
    BY <2>1
  <2> QED BY <2>2, <2>3, <2>4
<1>10. ASSUME NEW i \in 1 .. len, NEW j \in 1 .. len, rest[i] = rest[j] PROVE i = j
  <2>1. left[i + 1] = left[j + 1]
    BY <1>5, <1>10
  <2>2. i + 1 = j + 1
    BY <1>8, <1>9, <2>1
  <2> QED BY <1>5, <2>2
<1>11. ASSUME NEW i \in 1 .. len PROVE rest[i] \notin more
  <2>1. left[i + 1] \notin created /\ left[i + 1] # left[1]
    BY <1>8, <1>9
  <2> QED BY <1>5, <1>7, <2>1
<1>12. ASSUME NEW s \in agents, s \notin more PROVE \E i \in 1 .. len : s = rest[i]
  <2>1. PICK i \in 1 .. len + 1 : s = left[i]
    BY <1>7, <1>8, <1>12
  <2>2. i # 1
    <3>1. CASE more = created \cup {thing}
      BY <1>5, <1>12, <2>1, <3>1
    <3>2. CASE thing \notin SubAgentsOf
      <4>1. s \in SubAgentsOf
        <5>1. old.saw.subAgents \in 0 .. MaxSubAgents
          BY DEF Session
        <5> QED BY <1>3, <5>1, UpToAreSubAgents
      <4> QED BY <1>5, <2>1, <3>2, <4>1
    <3> QED BY <1>7, <3>1, <3>2
  <2>3. i - 1 \in 1 .. len /\ (i - 1) + 1 = i
    BY <1>9, <2>2
  <2> QED BY <1>5, <2>1, <2>3
<1>13. \A i \in 1 .. len : rest[i] \in SubAgentsOf => rest[i] \in agents
  BY <1>5, <1>8, <1>9
<1>14. more \cap SubAgentsOf \subseteq agents
  BY <1>5, <1>7, <1>8, <1>9
<1>15. /\ \A i, j \in 1 .. Len(x.left) : x.left[i] = x.left[j] => i = j
       /\ \A i \in 1 .. Len(x.left) : x.left[i] \notin x.created
  BY <1>2, <1>6, <1>10, <1>11
<1>16. /\ \A s \in SubAgentsUpTo(x.saw.subAgents) :
            s \in x.created \/ \E i \in 1 .. Len(x.left) : s = x.left[i]
       /\ \A i \in 1 .. Len(x.left) :
            x.left[i] \in SubAgentsOf => x.left[i] \in SubAgentsUpTo(x.saw.subAgents)
       /\ x.created \cap SubAgentsOf \subseteq SubAgentsUpTo(x.saw.subAgents)
  BY <1>2, <1>6, <1>12, <1>13, <1>14
<1> QED BY <1>15, <1>16 DEF Creating

\* The next thing of the plan is created, under an id nothing has.
LEMMA CreatedKeeps ==
  ASSUME BuildInv, NEW a \in Approvals, approval[a].at = "creating",
         NEW thing, NEW rest, thing = Head(approval[a].left), rest = Tail(approval[a].left),
         NEW new \in Creation, new.thing = thing,
         thing = Orchestrator => new.lists = approval[a].created \cap SubAgentsOf,
         made' = made \cup {new}, UNCHANGED <<session, approvalLost, buildOverlap>>,
         NEW x \in BuildRecord, approval' = [approval EXCEPT ![a] = x],
         x.left = rest, x.created = approval[a].created \cup {thing}, x.saw = approval[a].saw,
         x.at = IF rest = << >> THEN "putCompleted" ELSE "creating"
  PROVE  BuildInv'
<1>1. /\ Approving(approval[a]) /\ approval[a].left \in Seq(Things) /\ approval[a].left # << >>
      /\ approval[a].left[Len(approval[a].left)] = Orchestrator
      /\ approval[a] \in BuildRecord /\ approval[a].saw \in Session
  BY ApprovingOne DEF Approving, BuildRecord, BuildPlaced, BuildInv, BuildTyped
<1>2. PICK left \in Seq(Things) : left = approval[a].left
  BY <1>1
<1>3. PICK created \in SUBSET Things : created = approval[a].created
  BY <1>1 DEF BuildRecord
<1>4. PICK len : len = Len(rest)
  OBVIOUS
<1>5. /\ thing \in Things /\ Len(left) = len + 1 /\ thing = left[1] /\ len \in Nat
      /\ rest # << >> => rest[Len(rest)] = Orchestrator
      /\ rest = << >> => len = 0 /\ thing = Orchestrator
  BY <1>1, <1>2, <1>4, RestOfPlan
<1>6. /\ x \in BuildRecord /\ x.left = rest /\ x.created = created \cup {thing}
      /\ x.saw = approval[a].saw
      /\ x.at = IF rest = << >> THEN "putCompleted" ELSE "creating"
  BY <1>3
<1>7. BuildPlaced(x) /\ Approving(x)
  BY <1>1, <1>5, <1>6 DEF BuildPlaced, Approving
<1>8. made' \subseteq Creation
  BY <1>1, ApprovingOne
<1>9. ASSUME ~buildOverlap, ~approvalLost
       PROVE  OnceEach(made') /\ ApprovalHolds(x, session, made')
  <2>1. PICK count \in 0 .. MaxSubAgents : count = approval[a].saw.subAgents
    BY <1>1 DEF Session
  <2>2. /\ OnceEach(made) /\ Creating(approval[a], made)
        /\ session = approval[a].saw /\ session.status = "proposed"
    BY <1>1, <1>9, ApprovingOne DEF ApprovalHolds
  <2>3. /\ created = ThingsOf(made)
        /\ \A i \in 1 .. len + 1 : left[i] \notin created
        /\ \A s \in SubAgentsUpTo(count) : s \in created \/ \E i \in 1 .. len + 1 : s = left[i]
        /\ created \cap SubAgentsOf \subseteq SubAgentsUpTo(count)
    BY <1>2, <1>3, <1>5, <2>1, <2>2 DEF Creating
  <2>4. thing \notin created
    <3>1. 1 \in 1 .. len + 1
      BY <1>5
    <3> QED BY <1>5, <2>3, <3>1
  <2>5. OnceEach(made')
    BY <2>2, <2>3, <2>4 DEF OnceEach, ThingsOf
  <2>6. ThingsOf(made') = created \cup {thing}
    BY <2>3 DEF ThingsOf
  <2>7. CASE rest # << >>
    <3>1. Creating(x, made')
      BY <1>1, <1>3, <1>6, <2>2, <2>6, <2>7, StillCreating
    <3> QED BY <1>6, <2>2, <2>5, <2>7, <3>1 DEF ApprovalHolds
  <2>8. CASE rest = << >>
    <3>1. len = 0 /\ thing = Orchestrator
      BY <1>5, <2>8
    <3>2. \A s \in SubAgentsUpTo(count) : s \in created
      <4>1. SubAgentsUpTo(count) \subseteq SubAgentsOf
        BY <2>1, UpToAreSubAgents
      <4>2. \A i \in 1 .. len + 1 : i = 1
        BY <3>1
      <4>3. \A i \in 1 .. len + 1 : left[i] = Orchestrator
        BY <1>5, <3>1, <4>2
      <4>4. \A s \in SubAgentsUpTo(count) : s # Orchestrator
        BY <4>1, ThingKinds
      <4> QED BY <2>3, <4>3, <4>4
    <3>3. (created \cup {thing}) \cap SubAgentsOf = SubAgentsUpTo(count)
      <4>1. SubAgentsUpTo(count) \subseteq SubAgentsOf
        BY <2>1, UpToAreSubAgents
      <4> QED BY <2>3, <3>1, <3>2, <4>1, ThingKinds
    <3>4. \A m \in made' :
             m.thing = Orchestrator => m.lists = (created \cup {thing}) \cap SubAgentsOf
      <4>1. \A m \in made : m.thing # Orchestrator
        BY <2>3, <2>4, <3>1 DEF ThingsOf
      <4>2. new.lists = (created \cup {thing}) \cap SubAgentsOf
        BY <1>3, <3>1, ThingKinds
      <4> QED BY <4>1, <4>2
    <3>5. Complete(x.created, x.saw.subAgents, made')
      BY <1>6, <2>1, <2>6, <3>1, <3>3, <3>4 DEF Complete
    <3> QED BY <1>6, <2>2, <2>5, <2>8, <3>5 DEF ApprovalHolds
  <2> QED BY <2>7, <2>8
<1> QED BY <1>1, <1>6, <1>7, <1>8, <1>9, ApprovingOne, BuildStepKeeps

\* A resource the request asks to skip.
LEMMA SkippedKeeps ==
  ASSUME BuildInv, NEW a \in Approvals, approval[a].at = "creating",
         Head(approval[a].left) \in Missing,
         UNCHANGED <<session, made, approvalLost, buildOverlap>>,
         NEW x \in BuildRecord, approval' = [approval EXCEPT ![a] = x],
         x.left = Tail(approval[a].left), x.created = approval[a].created,
         x.saw = approval[a].saw, x.at = "creating"
  PROVE  BuildInv'
<1>1. /\ Approving(approval[a]) /\ approval[a].left \in Seq(Things) /\ approval[a].left # << >>
      /\ approval[a].left[Len(approval[a].left)] = Orchestrator
      /\ approval[a] \in BuildRecord /\ approval[a].saw \in Session
      /\ made \subseteq Creation /\ session \in Session \cup {NoSession}
  BY ApprovingOne DEF Approving, BuildRecord, BuildPlaced, BuildInv, BuildTyped
<1>2. Head(approval[a].left) # Orchestrator /\ Head(approval[a].left) \notin SubAgentsOf
  BY ThingKinds
<1>3. x.left # << >> /\ x.left[Len(x.left)] = Orchestrator
  BY <1>1, <1>2, RestOfPlan
<1>4. BuildPlaced(x) /\ Approving(x)
  BY <1>1, <1>3 DEF BuildPlaced, Approving
<1>5. ASSUME ~buildOverlap, ~approvalLost
      PROVE  OnceEach(made) /\ ApprovalHolds(x, session, made)
  <2>1. /\ OnceEach(made) /\ Creating(approval[a], made)
        /\ session = approval[a].saw /\ session.status = "proposed"
    BY <1>1, <1>5, ApprovingOne DEF ApprovalHolds
  <2>2. x.created = ThingsOf(made)
    BY <2>1 DEF Creating
  <2>3. Creating(x, made)
    BY <1>1, <1>2, <1>3, <2>1, <2>2, StillCreating
  <2> QED BY <2>1, <2>3 DEF ApprovalHolds
<1> QED BY <1>1, <1>4, <1>5, ApprovingOne, BuildStepKeeps

\* A store that raises: what was being created may exist.
LEMMA CreateFailedKeeps ==
  ASSUME BuildInv, NEW a \in Approvals, approval[a].at = "creating",
         NEW new \in Creation, new.thing = Head(approval[a].left),
         made' \in {made, made \cup {new}}, UNCHANGED <<session, approvalLost, buildOverlap>>,
         NEW x \in BuildRecord, approval' = [approval EXCEPT ![a] = x],
         x.saw = approval[a].saw, x.at = "putFailed"
  PROVE  BuildInv'
<1>1. /\ Approving(approval[a]) /\ approval[a].left \in Seq(Things) /\ approval[a].left # << >>
      /\ approval[a].left[Len(approval[a].left)] = Orchestrator
      /\ approval[a] \in BuildRecord /\ approval[a].saw \in Session
      /\ made \subseteq Creation /\ session \in Session \cup {NoSession}
  BY ApprovingOne DEF Approving, BuildRecord, BuildPlaced, BuildInv, BuildTyped
<1>2. made' \subseteq Creation
  BY <1>1
<1>3. BuildPlaced(x) /\ Approving(x)
  BY <1>1 DEF BuildPlaced, Approving
<1>4. ASSUME ~buildOverlap, ~approvalLost
      PROVE  OnceEach(made') /\ ApprovalHolds(x, session, made')
  <2>1. PICK left, thing : left = approval[a].left /\ thing = Head(left)
    OBVIOUS
  <2>2. /\ OnceEach(made) /\ Creating(approval[a], made)
        /\ session = approval[a].saw /\ session.status = "proposed"
    BY <1>1, <1>4, ApprovingOne DEF ApprovalHolds
  <2>3. thing \notin ThingsOf(made)
    <3>1. Len(left) \in Nat /\ 1 \in 1 .. Len(left) /\ thing = left[1]
      BY <1>1, <2>1, RestOfPlan
    <3> QED BY <2>1, <2>2, <3>1 DEF Creating
  <2>4. OnceEach(made')
    BY <2>1, <2>2, <2>3 DEF OnceEach, ThingsOf
  <2> QED BY <2>2, <2>4 DEF ApprovalHolds
<1> QED BY <1>1, <1>2, <1>3, <1>4, ApprovingOne, BuildStepKeeps

LEMMA CreateNextKeeps ==
  ASSUME BuildInv, NEW a \in Approvals, CreateNext(a)
  PROVE  BuildInv'
<1>1. PICK thing, rest : thing = Head(approval[a].left) /\ rest = Tail(approval[a].left)
  OBVIOUS
<1>2. PICK lists : lists = IF thing = Orchestrator THEN approval[a].created \cap SubAgentsOf
                           ELSE {}
  OBVIOUS
<1>3. PICK new : new = [thing |-> thing, by |-> a, lists |-> lists]
  OBVIOUS
<1>4. PICK old : old = approval[a]
  OBVIOUS
<1>5. /\ approval[a].at = "creating" /\ UNCHANGED <<session, approvalLost, buildOverlap>>
      /\ \/ /\ made' = made \cup {new}
            /\ approval' = [approval EXCEPT ![a] =
                  [old EXCEPT !.left = rest, !.created = @ \cup {thing},
                              !.at = IF rest = << >> THEN "putCompleted" ELSE "creating"]]
         \/ /\ thing \in Missing
            /\ approval' = [approval EXCEPT ![a] = [old EXCEPT !.left = rest]]
            /\ UNCHANGED made
         \/ /\ approval' = [approval EXCEPT ![a] = [old EXCEPT !.at = "putFailed"]]
            /\ made' \in {made, made \cup {new}}
  <2>1. new = [thing |-> Head(approval[a].left), by |-> a,
               lists |-> IF Head(approval[a].left) = Orchestrator
                         THEN approval[a].created \cap SubAgentsOf ELSE {}]
    BY <1>1, <1>2, <1>3
  <2>2. /\ approval[a].at = "creating" /\ UNCHANGED <<session, approvalLost, buildOverlap>>
        /\ \/ /\ made' = made \cup {new}
              /\ approval' = [approval EXCEPT
                    ![a].left = rest, ![a].created = @ \cup {thing},
                    ![a].at = IF rest = << >> THEN "putCompleted" ELSE "creating"]
           \/ /\ thing \in Missing
              /\ approval' = [approval EXCEPT ![a].left = rest]
              /\ UNCHANGED made
           \/ /\ approval' = [approval EXCEPT ![a].at = "putFailed"]
              /\ made' \in {made, made \cup {new}}
    BY <1>1, <2>1 DEF CreateNext
  <2> QED BY <1>1, <1>4, <2>2
<1>6. /\ old \in BuildRecord /\ old.left \in Seq(Things) /\ old.left # << >>
      /\ old.left[Len(old.left)] = Orchestrator /\ old.created \subseteq Things
  BY <1>4, <1>5, ApprovingOne DEF Approving, BuildRecord, BuildPlaced
<1>7. thing \in Things /\ rest \in Seq(Things)
  BY <1>1, <1>4, <1>6, RestOfPlan
<1>8. new \in Creation /\ new.thing = thing /\ new.lists = lists
  <2>1. lists \subseteq Things
    BY <1>2, <1>4, <1>6
  <2> QED BY <1>3, <1>7, <2>1 DEF Creation
<1>9. CASE /\ made' = made \cup {new}
           /\ approval' = [approval EXCEPT ![a] =
                 [old EXCEPT !.left = rest, !.created = @ \cup {thing},
                             !.at = IF rest = << >> THEN "putCompleted" ELSE "creating"]]
  <2>1. PICK x : x = [old EXCEPT !.left = rest, !.created = @ \cup {thing},
                            !.at = IF rest = << >> THEN "putCompleted" ELSE "creating"]
    OBVIOUS
  <2>2. /\ x \in BuildRecord /\ x.left = rest /\ x.created = old.created \cup {thing}
        /\ x.saw = old.saw /\ x.at = IF rest = << >> THEN "putCompleted" ELSE "creating"
    BY <1>6, <1>7, <2>1 DEF BuildRecord, BuildStates
  <2>3. approval' = [approval EXCEPT ![a] = x]
    BY <1>9, <2>1
  <2>4. /\ x.left = rest /\ x.created = approval[a].created \cup {thing}
        /\ x.saw = approval[a].saw /\ x.at = IF rest = << >> THEN "putCompleted" ELSE "creating"
    BY <1>4, <2>2
  <2>5. thing = Orchestrator => new.lists = approval[a].created \cap SubAgentsOf
    BY <1>2, <1>8
  <2>6. x \in BuildRecord /\ new \in Creation /\ new.thing = thing /\ made' = made \cup {new}
    BY <1>8, <1>9, <2>2
  <2>7. approval[a].at = "creating" /\ UNCHANGED <<session, approvalLost, buildOverlap>>
    BY <1>5
  <2>8. thing = Head(approval[a].left) /\ rest = Tail(approval[a].left)
    BY <1>1
  <2> QED BY <2>3, <2>4, <2>5, <2>6, <2>7, <2>8, CreatedKeeps
<1>10. CASE /\ thing \in Missing
            /\ approval' = [approval EXCEPT ![a] = [old EXCEPT !.left = rest]]
            /\ UNCHANGED made
  <2>1. PICK x : x = [old EXCEPT !.left = rest]
    OBVIOUS
  <2>2. /\ x \in BuildRecord /\ x.left = rest /\ x.created = old.created
        /\ x.saw = old.saw /\ x.at = old.at
    BY <1>6, <1>7, <2>1 DEF BuildRecord, BuildStates
  <2>3. approval' = [approval EXCEPT ![a] = x]
    BY <1>10, <2>1
  <2> QED BY <1>1, <1>4, <1>5, <1>10, <2>2, <2>3, SkippedKeeps
<1>11. CASE /\ approval' = [approval EXCEPT ![a] = [old EXCEPT !.at = "putFailed"]]
            /\ made' \in {made, made \cup {new}}
  <2>1. PICK x : x = [old EXCEPT !.at = "putFailed"]
    OBVIOUS
  <2>2. x \in BuildRecord /\ x.saw = old.saw /\ x.at = "putFailed"
    BY <1>6, <2>1 DEF BuildRecord, BuildStates
  <2>3. approval' = [approval EXCEPT ![a] = x]
    BY <1>11, <2>1
  <2> QED BY <1>1, <1>4, <1>5, <1>8, <1>11, <2>2, <2>3, CreateFailedKeeps
<1> QED BY <1>5, <1>9, <1>10, <1>11

LEMMA PutOutcomeKeeps ==
  ASSUME BuildInv, NEW a \in Approvals, PutOutcome(a)
  PROVE  BuildInv'
<1>1. PICK old : old = approval[a]
  OBVIOUS
<1>2. /\ Approving(old) /\ old \in BuildRecord /\ old.saw \in Session
      /\ made' = made /\ made \subseteq Creation /\ approvalLost \in BOOLEAN
      /\ UNCHANGED <<approvalLost, buildOverlap>>
  BY <1>1, ApprovingOne DEF PutOutcome, Approving, BuildPlaced
<1>3. PICK x : x = [IdleApproval EXCEPT !.at = "done"]
  OBVIOUS
<1>4. x \in BuildRecord /\ BuildPlaced(x) /\ ~Approving(x)
  BY <1>3, DoneApproval
<1>5. approval' = [approval EXCEPT ![a] = x]
  BY <1>3 DEF PutOutcome
<1>6. ApprovalHolds(x, session', made)
  BY <1>4 DEF ApprovalHolds
<1>7. CASE old.at = "putCompleted"
  <2>1. session' = [old.saw EXCEPT !.status = "completed", !.listed = old.created]
    BY <1>1, <1>7 DEF PutOutcome
  <2>2. /\ session' \in Session /\ session'.status = "completed"
        /\ session'.listed = old.created /\ session'.subAgents = old.saw.subAgents
    BY <1>2, <2>1 DEF Session, BuildRecord
  <2>3. ~buildOverlap /\ ~approvalLost => Complete(old.created, old.saw.subAgents, made)
    BY <1>1, <1>2, <1>7, ApprovingOne DEF ApprovalHolds
  <2> QED BY <1>1, <1>2, <1>4, <1>5, <1>6, <2>2, <2>3, ApprovingOne, BuildStepKeeps
<1>8. CASE old.at # "putCompleted"
  <2>1. session' = [old.saw EXCEPT !.status = "failed"]
    BY <1>1, <1>8 DEF PutOutcome
  <2>2. session' \in Session /\ session'.status = "failed"
    BY <1>2, <2>1 DEF Session
  <2> QED BY <1>1, <1>2, <1>4, <1>5, <1>6, <2>2, ApprovingOne, BuildStepKeeps
<1> QED BY <1>7, <1>8

LEMMA LoseApprovalKeeps ==
  ASSUME BuildInv, NEW a \in Approvals, LoseApproval(a)
  PROVE  BuildInv'
<1>1. PICK x : x = [IdleApproval EXCEPT !.at = "done"]
  OBVIOUS
<1>2. x \in BuildRecord /\ BuildPlaced(x)
  BY <1>1, DoneApproval
<1>3. /\ approval' = [approval EXCEPT ![a] = x] /\ approvalLost' = TRUE
      /\ UNCHANGED <<session, made, buildOverlap>>
      /\ session \in Session \cup {NoSession} /\ made \subseteq Creation
  BY <1>1 DEF LoseApproval, BuildInv, BuildTyped
<1> QED BY <1>2, <1>3, BuildStepKeeps

LEMMA BuildNextKeeps == BuildInv /\ [BuildNext]_buildVars => BuildInv'
<1> SUFFICES ASSUME BuildInv, [BuildNext]_buildVars PROVE BuildInv'
  OBVIOUS
<1>1. CASE ProposeBuild
  BY <1>1, ProposeKeeps
<1>2. ASSUME NEW a \in Approvals, ReadSession(a) PROVE BuildInv'
  BY <1>2, ReadSessionKeeps
<1>3. ASSUME NEW a \in Approvals, CreateNext(a) PROVE BuildInv'
  BY <1>3, CreateNextKeeps
<1>4. ASSUME NEW a \in Approvals, PutOutcome(a) PROVE BuildInv'
  BY <1>4, PutOutcomeKeeps
<1>5. ASSUME NEW a \in Approvals, LoseApproval(a) PROVE BuildInv'
  BY <1>5, LoseApprovalKeeps
<1>6. CASE UNCHANGED buildVars
  BY <1>6 DEF buildVars, BuildInv, BuildTyped, BuildAlone, BuildPlaced, Approving,
              ApprovalHolds, Creating, Complete, OnceEach, ThingsOf
<1> QED BY <1>1, <1>2, <1>3, <1>4, <1>5, <1>6 DEF BuildNext

LEMMA BuildAlways == BuildSpec => []BuildInv
BY BuildInitially, BuildNextKeeps, PTL DEF BuildSpec

\* The session and the approvals under way keep their types: what is put back is
\* the item that the approval read (session_store.py).
THEOREM BuildTypeCorrect == BuildSpec => []BuildTypeOK
<1>1. BuildInv => BuildTypeOK
  BY DEF BuildInv, BuildTyped, BuildTypeOK, BuildRecord, BuildStates, Creation
<1> QED BY <1>1, BuildAlways, PTL

LEMMA ListedAgents ==
  ASSUME NEW listed \in SUBSET Things, NEW count \in 0 .. MaxSubAgents, NEW creations,
         Complete(listed, count, creations)
  PROVE  Cardinality(AgentsOf(listed)) = count + 1
<1>1. AgentsOf(listed) = SubAgentsUpTo(count) \cup {Orchestrator}
  <2>1. \A t \in listed : t \in Missing \/ t \in SubAgentsOf \/ t = Orchestrator
    BY DEF Things
  <2> QED BY <2>1, ThingKinds DEF Complete, AgentsOf
<1>2. count \in Nat /\ Orchestrator \notin SubAgentsUpTo(count)
  BY BuildAssumption, UpToAreSubAgents, ThingKinds
<1>3. IsFiniteSet(SubAgentsUpTo(count)) /\ Cardinality(SubAgentsUpTo(count)) = count
  BY <1>2, SubAgentsCounted
<1> QED BY <1>1, <1>2, <1>3, FS_AddElement

\* However many approvals of a session are asked for one after the other, and
\* also after one that failed partway, nothing of the proposal is created
\* twice; a completed session lists what exists, and its orchestrator every
\* sub-agent of the proposal (approve and execute_plan).
THEOREM ApprovedOnlyOnce == BuildSpec => []ApprovedOnce
<1>1. BuildInv => ApprovedOnce
  <2> SUFFICES ASSUME BuildInv, ~buildOverlap, ~approvalLost
               PROVE  /\ OnceEach(made)
                      /\ session.status = "completed" =>
                            /\ session.listed = ThingsOf(made)
                            /\ \A m \in made :
                                  m.thing = Orchestrator =>
                                     m.lists = session.listed \cap SubAgentsOf
                            /\ Cardinality(AgentsOf(session.listed)) = session.subAgents + 1
    BY DEF ApprovedOnce, OnceEach, ThingsOf
  <2>1. OnceEach(made)
    BY DEF BuildInv, BuildAlone
  <2>2. ASSUME session.status = "completed"
        PROVE  Complete(session.listed, session.subAgents, made)
    BY <2>2 DEF BuildInv, BuildAlone, ApprovalHolds
  <2>3. ASSUME session.status = "completed"
        PROVE  session.listed \in SUBSET Things /\ session.subAgents \in 0 .. MaxSubAgents
    BY <2>3 DEF BuildInv, BuildTyped, Session, NoSession
  <2>4. ASSUME session.status = "completed"
        PROVE  Cardinality(AgentsOf(session.listed)) = session.subAgents + 1
    BY <2>2, <2>3, <2>4, ListedAgents
  <2> QED BY <2>1, <2>2, <2>4 DEF Complete
<1> QED BY <1>1, BuildAlways, PTL

=============================================================================
