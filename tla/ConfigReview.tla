---------------------------- MODULE ConfigReview ----------------------------
(* What is reviewed about an agent's configuration: AgentConfigValidator      *)
(* before a save (app/modules/registry/config_validator.py, against the tool  *)
(* registry of app/modules/tool_registry) and the change-impact analysis of a *)
(* version against the one before (app/modules/change_impact, over the diff   *)
(* of app/modules/registry/diff.py), which the CHANGE_IMPACT stage and the    *)
(* diff route compute.  How the two items of a save are written, and what     *)
(* happens when saves overlap, is AgentRegistry's: here a save is one step.   *)
EXTENDS Integers, FiniteSets, Sequences

CONSTANTS
    CatalogTools,    \* the tool ids
    Payloads,        \* the configurations that requests carry
    Unset,           \* None, of an optional block
    MaxConfigs       \* bound on the versions saved

VARIABLES
    toolStatus,      \* [CatalogTools -> status of its entry in the tool registry]
    everApproved,    \* the tools that were approved at some time
    configs,         \* the configurations of versions 1, 2, ...
    configRequest,   \* the create or update that is being validated
    unvalidated      \* has a route saved a configuration without validating it?

reviewVars == <<toolStatus, everApproved, configs, configRequest, unvalidated>>

----------------------------------------------------------------------------

\* A tool that has no entry, or one that says REJECTED, is refused alike.
ToolStatus == {"APPROVED", "DEPRECATED"}

\* One field of each kind: a required value (system_prompt), a required block
\* (guardrails), an optional block (knowledge_base), the list of tools, and
\* tool_policies, whose changes no impact rule names.
Fields == {"system_prompt", "guardrails", "knowledge_base", "tools", "tool_policies"}

\* embedded: does some field look like it holds a credential?
Configuration ==
    [system_prompt : Nat, guardrails : Nat, knowledge_base : Nat \cup {Unset},
     tools : Seq([tool_id : CatalogTools, endpoint : Nat]),
     tool_policies : SUBSET [tool : CatalogTools, wildcard : BOOLEAN],
     embedded : BOOLEAN]

ASSUME PayloadsAssumption == Payloads \subseteq Configuration

NoConfiguration == [at |-> "before the first version"]

NoConfigRequest == [at |-> "idle"]

ConfigTypeOK ==
    /\ toolStatus \in [CatalogTools -> ToolStatus]
    /\ everApproved \subseteq CatalogTools
    /\ configs \in Seq(Payloads)
    /\ \/ configRequest = NoConfigRequest
       \/ configRequest \in
             [at : {"check", "save"}, config : Payloads, next : Nat \ {0}, errors : BOOLEAN]
    /\ unvalidated \in BOOLEAN

ConfigInit ==
    /\ toolStatus \in [CatalogTools -> ToolStatus]
    /\ everApproved = {t \in CatalogTools : toolStatus[t] = "APPROVED"}
    /\ configs = <<>>
    /\ configRequest = NoConfigRequest
    /\ unvalidated = FALSE

----------------------------------------------------------------------------
(* compute_config_diff: entries with the field, its place in a list (0: none)  *)
(* and the field below it that differs ("": the value as a whole)              *)

Entry(kind, field, index, sub, value) ==
    [kind |-> kind, field |-> field, index |-> index, sub |-> sub, isNone |-> value = Unset]

\* A list is compared by index.
ChangedItems(from, to) ==
    UNION {{Entry("changed", "tools", i, sub, to[i][sub]) :
               i \in {j \in DOMAIN from \cap DOMAIN to : from[j][sub] # to[j][sub]}} :
           sub \in {"tool_id", "endpoint"}}

AddedItems(from, to) ==
    {Entry("added", "tools", i, "", to[i]) : i \in Len(from) + 1 .. Len(to)}

RemovedItems(from, to) ==
    {Entry("removed", "tools", i, "", from[i]) : i \in Len(to) + 1 .. Len(from)}

\* Mutant of ListDiff: only what is appended or cut off is compared.
ListDiffOfTail(from, to) == AddedItems(from, to) \cup RemovedItems(from, to)

\* An item removed from the middle shows as changes and a shorter list.
ListDiff(from, to) ==
    ChangedItems(from, to) \cup AddedItems(from, to) \cup RemovedItems(from, to)

\* A block set on both sides is compared below its name, one that is None on
\* either side as a whole.  Against no version at all, each field is added.
ConfigDiff(from, to) ==
    IF from = NoConfiguration THEN {Entry("added", f, 0, "", to[f]) : f \in Fields}
    ELSE ListDiff(from.tools, to.tools)
         \cup {Entry("changed", f, 0, IF Unset \in {from[f], to[f]} THEN "" ELSE "sub", to[f]) :
                  f \in {g \in {"guardrails", "knowledge_base"} : from[g] # to[g]}}
         \cup {Entry("changed", f, 0, "", to[f]) :
                  f \in {g \in {"system_prompt", "tool_policies"} : from[g] # to[g]}}

----------------------------------------------------------------------------
(* ChangeImpactAnalyzer *)

ImpactRules ==
    [r \in {"system_prompt", "knowledge_base.*", "guardrails.*", "tools[*].add",
            "tools[*].remove", "tools[*].endpoint"} |->
        CASE r = "system_prompt" ->
                [level |-> "MEDIUM", validations |-> {"PROMPT_EVALUATION", "GUARDRAIL_TESTS"}]
          [] r = "knowledge_base.*" -> [level |-> "MEDIUM", validations |-> {"RAG_EVALUATION"}]
          [] r = "guardrails.*" ->
                [level |-> "HIGH", validations |-> {"FULL_GUARDRAIL_REGRESSION"}]
          [] r = "tools[*].add" ->
                [level |-> "HIGH",
                 validations |-> {"TOOL_SECURITY", "INTEGRATION_TESTS", "IAC_SCAN"}]
          [] r = "tools[*].remove" ->
                [level |-> "MEDIUM", validations |-> {"INTEGRATION_TESTS"}]
          [] r = "tools[*].endpoint" ->
                [level |-> "HIGH", validations |-> {"TOOL_SECURITY", "INTEGRATION_TESTS"}]]

\* Does the entry match the rule?  A block that is None, added by a first
\* version, is no change; a list of tools added as a whole is no item of it.
MatchesField(e, rule) ==
    CASE rule = "system_prompt" -> e.field = "system_prompt"
      [] rule = "guardrails.*" -> e.field = "guardrails"
      [] rule = "knowledge_base.*" ->
            e.field = "knowledge_base" /\ ~(e.kind \in {"added", "removed"} /\ e.isNone)
      [] rule = "tools[*].add" -> e.kind = "added" /\ e.index > 0
      [] rule = "tools[*].remove" -> e.kind = "removed" /\ e.index > 0
      [] rule = "tools[*].endpoint" -> e.kind = "changed" /\ e.sub = "endpoint"

MatchRules(diff) ==
    {r \in DOMAIN ImpactRules : \E e \in diff : MatchesField(e, r)}

Summarise(rules) ==
    [validations |-> UNION {ImpactRules[r].validations : r \in rules},
     level |-> IF \E r \in rules : ImpactRules[r].level = "HIGH" THEN "HIGH"
               ELSE IF rules # {} THEN "MEDIUM" ELSE "LOW"]

Analyze(from, to) == Summarise(MatchRules(ConfigDiff(from, to)))

\* The stage and the diff route compare a version with the one numbered before.
ImpactOf(n) == Analyze(IF n = 1 THEN NoConfiguration ELSE configs[n - 1], configs[n])

----------------------------------------------------------------------------
(* The routes that save a configuration *)

\* The validator reads the tool registry once for each tool of the configuration.
ValidateSave ==
    /\ configRequest = NoConfigRequest
    /\ Len(configs) < MaxConfigs
    /\ \E c \in Payloads :
          configRequest' = [at |-> "check", config |-> c, next |-> 1, errors |-> FALSE]
    /\ UNCHANGED <<toolStatus, everApproved, configs, unvalidated>>

CheckTool ==
    /\ configRequest.at = "check"
    /\ configRequest.next \in DOMAIN configRequest.config.tools
    /\ LET tool == configRequest.config.tools[configRequest.next].tool_id IN
       configRequest' = [configRequest EXCEPT
          !.next = @ + 1, !.errors = @ \/ toolStatus[tool] # "APPROVED"]
    /\ UNCHANGED <<toolStatus, everApproved, configs, unvalidated>>

\* Every tool has a policy, no scope is a wildcard, no credential is embedded.
PoliciesAccepted(c) ==
    /\ {c.tools[i].tool_id : i \in DOMAIN c.tools} \subseteq {p.tool : p \in c.tool_policies}
    /\ \A p \in c.tool_policies : ~p.wildcard
    /\ ~c.embedded

CheckConfiguration ==
    /\ configRequest.at = "check"
    /\ configRequest.next = Len(configRequest.config.tools) + 1
    /\ configRequest' = IF configRequest.errors \/ ~PoliciesAccepted(configRequest.config)
                        THEN NoConfigRequest
                        ELSE [configRequest EXCEPT !.at = "save"]
    /\ UNCHANGED <<toolStatus, everApproved, configs, unvalidated>>

\* The save, or whatever refuses it or cuts it short.
SaveConfiguration ==
    /\ configRequest.at = "save"
    /\ \/ Len(configs) < MaxConfigs /\ configs' = Append(configs, configRequest.config)
       \/ UNCHANGED configs
    /\ configRequest' = NoConfigRequest
    /\ UNCHANGED <<toolStatus, everApproved, unvalidated>>

\* The routes of a project's agents save what they are given.
SaveProjectConfiguration ==
    /\ Len(configs) < MaxConfigs
    /\ \E c \in Payloads : configs' = Append(configs, c)
    /\ unvalidated' = TRUE
    /\ UNCHANGED <<toolStatus, everApproved, configRequest>>

\* A rollback saves an older configuration again, as it is.
RestoreConfiguration ==
    /\ Len(configs) < MaxConfigs
    /\ \E n \in 1 .. Len(configs) - 1 : configs' = Append(configs, configs[n])
    /\ UNCHANGED <<toolStatus, everApproved, configRequest, unvalidated>>

\* No route writes the tool registry: an operator reviews a tool in the table.
ReviewTool ==
    /\ \E t \in CatalogTools, status \in ToolStatus :
          /\ toolStatus' = [toolStatus EXCEPT ![t] = status]
          /\ everApproved' = everApproved \cup IF status = "APPROVED" THEN {t} ELSE {}
    /\ UNCHANGED <<configs, configRequest, unvalidated>>

ConfigNext ==
    \/ ValidateSave \/ CheckTool \/ CheckConfiguration \/ SaveConfiguration
    \/ SaveProjectConfiguration \/ RestoreConfiguration \/ ReviewTool

ConfigSpec == ConfigInit /\ [][ConfigNext]_reviewVars

----------------------------------------------------------------------------
(* Properties *)

Endpoints(c) == {c.tools[i].endpoint : i \in DOMAIN c.tools}

\* Whichever version is live when a later one is deployed, what the later one does
\* differently has been named by the analysis of some version in between: an
\* endpoint that the live one does not call requires the tool security tests and is
\* of HIGH impact, however the tools were reordered or replaced; other guardrails
\* and another knowledge base require theirs.
ChangesAreNamed ==
    \A n \in DOMAIN configs : \A live \in 1 .. n - 1 :
       LET required == UNION {ImpactOf(k).validations : k \in live + 1 .. n} IN
       /\ ~(Endpoints(configs[n]) \subseteq Endpoints(configs[live])) =>
             \E k \in live + 1 .. n :
                ImpactOf(k).level = "HIGH" /\ "TOOL_SECURITY" \in ImpactOf(k).validations
       /\ configs[n].guardrails # configs[live].guardrails =>
             "FULL_GUARDRAIL_REGRESSION" \in required
       /\ configs[n].knowledge_base # configs[live].knowledge_base =>
             "RAG_EVALUATION" \in required

\* Section 62.2, a tool is in an agent's configuration only after it was approved: also
\* when approvals change while a save is validated or before a rollback, as long as
\* no route that does without the validator has saved.
ToolsWereApproved ==
    ~unvalidated =>
       \A n \in DOMAIN configs : \A i \in DOMAIN configs[n].tools :
          configs[n].tools[i].tool_id \in everApproved

ConfigurationReviewed == ChangesAreNamed /\ ToolsWereApproved

=============================================================================
