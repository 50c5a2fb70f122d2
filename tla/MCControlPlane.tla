---- MODULE MCControlPlane ----
(***************************************************************************)
(* The control plane's components for TLC.  They share no state, so their  *)
(* product would add nothing: a behaviour is one of one component, chosen  *)
(* by area, and the others stay in one of their initial states.            *)
(***************************************************************************)
EXTENDS PlatformUpgrade, KnowledgeBase, AgentRegistry, SubAgentGraph, SubAgentSearch,
        AgentContainer, AgentTurn, GuardrailPolicy, BuildWithAI, AuditChain, GitRepository,
        AgentCredentials, ProjectLibrary, Playground, ConfigReview

VARIABLE area        \* the component that moves

MCDocuments == 1 .. 2
MCThree == 1 .. 3
MCFour == 1 .. 4
MCTwo == 1 .. 2
MCSeven == 1 .. 7

\* Configurations that differ in one field or two, with tools swapped, replaced at
\* the same endpoint, moved, and without a policy.
Tool(id, endpoint) == [tool_id |-> id, endpoint |-> endpoint]

Plain == [system_prompt |-> 1, guardrails |-> 1, knowledge_base |-> Unset, tools |-> <<>>,
          tool_policies |-> {[tool |-> "a", wildcard |-> FALSE], [tool |-> "b", wildcard |-> FALSE]},
          embedded |-> FALSE]

MCPayloads ==
    {[Plain EXCEPT !.tools = tools] :
        tools \in {<<Tool("a", 1)>>, <<Tool("b", 1)>>, <<Tool("a", 2)>>,
                   <<Tool("a", 1), Tool("b", 2)>>, <<Tool("b", 2), Tool("a", 1)>>}}
    \cup {[Plain EXCEPT !.guardrails = 2, !.knowledge_base = 1],
          [Plain EXCEPT !.knowledge_base = 2, !.system_prompt = 2],
          [Plain EXCEPT !.tools = <<Tool("b", 1)>>, !.tool_policies = {}]}

Areas ==
    {"upgrade", "knowledge base", "registry", "sub-agents", "search", "container", "turn",
     "guardrail", "build", "audit", "repository", "credentials", "library", "playground", "review"}

\* A component that does not move is in one initial state, not in each of them.
DormantOnce ==
    /\ area # "upgrade" => ~upgradeOverlap
    /\ area # "knowledge base" => kbMode = "serial"
    /\ area # "registry" => ~regOverlap
    /\ area # "sub-agents" => ~savesOverlap
    /\ area # "container" => ~deploysOverlap /\ saved[1] = CHOOSE c \in Configurations : TRUE
    /\ area # "guardrail" => ~policyOverlap /\ credential
    /\ area # "build" => ~buildOverlap
    /\ area # "audit" => ~writersOverlap
    /\ area # "repository" => ~attemptsOverlap /\ provider = "github"
    /\ area # "library" => ~libOverlap
    /\ area # "playground" => ~playOverlap
    /\ area # "review" => everApproved = CatalogTools

\* The same of the search, stated before its graphs are enumerated.
SearchDormant ==
    /\ graph \in IF area = "search" THEN [Nodes -> SUBSET Nodes] ELSE {[n \in Nodes |-> {}]}
    /\ root \in IF area = "search" THEN Nodes ELSE {CHOOSE n \in Nodes : TRUE}

ControlPlaneInit ==
    /\ area \in Areas
    /\ UpgradeInit /\ KbInit /\ RegInit /\ GraphInit /\ ContainerInit /\ TurnInit
    /\ PolicyInit /\ BuildInit /\ AuditInit /\ GitInit /\ CredInit /\ LibInit
    /\ PlayInit /\ ConfigInit
    /\ DormantOnce
    /\ SearchDormant /\ SearchInit

UpgradeMoves ==
    /\ area = "upgrade"
    /\ UpgradeNext
    /\ UNCHANGED <<kbVars, regVars, graphVars, searchVars, containerVars, turnVars,
                   policyVars, buildVars, auditVars, gitVars, credVars, libVars,
                   playVars, reviewVars, area>>

KbMoves ==
    /\ area = "knowledge base"
    /\ KbNext
    /\ UNCHANGED <<upgradeVars, regVars, graphVars, searchVars, containerVars, turnVars,
                   policyVars, buildVars, auditVars, gitVars, credVars, libVars,
                   playVars, reviewVars, area>>

RegistryMoves ==
    /\ area = "registry"
    /\ RegNext
    /\ UNCHANGED <<upgradeVars, kbVars, graphVars, searchVars, containerVars, turnVars,
                   policyVars, buildVars, auditVars, gitVars, credVars, libVars,
                   playVars, reviewVars, area>>

GraphMoves ==
    /\ area = "sub-agents"
    /\ GraphNext
    /\ UNCHANGED <<upgradeVars, kbVars, regVars, searchVars, containerVars, turnVars,
                   policyVars, buildVars, auditVars, gitVars, credVars, libVars,
                   playVars, reviewVars, area>>

SearchMoves ==
    /\ area = "search"
    /\ SearchNext
    /\ UNCHANGED <<upgradeVars, kbVars, regVars, graphVars, containerVars, turnVars,
                   policyVars, buildVars, auditVars, gitVars, credVars, libVars,
                   playVars, reviewVars, area>>

ContainerMoves ==
    /\ area = "container"
    /\ ContainerNext
    /\ UNCHANGED <<upgradeVars, kbVars, regVars, graphVars, searchVars, turnVars,
                   policyVars, buildVars, auditVars, gitVars, credVars, libVars,
                   playVars, reviewVars, area>>

TurnMoves ==
    /\ area = "turn"
    /\ TurnNext
    /\ UNCHANGED <<upgradeVars, kbVars, regVars, graphVars, searchVars, containerVars,
                   policyVars, buildVars, auditVars, gitVars, credVars, libVars,
                   playVars, reviewVars, area>>

PolicyMoves ==
    /\ area = "guardrail"
    /\ PolicyNext
    /\ UNCHANGED <<upgradeVars, kbVars, regVars, graphVars, searchVars, containerVars,
                   turnVars, buildVars, auditVars, gitVars, credVars, libVars, playVars,
                   reviewVars, area>>

BuildMoves ==
    /\ area = "build"
    /\ BuildNext
    /\ UNCHANGED <<upgradeVars, kbVars, regVars, graphVars, searchVars, containerVars,
                   turnVars, policyVars, auditVars, gitVars, credVars, libVars, playVars,
                   reviewVars, area>>

AuditMoves ==
    /\ area = "audit"
    /\ AuditNext
    /\ UNCHANGED <<upgradeVars, kbVars, regVars, graphVars, searchVars, containerVars,
                   turnVars, policyVars, buildVars, gitVars, credVars, libVars, playVars,
                   reviewVars, area>>

GitMoves ==
    /\ area = "repository"
    /\ GitNext
    /\ UNCHANGED <<upgradeVars, kbVars, regVars, graphVars, searchVars, containerVars,
                   turnVars, policyVars, buildVars, auditVars, credVars, libVars,
                   playVars, reviewVars, area>>

CredentialsMove ==
    /\ area = "credentials"
    /\ CredNext
    /\ UNCHANGED <<upgradeVars, kbVars, regVars, graphVars, searchVars, containerVars,
                   turnVars, policyVars, buildVars, auditVars, gitVars, libVars,
                   playVars, reviewVars, area>>

LibraryMoves ==
    /\ area = "library"
    /\ LibNext
    /\ UNCHANGED <<upgradeVars, kbVars, regVars, graphVars, searchVars, containerVars,
                   turnVars, policyVars, buildVars, auditVars, gitVars, credVars,
                   playVars, reviewVars, area>>

PlaygroundMoves ==
    /\ area = "playground"
    /\ PlayNext
    /\ UNCHANGED <<upgradeVars, kbVars, regVars, graphVars, searchVars, containerVars,
                   turnVars, policyVars, buildVars, auditVars, gitVars, credVars,
                   libVars, reviewVars, area>>

ReviewMoves ==
    /\ area = "review"
    /\ ConfigNext
    /\ UNCHANGED <<upgradeVars, kbVars, regVars, graphVars, searchVars, containerVars,
                   turnVars, policyVars, buildVars, auditVars, gitVars, credVars,
                   libVars, playVars, area>>

ControlPlaneNext ==
    \/ UpgradeMoves \/ KbMoves \/ RegistryMoves \/ GraphMoves \/ SearchMoves
    \/ ContainerMoves \/ TurnMoves \/ PolicyMoves \/ BuildMoves \/ AuditMoves
    \/ GitMoves \/ CredentialsMove \/ LibraryMoves \/ PlaygroundMoves
    \/ ReviewMoves

controlPlaneVars ==
    <<upgradeVars, kbVars, regVars, graphVars, searchVars, containerVars, turnVars, policyVars,
      buildVars, auditVars, gitVars, credVars, libVars, playVars, reviewVars, area>>

ControlPlaneSpec == ControlPlaneInit /\ [][ControlPlaneNext]_controlPlaneVars

\* Every component's items, handlers and history keep the types its module gives them.
ControlPlaneTypeOK ==
    /\ UpgradeTypeOK /\ KbTypeOK /\ RegTypeOK /\ GraphTypeOK /\ SearchTypeOK
    /\ ContainerTypeOK /\ TurnTypeOK /\ PolicyTypeOK /\ BuildTypeOK /\ AuditTypeOK
    /\ GitTypeOK /\ CredTypeOK /\ LibTypeOK /\ PlayTypeOK
    /\ ConfigTypeOK
    /\ area \in Areas
====
