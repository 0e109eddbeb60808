--------------------------- MODULE DeployTemplate ---------------------------
(***************************************************************************)
(* What a service is deployed with.  Four levels may give each block of    *)
(* the manifest; template_generate merges them by overwriting, and another *)
(* view shows a module what it would inherit.                              *)
(***************************************************************************)
EXTENDS Integers

CONSTANTS
    Blocks,     \* resources, label, strategy, ...
    Required    \* those template_generate reads without asking

ASSUME TemplateAssumption == Required \subseteq Blocks

VARIABLES
    envGives,    \* blocks in the environment's template
    hasConfig,   \* the project has a ProjectConfig for the environment
    project,     \* of each block in it: "absent", "inherit" or "custom"
    app,         \* of each block and its _on switch in the application's
    module,      \* of each block in the service's own template
    ownContainers

templateVars == <<envGives, hasConfig, project, app, module, ownContainers>>

TemplateInit ==
    /\ envGives = {} /\ hasConfig = FALSE /\ ownContainers = FALSE
    /\ project = [b \in Blocks |-> "absent"]
    /\ app = [b \in Blocks |-> "absent"] /\ module = [b \in Blocks |-> "absent"]

-----------------------------------------------------------------------------
(* Each level is edited on its own; a ProjectConfig starts empty.           *)
EditEnvironment(b) ==
    /\ envGives' = IF b \in envGives THEN envGives \ {b} ELSE envGives \cup {b}
    /\ UNCHANGED <<hasConfig, project, app, module, ownContainers>>

EditProject(b) ==
    /\ hasConfig' = TRUE
    /\ \E x \in {"absent", "inherit", "custom"} : project' = [project EXCEPT ![b] = x]
    /\ UNCHANGED <<envGives, app, module, ownContainers>>

EditApp(b) ==
    /\ \E x \in {"absent", "off", "on", "empty"} : app' = [app EXCEPT ![b] = x]
    /\ UNCHANGED <<envGives, hasConfig, project, module, ownContainers>>

EditModule(b) ==
    /\ \E x \in {"absent", "inherit", "custom"} : module' = [module EXCEPT ![b] = x]
    /\ \E x \in BOOLEAN : ownContainers' = x
    /\ UNCHANGED <<envGives, hasConfig, project, app>>

TemplateNext ==
    \E b \in Blocks : EditEnvironment(b) \/ EditProject(b) \/ EditApp(b) \/ EditModule(b)

TemplateSpec == TemplateInit /\ [][TemplateNext]_templateVars

-----------------------------------------------------------------------------
(* The levels as functions from the blocks they give to who gives them; the *)
(* environment's count through the project's.  Slip: always.                *)
ProjectOverridden ==
    [b \in {b \in Blocks : b \in envGives \/ project[b] = "custom"}
       |-> IF b \in envGives THEN "environment" ELSE "project"]

ProjectLevel ==
    [b \in {b \in Blocks : project[b] = "custom" \/ (project[b] = "inherit" /\ b \in envGives)}
       |-> IF project[b] = "custom" THEN "project" ELSE "environment"]

AppLevel    == [b \in {b \in Blocks : app[b] = "on"} |-> "app"]
ModuleLevel == [b \in {b \in Blocks : module[b] = "custom"} |-> "module"]

(* update: what is nearer overwrites.                                       *)
Over(near, far) ==
    [b \in DOMAIN near \cup DOMAIN far |-> IF b \in DOMAIN near THEN near[b] ELSE far[b]]

(* get_inherit_template.                                                   *)
Inherited == Over(AppLevel, ProjectLevel)

(* template_generate: the levels, then the blocks it cannot do without, and *)
(* at last the containers, for which it turns to the project's once more,   *)
(* outside the try.                                                         *)
Merged == Over(ModuleLevel, Over(AppLevel, ProjectLevel))

Manifest ==
    IF ~(Required \subseteq DOMAIN Merged) THEN [code |-> "500", blocks |-> <<>>]
    ELSE IF ~ownContainers /\ ~hasConfig THEN [code |-> "raises", blocks |-> <<>>]
    ELSE [code |-> "200", blocks |-> Merged]

-----------------------------------------------------------------------------
(* The level nearest to the module that gives a block.                      *)
Nearest(b) ==
    LET gives == [module |-> module[b] = "custom", app |-> app[b] = "on",
                  project |-> project[b] = "custom", environment |-> b \in envGives]
        order == <<"module", "app", "project", "environment">>
        first == {i \in 1..4 : gives[order[i]] /\ \A j \in 1..(i - 1) : ~gives[order[j]]}
    IN  IF first = {} THEN "none" ELSE order[CHOOSE i \in first : TRUE]

(* Every manifest has each block from the nearest level that gives it, as   *)
(* the comment in template_generate ranks them, where the project's config  *)
(* names the block: one it does not name is never the environment's.  What  *)
(* the inherit view shows is what a module that customises nothing gets.    *)
NearestWins ==
    Manifest.code = "200" =>
       \A b \in Blocks :
          /\ project[b] # "absent" =>
                IF b \in DOMAIN Manifest.blocks THEN Manifest.blocks[b] = Nearest(b)
                                                ELSE Nearest(b) = "none"
          /\ module[b] # "custom" =>
                /\ b \in DOMAIN Inherited <=> b \in DOMAIN Manifest.blocks
                /\ b \in DOMAIN Inherited => Inherited[b] = Manifest.blocks[b]
=============================================================================
