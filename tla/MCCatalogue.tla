----------------------------- MODULE MCCatalogue -----------------------------
(* Applications, their relations, settings, templates and roles, for TLC.    *)
(* They share no state: each behaviour is one of a single part.              *)
EXTENDS AppCatalogue, AppGroup, SettingsCache, DeployTemplate, Access, TicketForm, HostRollout, Session

CONSTANTS a, b, c1, c2, r1, r2

VARIABLE part   \* the one that runs

catalogueVars == <<part, catVars, groupVars, settingVars, templateVars, accessVars, formVars, hostVars, sessionVars>>

(* Two applications of one name; the preset data names dev only, and the   *)
(* namespace of dev_sz begins like that of dev.                             *)
MCAppName  == [x \in Applications |-> "shop"]
MCEnvOrder == <<"dev", "dev_sz">>
MCNameTag  == [e \in {"dev", "dev_sz"} |-> IF e = "dev" THEN "dev" ELSE "sz"]
MCSpaceTag == [e \in {"dev", "dev_sz"} |-> "dev"]

MCSymmetry == Permutations({a, b}) \cup Permutations({c1, c2})

(* A setting may be renamed to "hub", or take another's type.               *)
Form(n, t) == [name |-> n, type |-> t]
MCForms == {Form("gitlab", "gitlab"), Form("jenkins", "jenkins"), Form("hub", "harbor"), Form("hub", "gitlab")}

MCPermsMap == {[key |-> "*", perm |-> "admin"], [key |-> "*", perm |-> "all"],
               [key |-> "put", perm |-> "edit"], [key |-> "get_list", perm |-> "list"]}
MCRequests == {[method |-> "put", custom |-> "put_update", any |-> "*_update"],
               [method |-> "get", custom |-> "get_list", any |-> "*_list"]}

(* Three menus, each under the one before.                                  *)
MCChain == <<0, 1, 2>>

(* Three templates: the requester chooses the last handlers; anybody passes *)
(* the second node; the nodes have changed places.                          *)
Node(n, by, to, users) == [id |-> n, pass |-> by, asks |-> to, members |-> users]
MCLayouts == {<<Node("ask", "any", "sign", {}), Node("check", "any", "none", {"ann"}), Node("sign", "any", "none", {"ann"})>>,
              <<Node("ask", "any", "none", {"ann"}), Node("check", "passed", "none", {"bob"}), Node("sign", "any", "none", {})>>,
              <<Node("ask", "any", "none", {}), Node("sign", "any", "none", {"ann"})>>}
(* The forwarding host is one of the service's, or not; one is listed twice.*)
MCHostLists == {<<>>, <<"fwd", "web1">>, <<"web1">>, <<"web1", "web1">>}

Init ==
    /\ part \in {"apps", "groups", "settings", "templates", "access", "forms", "hosts", "session"}
    /\ CatInit /\ GroupInit /\ SettingsInit /\ TemplateInit /\ AccessInit /\ FormInit /\ HostInit /\ SessionInit
    /\ part # "forms" => design = CHOOSE t \in Layouts : TRUE
    /\ part # "hosts" => flag = "jar" /\ hosts = <<>>
    /\ part # "session" => lives = CHOOSE l \in [access : AccessLives, refresh : RefreshLives] : TRUE
    /\ default = 1 /\ parent = MCChain

Next ==
    /\ UNCHANGED part
    /\ \/ part = "apps" /\ CatNext
          /\ UNCHANGED <<groupVars, settingVars, templateVars, accessVars, formVars, hostVars, sessionVars>>
       \/ part = "groups" /\ GroupNext
          /\ UNCHANGED <<catVars, settingVars, templateVars, accessVars, formVars, hostVars, sessionVars>>
       \/ part = "settings" /\ SettingsNext
          /\ UNCHANGED <<catVars, groupVars, templateVars, accessVars, formVars, hostVars, sessionVars>>
       \/ part = "templates" /\ TemplateNext
          /\ UNCHANGED <<catVars, groupVars, settingVars, accessVars, formVars, hostVars, sessionVars>>
       \/ part = "access" /\ AccessNext
          /\ UNCHANGED <<catVars, groupVars, settingVars, templateVars, formVars, hostVars, sessionVars>>
       \/ part = "forms" /\ FormNext
          /\ UNCHANGED <<catVars, groupVars, settingVars, templateVars, accessVars, hostVars, sessionVars>>
       \/ part = "hosts" /\ HostNext
          /\ UNCHANGED <<catVars, groupVars, settingVars, templateVars, accessVars, formVars, sessionVars>>
       \/ part = "session" /\ SessionNext
          /\ UNCHANGED <<catVars, groupVars, settingVars, templateVars, accessVars, formVars, hostVars>>

Spec == Init /\ [][Next]_catalogueVars
=============================================================================
