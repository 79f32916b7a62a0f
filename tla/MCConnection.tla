------------------------------ MODULE MCConnection ------------------------------
(***************************************************************************)
(* One connection: connections share nothing of what is modelled here.     *)
(* The workflow has two DPA nodes behind one SBC account; the repository   *)
(* user comes by the default list, and logs in without an NE id.           *)
(***************************************************************************)
EXTENDS Connection

MCUsers == {"nm_user", "installer"}
MCNeIds == {"dpa1", "dpa2", "ghost"}
MCClients == {[user |-> "nm_user", ne |-> "dpa1"], [user |-> "nm_user", ne |-> "dpa2"],
              [user |-> "nm_user", ne |-> "ghost"], [user |-> "installer", ne |-> "none"]}
MCDefaultProfiles == {"sbc", "repo", "dpa_node1", "dpa_node2"}
MCScenarioProfiles == {}
\* The workflow's account of both nodes, and two ways to override it.
MCWorkflowUsers == "nm_user" :> "repo"
MCScenarioUsers == "nm_user" :> "sbc"
MCMappedUsers == << >>
\* ne_ids may name a profile that does not exist.
MCNodeNames == "dpa1" :> "dpa_node1" @@ "dpa2" :> "sbc"
MCScenarioNodes == "dpa2" :> "dpa_node2" @@ "ghost" :> "dpa_node3"
MCRepoUsers == {"installer"}
================================================================================
