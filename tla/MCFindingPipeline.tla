-------------------------- MODULE MCFindingPipeline --------------------------
(***************************************************************************)
(* FindingPipeline for TLC: two findings about single radios, and a summary *)
(* (a congested channel, an SSID conflict) whose key is its scope, which    *)
(* delete_alerts, knowing only the bssid column, takes for another.        *)
(***************************************************************************)
EXTENDS FindingPipeline

MCFindings == {"evil_twin", "deauth", "congested"}
MCKeys     == {"evil_twin|ap", "deauth|ap", "congested|ch6", "congested|-"}
MCKeyOf    == [f \in MCFindings |->
                 CASE f = "evil_twin" -> "evil_twin|ap"
                   [] f = "deauth"    -> "deauth|ap"
                   [] f = "congested" -> "congested|ch6"]
MCRowKey   == [MCKeyOf EXCEPT !["congested"] = "congested|-"]
MCRank     == [f \in MCFindings |->
                 CASE f = "evil_twin" -> 4 [] f = "deauth" -> 3 [] f = "congested" -> 1]
=============================================================================
