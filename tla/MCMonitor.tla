----------------------------- MODULE MCMonitor ------------------------------
(***************************************************************************)
(* The run of Monitor explores seven kinds of history, chosen at the       *)
(* start: each lets some parts of the system change, with bounds of its    *)
(* own.                                                                    *)
(***************************************************************************)
EXTENDS Monitor

VARIABLE profile

MCKinds == {"monitor", "account", "listing", "enospc", "other", "resume"}
MCAuthor == [v \in {1, 2} |-> "ann"]
MCJobs == {"heartbeat", "collect", "validate", "refresh"}

\* What may change, and how often the outside events of it may happen.
Profile(parts, monitorMax, account, listing, enospc, other, resume) ==
    [parts |-> parts,
     limit |-> [k \in MCKinds |->
         CASE k = "monitor" -> monitorMax [] k = "account" -> account
           [] k = "listing" -> listing [] k = "enospc" -> enospc
           [] k = "other" -> other [] k = "resume" -> resume]]

Profiles ==
    [cookies  |-> Profile({"cookies", "validate", "test", "probes"}, 0, 0, 0, 0, 0, 0),
     engines  |-> Profile({"cookies", "validate", "test", "collect"}, 0, 0, 0, 0, 0, 0),
     accounts |-> Profile({"heartbeat", "videos"}, 1, 2, 0, 0, 1, 0),
     profiles |-> Profile({"refresh"}, 0, 2, 0, 0, 0, 0),
     disk     |-> Profile({"disk", "heartbeat", "videos"}, 1, 0, 0, 1, 0, 1),
     network  |-> Profile({"network", "heartbeat", "videos"}, 1, 0, 1, 0, 0, 0),
     rotation |-> Profile({"cookies", "heartbeat", "collect"}, 1, 0, 0, 0, 0, 0)]

MCLimit == [k \in MCKinds |-> 2]

Part(p) == p \in Profiles[profile].parts

\* The state the profile stays in.
Still ==
    /\ Part("validate") \/ (val["validate"].pc = "idle" /\ held["validate"] = NotReading)
    /\ Part("test") \/ val["test"].pc = "idle"
    /\ Part("cookies") \/ (Len(stored) = 1 /\ imported = {"f"})
    /\ expired \subseteq IF Part("validate") THEN {"f"} ELSE {}
    /\ probes \/ (Part("probes") /\ expired = {})
    /\ Part("collect") \/ held["collect"] = NotReading
    /\ Part("heartbeat") \/ ~monitor
    /\ Part("refresh") \/ held["refresh"] = NotReading
    /\ Part("videos") \/ published = {}
    /\ profile = "accounts" \/ published \subseteq {1}
    /\ Part("network") \/ reachable
    /\ Part("disk") \/ (~low /\ diskCheck = "idle")
    /\ \A k \in Kinds : spent[k] <= Profiles[profile].limit[k]

Within == profile' = profile /\ Still'
mcVars == <<vars, profile>>

\* A job is fair where the profile lets it run; no profile blocks a cycle.
Same == profile' = profile

MCFairness ==
    /\ WF_mcVars(Part("heartbeat") /\ HeartbeatJob /\ Same)
    /\ WF_mcVars(Part("collect") /\ CollectJob /\ Same)
    /\ WF_mcVars(Part("refresh") /\ RefreshJob /\ Same)
    /\ SF_mcVars(Part("heartbeat") /\ HeartbeatLaunches /\ cycle'.pc = "start" /\ Same)
    /\ WF_mcVars(CycleSteps /\ Same)
    /\ WF_mcVars(Part("disk") /\ DiskJob /\ OnlyGuards /\ Same)
    /\ WF_mcVars(Part("network") /\ NetworkJob /\ OnlyGuards /\ Same)
    /\ \A a \in Accounts : WF_mcVars(CheckAges(a) /\ Same) /\ WF_mcVars(ProfileAges(a) /\ Same)

\* The accounts at the start: where they come and go, one with the highest id.
Usernames == IF profile = "accounts" THEN <<"ann">> ELSE <<"bob", "ann">>

MCInit ==
    /\ profile \in DOMAIN Profiles
    /\ Init /\ Still /\ imported = {"f"}
    /\ [i \in DOMAIN accounts |-> accounts[i].name] = Usernames

MCSpec ==
    /\ MCInit
    /\ [][Next /\ Within]_mcVars
    /\ MCFairness

(* The properties of the fair jobs, where the job runs: the other          *)
(* histories leave it out.                                                 *)
EngineFollowsHere == Part("collect") => EngineFollows
RefreshIsolatedHere == Part("refresh") => RefreshIsolated
=============================================================================
