----------------------------- MODULE Provision -----------------------------
(***************************************************************************)
(* infra/provision.sh, which stands the system up or brings what is there  *)
(* up to date, and infra/redeploy.sh, which rolls some of its apps to a    *)
(* new image.  A script is a sequence of calls of the az client; under     *)
(* set -e the first that fails ends it, and the operator runs it, or the   *)
(* other one, again over what was left.                                    *)
(*                                                                         *)
(* A resource is its name: what it depends on, and the ids that are looked *)
(* up and passed on, are left out.  Nothing is deleted.                    *)
(***************************************************************************)
EXTENDS Naturals, Sequences

CONSTANT MaxRuns  \* bound: how often a script is run

ASSUME ProvisionAssumption == MaxRuns \in Nat \ {0}

Mock == {"jenkins", "datadog", "argocd"}
App  == {"relay", "brain"} \cup Mock
Repo == {"relay", "brain", "mockmcp"}

Image(a) == IF a \in Mock THEN "mockmcp" ELSE a

VARIABLES
    exists,   \* the resources there are, apps among them
    image,    \* the build each app runs
    env,      \* the groups of environment variables each app has
    pushed,   \* the builds in the registry
    script,   \* what the operator runs
    at,       \* the step it is at, 0 between two runs
    tag,      \* BUILD_TAG: the number of the run
    masked,   \* history: what this run took for there, and was not
    missed,   \* history: what of the path was masked when the bot was last wired
    finished  \* whether the last run got to its end

vars == <<exists, image, env, pushed, script, at, tag, masked, missed, finished>>
-----------------------------------------------------------------------------
(* The scripts.                                                            *)

Step(op, on, vs) == [op |-> op, on |-> on, env |-> vs]

Create(r)   == Step("create", r, {})   \* create or update, or create if show fails
Allow(r)    == Step("allow", r, {})    \* run_allow_exists
Compile(r)  == Step("build", r, {})    \* build_image
Ensure(a, vs) == Step("ensure", a, vs) \* ensure_app_created
Roll(a, vs) == Step("roll", a, vs)     \* a new image, and these variables
Set(a, vs)  == Step("set", a, vs)      \* these variables

DeployMock(a) == << Ensure(a, {"kind"}), Roll(a, {}) >>

Platform ==
    << Create("brain_identity"), Create("relay_identity"), Create("bot"), Allow("channel"),
       Create("namespace"), Create("queue"), Allow("sender_role"), Allow("receiver_role"),
       Allow("openai_role"), Allow("ai_role"), Create("storage"), Allow("table_role"),
       Create("registry"), Allow("relay_pull_role"), Allow("brain_pull_role") >>

Apps ==
    << Compile("relay"), Compile("brain"),
       Create("vnet"), Create("nsg"), Create("nsg_rule"), Create("subnet"), Create("cae"),
       Ensure("relay", {"bot"}), Roll("relay", {"bot"}),
       Ensure("brain", {"bot", "state"}), Roll("brain", {"state"}),
       Compile("mockmcp") >>
    \o DeployMock("jenkins") \o DeployMock("datadog") \o DeployMock("argocd")

Wiring == << Set("brain", {"tools"}), Create("endpoint"), Create("allowlist") >>

(* Mutant of ProvisionScript: the bot is wired first.                      *)
WiresFirst == Platform \o << Create("endpoint") >> \o Apps \o Wiring

ProvisionScript == Platform \o Apps \o Wiring

RedeployRelay == << Compile("relay"), Roll("relay", {}) >>
RedeployBrain == << Compile("brain"), Roll("brain", {}) >>
RedeployMocks ==
    << Compile("mockmcp"), Roll("jenkins", {}), Roll("datadog", {}), Roll("argocd", {}) >>

Script ==
    { ProvisionScript, RedeployRelay, RedeployBrain, RedeployMocks,
      RedeployRelay \o RedeployBrain \o RedeployMocks }

(* What a finished run of provision.sh must have left.                     *)
Resource == {ProvisionScript[i].on : i \in {j \in DOMAIN ProvisionScript :
                                              ProvisionScript[j].op # "build"}}
Env(a)   == UNION {ProvisionScript[i].env : i \in {j \in DOMAIN ProvisionScript :
                                                     ProvisionScript[j].on = a}}

(* What an activity needs on its way from the bot to the brain: the bot    *)
(* and its channel, the queue and the leave to write and to read it, and   *)
(* the two apps, with the leave to pull their images.                      *)
Path == {"brain_identity", "relay_identity", "bot", "channel", "namespace", "queue",
         "sender_role", "receiver_role", "registry", "relay_pull_role", "brain_pull_role",
         "cae", "relay", "brain"}

(* What the script of phase 1 left: no model, no store and no mocks.       *)
Phase1 == Path \cup {"vnet", "nsg", "nsg_rule", "subnet", "endpoint", "allowlist"}

Init ==
    /\ exists \in {{}, Phase1}
    /\ pushed = {<<a, 0>> : a \in exists \cap App}
    /\ image = [a \in App |-> 0]
    /\ env = [a \in App |-> IF a \in exists THEN {"bot"} ELSE {}]
    /\ script = ProvisionScript
    /\ at = 0
    /\ tag = 0
    /\ masked = {} /\ missed = {}
    /\ finished = FALSE
-----------------------------------------------------------------------------
(* What the calls do when they succeed.                                    *)

Creates(r) ==
    /\ exists' = exists \cup {r}
    /\ missed' = IF r = "endpoint" THEN masked \cap Path ELSE missed
    /\ UNCHANGED <<image, env, pushed, masked>>

(* Mutant of Builds: az acr build is trusted, which may exit 0 though the  *)
(* build failed.                                                           *)
BuildsTrusted(r) ==
    /\ "registry" \in exists
    /\ pushed' \in {pushed, pushed \cup {<<r, tag>>}}
    /\ UNCHANGED <<exists, image, env, masked, missed>>

(* build_image: without the tag in the registry the script ends.           *)
Builds(r) ==
    /\ "registry" \in exists
    /\ pushed' = pushed \cup {<<r, tag>>}
    /\ UNCHANGED <<exists, image, env, masked, missed>>

(* ensure_app_created                                                      *)
Ensures(a, vs) ==
    IF a \in exists
    THEN UNCHANGED <<exists, image, env, pushed, masked, missed>>
    ELSE /\ exists' = exists \cup {a}
         /\ image' = [image EXCEPT ![a] = tag]
         /\ env' = [env EXCEPT ![a] = vs]
         /\ UNCHANGED <<pushed, masked, missed>>

(* az containerapp update, which keeps the variables it is not given.      *)
Updates(a, i, vs) ==
    /\ a \in exists
    /\ image' = [image EXCEPT ![a] = i]
    /\ env' = [env EXCEPT ![a] = @ \cup vs]
    /\ UNCHANGED <<exists, pushed, masked, missed>>

Does(s) ==
    \/ s.op \in {"create", "allow"} /\ Creates(s.on)
    \/ s.op = "build"  /\ Builds(s.on)
    \/ s.op = "ensure" /\ Ensures(s.on, s.env)
    \/ s.op = "roll"   /\ Updates(s.on, tag, s.env)
    \/ s.op = "set"    /\ Updates(s.on, image[s.on], s.env)
-----------------------------------------------------------------------------
Run ==
    /\ at = 0
    /\ tag < MaxRuns
    /\ script' \in Script
    /\ at' = 1
    /\ tag' = tag + 1
    /\ masked' = {}
    /\ finished' = FALSE
    /\ UNCHANGED <<exists, image, env, pushed, missed>>

Goes ==
    /\ at' = IF at < Len(script) THEN at + 1 ELSE 0
    /\ finished' = (at = Len(script))
    /\ UNCHANGED <<script, tag>>

Succeed ==
    /\ at # 0
    /\ Does(script[at])
    /\ Goes

(* Mutant of Conflicts: any failure is taken for "already exists".         *)
AnyFailure(s) ==
    /\ s.op = "allow"
    /\ UNCHANGED <<exists, image, env, pushed, masked, missed>>

(* run_allow_exists goes on if what the call prints has "conflict" in it,  *)
(* as it has when the resource is there, and when it is not but another    *)
(* operation is under way.                                                 *)
Conflicts(s) ==
    /\ s.op = "allow"
    /\ masked' = masked \cup ({s.on} \ exists)
    /\ UNCHANGED <<exists, image, env, pushed, missed>>

Conflict ==
    /\ at # 0
    /\ Conflicts(script[at])
    /\ Goes

(* A call fails, having done its work or not, or the script is killed.     *)
Fail ==
    /\ at # 0
    /\ Does(script[at]) \/ UNCHANGED <<exists, image, env, pushed, masked, missed>>
    /\ at' = 0
    /\ UNCHANGED <<script, tag, finished>>

Next == Run \/ Succeed \/ Conflict \/ Fail

Spec == Init /\ [][Next]_vars
-----------------------------------------------------------------------------
(* Properties.                                                             *)

TypeOK ==
    /\ exists \subseteq Resource
    /\ image \in [App -> 0 .. tag]
    /\ env \in [App -> SUBSET {"bot", "state", "tools", "kind"}]
    /\ pushed \subseteq Repo \X (0 .. tag)
    /\ script \in Script
    /\ at \in 0 .. Len(script)
    /\ tag \in 0 .. MaxRuns
    /\ masked \subseteq Resource
    /\ missed \subseteq Resource
    /\ finished \in BOOLEAN

(* Whatever earlier runs of either script left, from nothing or from what  *)
(* the script of phase 1 left, a run of provision.sh that gets to its end  *)
(* has left every resource, every app on this run's build, and every       *)
(* variable (provision.sh:16-20, "fills any gap from a partial earlier     *)
(* run").  Only what this run was answered with a conflict may be missing  *)
(* (lib.sh:71).                                                            *)
DoneIsComplete ==
    finished /\ script = ProvisionScript =>
        /\ Resource \subseteq exists \cup masked
        /\ \A a \in App : image[a] = tag /\ Env(a) \subseteq env[a]

(* An app runs no build that is not in the registry: a failed build is     *)
(* noticed before anything is rolled (lib.sh:107-122).                     *)
RunsPushedImages == \A a \in exists \cap App : <<Image(a), image[a]>> \in pushed

(* The bot is not pointed at the relay before its activities can get all   *)
(* the way to a brain, wherever the runs before stopped and however often  *)
(* (provision.sh:347-348): with the endpoint there is all of the path, the *)
(* apps' leave to send, to receive and to be pulled included.  Only what   *)
(* the run that wired it was answered with a conflict for, and was not     *)
(* there, may be missing (lib.sh:71).                                      *)
WiredIsServed == "endpoint" \in exists => Path \subseteq exists \cup missed
=============================================================================
