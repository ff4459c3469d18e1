-------------------------- MODULE ProvisionProofs --------------------------
(***************************************************************************)
(* Proofs about Provision, for any number of runs of either script, each   *)
(* stopped anywhere: what a run that ends well leaves, that no app runs an *)
(* image that was never pushed, and that the bot is wired last.            *)
(*                                                                         *)
(* They rest on what each call has done once it was passed (Did), which no *)
(* later call of the run undoes, and on the order of the calls in the      *)
(* scripts, which are written out call by call.                            *)
(***************************************************************************)
EXTENDS Provision, SequenceTheorems, TLAPS

Op    == {"create", "allow", "build", "ensure", "roll", "set"}
Group == {"bot", "state", "tools", "kind"}

(* The resources of the system, by name.                                   *)
Everything ==
    {"brain_identity", "relay_identity", "bot", "channel", "namespace", "queue",
     "sender_role", "receiver_role", "openai_role", "ai_role", "storage", "table_role",
     "registry", "relay_pull_role", "brain_pull_role", "vnet", "nsg", "nsg_rule", "subnet",
     "cae", "endpoint", "allowlist"} \cup App

LEMMA Apps5 ==
    /\ App = {"relay", "brain", "jenkins", "datadog", "argocd"}
    /\ Repo = {"relay", "brain", "mockmcp"}
    /\ Image("relay") = "relay" /\ Image("brain") = "brain"
    /\ Image("jenkins") = "mockmcp" /\ Image("datadog") = "mockmcp" /\ Image("argocd") = "mockmcp"
BY DEF App, Repo, Mock, Image

-----------------------------------------------------------------------------
(* The scripts, written out.                                               *)

LEMMA Concatenated ==
    ASSUME NEW T, NEW s \in Seq(T), NEW t \in Seq(T), NEW u \in Seq(T),
           Len(u) = Len(s) + Len(t),
           \A i \in 1 .. Len(s) : u[i] = s[i],
           \A i \in 1 .. Len(t) : u[Len(s) + i] = t[i]
    PROVE  s \o t = u
<1>1. /\ s \o t \in Seq(T) /\ Len(s \o t) = Len(s) + Len(t)
      /\ \A i \in 1 .. Len(s) + Len(t) :
            (s \o t)[i] = IF i <= Len(s) THEN s[i] ELSE t[i - Len(s)]
  BY ConcatProperties
<1>2. ASSUME NEW i \in 1 .. Len(u) PROVE (s \o t)[i] = u[i]
  <2>1. CASE i <= Len(s)
    BY <1>1, <2>1
  <2>2. CASE i > Len(s)
    <3>1. i - Len(s) \in 1 .. Len(t) /\ Len(s) + (i - Len(s)) = i
      BY <2>2
    <3>2. u[Len(s) + (i - Len(s))] = t[i - Len(s)]
      BY <3>1
    <3> QED
      BY <1>1, <2>2, <3>1, <3>2
  <2> QED
    BY <2>1, <2>2
<1> QED
  BY <1>1, <1>2, SeqEqual

(* The n calls of s that come after the first f.                           *)
Part(s, f, n) == [i \in 1 .. n |-> s[f + i]]

(* The m calls from f on and the n after them are the m + n from f on.     *)
Joins(s, f, m, n) == Part(s, f, m) \o Part(s, f + m, n) = Part(s, f, m + n)

LEMMA PartsJoin ==
    ASSUME NEW s, NEW f \in Nat, NEW m \in Nat, NEW n \in Nat
    PROVE  Joins(s, f, m, n)
<1>1. PICK g \in Nat, k \in Nat : g = f + m /\ k = m + n
  OBVIOUS
<1> DEFINE p == Part(s, f, m)
           q == Part(s, g, n)
           r == Part(s, f, k)
<1>2. PICK T : T = {s[i] : i \in f + 1 .. f + k}
  OBVIOUS
<1>3. /\ \A i \in 1 .. m : p[i] = s[f + i] /\ f + i \in f + 1 .. f + k
      /\ \A i \in 1 .. n : q[i] = s[g + i] /\ g + i \in f + 1 .. f + k
      /\ \A i \in 1 .. k : r[i] = s[f + i] /\ f + i \in f + 1 .. f + k
  BY <1>1 DEF Part
<1>4. p \in [1 .. m -> T] /\ q \in [1 .. n -> T] /\ r \in [1 .. k -> T]
  BY <1>2, <1>3 DEF Part
<1> HIDE DEF p, q, r
<1>5. /\ p \in Seq(T) /\ q \in Seq(T) /\ r \in Seq(T)
      /\ Len(p) = m /\ Len(q) = n /\ Len(r) = k
  BY <1>4
<1>6. /\ Len(r) = Len(p) + Len(q)
      /\ \A i \in 1 .. Len(p) : r[i] = p[i]
      /\ \A i \in 1 .. Len(q) : r[Len(p) + i] = q[i]
  <2>1. ASSUME NEW i \in 1 .. m PROVE r[i] = p[i]
    <3>1. i \in 1 .. k
      BY <1>1
    <3> QED
      BY <1>3, <3>1
  <2>2. ASSUME NEW i \in 1 .. n PROVE r[m + i] = q[i]
    <3>1. m + i \in 1 .. k /\ f + (m + i) = g + i
      BY <1>1
    <3>2. r[m + i] = s[f + (m + i)]
      BY <1>3, <3>1
    <3> QED
      BY <1>3, <3>1, <3>2
  <2> QED
    BY <1>1, <1>5, <2>1, <2>2
<1>7. p \o q = r
  BY <1>5, <1>6, Concatenated
<1> QED
  BY <1>1, <1>7 DEF p, q, r, Joins

(* provision.sh, call by call.                                             *)
Written ==
    << Create("brain_identity"), Create("relay_identity"), Create("bot"), Allow("channel"),
       Create("namespace"), Create("queue"), Allow("sender_role"), Allow("receiver_role"),
       Allow("openai_role"), Allow("ai_role"), Create("storage"), Allow("table_role"),
       Create("registry"), Allow("relay_pull_role"), Allow("brain_pull_role"),
       Compile("relay"), Compile("brain"),
       Create("vnet"), Create("nsg"), Create("nsg_rule"), Create("subnet"), Create("cae"),
       Ensure("relay", {"bot"}), Roll("relay", {"bot"}),
       Ensure("brain", {"bot", "state"}), Roll("brain", {"state"}),
       Compile("mockmcp"),
       Ensure("jenkins", {"kind"}), Roll("jenkins", {}),
       Ensure("datadog", {"kind"}), Roll("datadog", {}),
       Ensure("argocd", {"kind"}), Roll("argocd", {}),
       Set("brain", {"tools"}), Create("endpoint"), Create("allowlist") >>

LEMMA ProvisionIsWritten == ProvisionScript = Written
<1>1. /\ Platform = Part(Written, 0, 15)
      /\ Wiring = Part(Written, 33, 3)
      /\ DeployMock("jenkins") = Part(Written, 27, 2)
      /\ DeployMock("datadog") = Part(Written, 29, 2)
      /\ DeployMock("argocd") = Part(Written, 31, 2)
      /\ Written = Part(Written, 0, 36)
  BY DEF Platform, Wiring, DeployMock, Written, Part
<1>2. << Compile("relay"), Compile("brain"),
         Create("vnet"), Create("nsg"), Create("nsg_rule"), Create("subnet"), Create("cae"),
         Ensure("relay", {"bot"}), Roll("relay", {"bot"}),
         Ensure("brain", {"bot", "state"}), Roll("brain", {"state"}),
         Compile("mockmcp") >> = Part(Written, 15, 12)
  BY DEF Written, Part
<1>3. /\ Part(Written, 15, 12) \o Part(Written, 27, 2) = Part(Written, 15, 14)
      /\ Part(Written, 15, 14) \o Part(Written, 29, 2) = Part(Written, 15, 16)
      /\ Part(Written, 15, 16) \o Part(Written, 31, 2) = Part(Written, 15, 18)
      /\ Part(Written, 0, 15) \o Part(Written, 15, 18) = Part(Written, 0, 33)
      /\ Part(Written, 0, 33) \o Part(Written, 33, 3) = Part(Written, 0, 36)
  <2>1. /\ Joins(Written, 15, 12, 2) /\ Joins(Written, 15, 14, 2)
        /\ Joins(Written, 15, 16, 2) /\ Joins(Written, 0, 15, 18)
        /\ Joins(Written, 0, 33, 3)
    BY PartsJoin
  <2>2. /\ 15 + 12 = 27 /\ 12 + 2 = 14 /\ 15 + 14 = 29 /\ 14 + 2 = 16 /\ 15 + 16 = 31
        /\ 16 + 2 = 18 /\ 0 + 15 = 15 /\ 15 + 18 = 33 /\ 0 + 33 = 33 /\ 33 + 3 = 36
    OBVIOUS
  <2> QED
    BY <2>1, <2>2, Zenon DEF Joins
<1>4. Apps = Part(Written, 15, 18)
  BY <1>1, <1>2, <1>3 DEF Apps
<1> QED
  BY <1>1, <1>3, <1>4 DEF ProvisionScript

(* redeploy.sh all, written out.                                           *)
RedeployAll ==
    << Compile("relay"), Roll("relay", {}), Compile("brain"), Roll("brain", {}),
       Compile("mockmcp"), Roll("jenkins", {}), Roll("datadog", {}), Roll("argocd", {}) >>

LEMMA RedeployIsWritten == RedeployRelay \o RedeployBrain \o RedeployMocks = RedeployAll
<1>1. /\ RedeployRelay = Part(RedeployAll, 0, 2)
      /\ RedeployBrain = Part(RedeployAll, 2, 2)
      /\ RedeployMocks = Part(RedeployAll, 4, 4)
      /\ RedeployAll = Part(RedeployAll, 0, 8)
  BY DEF RedeployRelay, RedeployBrain, RedeployMocks, RedeployAll, Part
<1>2. /\ Part(RedeployAll, 0, 2) \o Part(RedeployAll, 2, 2) = Part(RedeployAll, 0, 4)
      /\ Part(RedeployAll, 0, 4) \o Part(RedeployAll, 4, 4) = Part(RedeployAll, 0, 8)
  <2>1. Joins(RedeployAll, 0, 2, 2) /\ Joins(RedeployAll, 0, 4, 4)
    BY PartsJoin
  <2>2. 0 + 2 = 2 /\ 2 + 2 = 4 /\ 0 + 4 = 4 /\ 4 + 4 = 8
    OBVIOUS
  <2> QED
    BY <2>1, <2>2, Zenon DEF Joins
<1> QED
  BY <1>1, <1>2

LEMMA ResourceIsEverything == Resource = Everything
<1>1. ASSUME NEW r \in Resource PROVE r \in Everything
  <2>1. PICK i \in 1 .. 36 : ProvisionScript[i].on = r /\ ProvisionScript[i].op # "build"
    BY ProvisionIsWritten DEF Written, Resource
  <2> QED
    BY <2>1, ProvisionIsWritten, Apps5 DEF Everything, Written, Create, Allow, Compile, Ensure, Roll, Set, Step
<1>2. ASSUME NEW r \in Everything PROVE r \in Resource
  <2>1. \E i \in 1 .. 36 : ProvisionScript[i].on = r /\ ProvisionScript[i].op # "build"
    BY ProvisionIsWritten, Apps5 DEF Everything, Written, Create, Allow, Compile, Ensure, Roll, Set, Step
  <2>2. DOMAIN ProvisionScript = 1 .. 36
    BY ProvisionIsWritten DEF Written
  <2> QED
    BY <2>1, <2>2 DEF Resource
<1> QED
  BY <1>1, <1>2
-----------------------------------------------------------------------------
(* What the calls of the scripts have in common.                           *)

(* What an app is created with by every version of the script.             *)
BaseEnv(a) == IF a \in Mock THEN {"kind"} ELSE {"bot"}

(* A call names what it is for, and the variables of the system.           *)
WellFormed(p) ==
    /\ p.op \in Op /\ p.env \in SUBSET Group
    /\ p.op \in {"create", "allow"} => p.on \in Everything \ App
    /\ p.op \in {"ensure", "roll", "set"} => p.on \in App
    /\ p.op = "build" => p.on \in Repo
    /\ p.op = "ensure" => BaseEnv(p.on) \subseteq p.env

(* The build an app is rolled to is made earlier in the same script.       *)
BuildsFirst(s) ==
    \A i \in 1 .. Len(s) : s[i].op \in {"ensure", "roll"} =>
        \E j \in 1 .. i - 1 : s[j].op = "build" /\ s[j].on = Image(s[i].on)

(* All that is on the path of an activity is made before the endpoint.     *)
WiresLast(s) ==
    \A i \in 1 .. Len(s) : s[i].on = "endpoint" =>
        \A r \in Path :
            \E j \in 1 .. i - 1 : s[j].on = r /\ s[j].op \in {"create", "allow", "ensure"}

(* What the proofs need of a script.                                       *)
Good(s) ==
    /\ Len(s) \in Nat /\ DOMAIN s = 1 .. Len(s)
    /\ \A i \in 1 .. Len(s) : WellFormed(s[i])
    /\ BuildsFirst(s)
    /\ WiresLast(s)

LEMMA CallsWellFormed ==
    /\ \A r \in Everything \ App : WellFormed(Create(r)) /\ WellFormed(Allow(r))
    /\ \A r \in Repo : WellFormed(Compile(r))
    /\ \A a \in App, vs \in SUBSET Group :
          /\ WellFormed(Roll(a, vs)) /\ WellFormed(Set(a, vs))
          /\ BaseEnv(a) \subseteq vs => WellFormed(Ensure(a, vs))
BY DEF WellFormed, Op, Create, Allow, Compile, Ensure, Roll, Set, Step

LEMMA ProvisionGood == Good(ProvisionScript)
<1> DEFINE s == ProvisionScript
<1>1. Len(s) = 36 /\ DOMAIN s = 1 .. 36
  BY ProvisionIsWritten DEF Written
<1>2. ASSUME NEW i \in 1 .. 36 PROVE WellFormed(s[i])
  <2>1. {"bot"} \in SUBSET Group /\ {"bot", "state"} \in SUBSET Group /\ {"state"} \in SUBSET Group
        /\ {"kind"} \in SUBSET Group /\ {"tools"} \in SUBSET Group /\ {} \in SUBSET Group
    BY DEF Group
  <2>2. /\ BaseEnv("relay") = {"bot"} /\ BaseEnv("brain") = {"bot"}
        /\ BaseEnv("jenkins") = {"kind"} /\ BaseEnv("datadog") = {"kind"}
        /\ BaseEnv("argocd") = {"kind"}
    BY DEF BaseEnv, Mock
  <2>3. CASE i \in 1 .. 22
    BY <2>3, ProvisionIsWritten, CallsWellFormed, Apps5 DEF Written, Everything
  <2>4. CASE i \in 23 .. 36
    BY <2>1, <2>2, <2>4, ProvisionIsWritten, CallsWellFormed, Apps5 DEF Written, Everything
  <2> QED
    BY <2>3, <2>4
<1>3. BuildsFirst(s)
  <2>1. ASSUME NEW i \in 1 .. 36, s[i].op \in {"ensure", "roll"}
        PROVE  \E j \in 1 .. i - 1 : s[j].op = "build" /\ s[j].on = Image(s[i].on)
    <3>1. /\ s[16].op = "build" /\ s[16].on = "relay"
          /\ s[17].op = "build" /\ s[17].on = "brain"
          /\ s[27].op = "build" /\ s[27].on = "mockmcp"
      BY ProvisionIsWritten DEF Written, Compile, Step
    <3>2. \/ i \in {23, 24} /\ s[i].on = "relay"
          \/ i \in {25, 26} /\ s[i].on = "brain"
          \/ i \in 28 .. 33 /\ s[i].on \in Mock
      BY <2>1, ProvisionIsWritten DEF Written, Mock, Create, Allow, Compile, Ensure, Roll, Set, Step
    <3> QED
      BY <3>1, <3>2 DEF Image, Mock
  <2> QED
    BY <1>1, <2>1 DEF BuildsFirst
<1>4. WiresLast(s)
  <2>1. ASSUME NEW i \in 1 .. 36, s[i].on = "endpoint" PROVE i = 35
    BY <2>1, ProvisionIsWritten DEF Written, Create, Allow, Compile, Ensure, Roll, Set, Step
  <2>2. ASSUME NEW r \in Path
        PROVE  \E j \in 1 .. 34 : s[j].on = r /\ s[j].op \in {"create", "allow", "ensure"}
    <3>1. /\ s[1] = Create("brain_identity") /\ s[2] = Create("relay_identity")
          /\ s[3] = Create("bot") /\ s[4] = Allow("channel")
          /\ s[5] = Create("namespace") /\ s[6] = Create("queue")
          /\ s[7] = Allow("sender_role") /\ s[8] = Allow("receiver_role")
          /\ s[13] = Create("registry")
          /\ s[14] = Allow("relay_pull_role") /\ s[15] = Allow("brain_pull_role")
          /\ s[22] = Create("cae")
          /\ s[23] = Ensure("relay", {"bot"}) /\ s[25] = Ensure("brain", {"bot", "state"})
      BY ProvisionIsWritten DEF Written
    <3> QED
      BY <2>2, <3>1 DEF Path, Create, Allow, Ensure, Step
  <2>3. ASSUME NEW i \in 1 .. 36, s[i].on = "endpoint", NEW r \in Path
        PROVE  \E j \in 1 .. i - 1 : s[j].on = r /\ s[j].op \in {"create", "allow", "ensure"}
    <3>1. i - 1 = 34
      BY <2>1, <2>3
    <3> QED
      BY <2>2, <3>1
  <2> QED
    BY <1>1, <2>3 DEF WiresLast
<1> QED
  BY <1>1, <1>2, <1>3, <1>4 DEF Good

(* A redeploy builds and rolls.                                            *)
LEMMA RedeployGood == ASSUME NEW s \in Script, s # ProvisionScript PROVE Good(s)
<1>1. ASSUME NEW n \in Nat, Len(s) = n, DOMAIN s = 1 .. n, BuildsFirst(s),
             \A i \in 1 .. n :
                \/ \E r \in Repo : s[i] = Compile(r)
                \/ \E a \in App : s[i] = Roll(a, {})
      PROVE  Good(s)
  <2>1. ASSUME NEW i \in 1 .. n PROVE WellFormed(s[i]) /\ s[i].on # "endpoint"
    <3>1. CASE \E r \in Repo : s[i] = Compile(r)
      <4>1. PICK r \in Repo : s[i] = Compile(r)
        BY <3>1
      <4>2. r # "endpoint"
        BY Apps5
      <4> QED
        BY <4>1, <4>2, CallsWellFormed DEF Compile, Step
    <3>2. CASE \E a \in App : s[i] = Roll(a, {})
      <4>1. PICK a \in App : s[i] = Roll(a, {})
        BY <3>2
      <4>2. a # "endpoint" /\ {} \in SUBSET Group
        BY Apps5
      <4>3. WellFormed(Roll(a, {}))
        BY <4>2, CallsWellFormed
      <4> QED
        BY <4>1, <4>2, <4>3 DEF Roll, Step
    <3> QED
      BY <1>1, <3>1, <3>2
  <2> QED
    BY <1>1, <2>1 DEF Good, WiresLast
<1>2. CASE s = RedeployRelay
  <2>1. s = << Compile("relay"), Roll("relay", {}) >>
    BY <1>2 DEF RedeployRelay
  <2>2. /\ Len(s) = 2 /\ DOMAIN s = 1 .. 2
        /\ \A i \in 1 .. 2 : (\E r \in Repo : s[i] = Compile(r)) \/ \E a \in App : s[i] = Roll(a, {})
    BY <2>1, Apps5
  <2>3. BuildsFirst(s)
    BY <2>1, Apps5 DEF BuildsFirst, Compile, Roll, Step
  <2> QED
    BY <1>1, <2>2, <2>3
<1>3. CASE s = RedeployBrain
  <2>1. s = << Compile("brain"), Roll("brain", {}) >>
    BY <1>3 DEF RedeployBrain
  <2>2. /\ Len(s) = 2 /\ DOMAIN s = 1 .. 2
        /\ \A i \in 1 .. 2 : (\E r \in Repo : s[i] = Compile(r)) \/ \E a \in App : s[i] = Roll(a, {})
    BY <2>1, Apps5
  <2>3. BuildsFirst(s)
    BY <2>1, Apps5 DEF BuildsFirst, Compile, Roll, Step
  <2> QED
    BY <1>1, <2>2, <2>3
<1>4. CASE s = RedeployMocks
  <2>1. s = << Compile("mockmcp"), Roll("jenkins", {}), Roll("datadog", {}), Roll("argocd", {}) >>
    BY <1>4 DEF RedeployMocks
  <2>2. /\ Len(s) = 4 /\ DOMAIN s = 1 .. 4
        /\ \A i \in 1 .. 4 : (\E r \in Repo : s[i] = Compile(r)) \/ \E a \in App : s[i] = Roll(a, {})
    BY <2>1, Apps5
  <2>3. BuildsFirst(s)
    BY <2>1, Apps5 DEF BuildsFirst, Compile, Roll, Step
  <2> QED
    BY <1>1, <2>2, <2>3
<1>5. CASE s = RedeployAll
  <2>1. /\ Len(s) = 8 /\ DOMAIN s = 1 .. 8
        /\ \A i \in 1 .. 8 : (\E r \in Repo : s[i] = Compile(r)) \/ \E a \in App : s[i] = Roll(a, {})
    BY <1>5, Apps5 DEF RedeployAll
  <2>2. BuildsFirst(s)
    <3>1. /\ s[1] = Compile("relay") /\ s[3] = Compile("brain") /\ s[5] = Compile("mockmcp")
          /\ s[2] = Roll("relay", {}) /\ s[4] = Roll("brain", {})
          /\ s[6] = Roll("jenkins", {}) /\ s[7] = Roll("datadog", {}) /\ s[8] = Roll("argocd", {})
      BY <1>5 DEF RedeployAll
    <3> QED
      BY <2>1, <3>1, Apps5 DEF BuildsFirst, Compile, Roll, Step
  <2> QED
    BY <1>1, <2>1, <2>2
<1> QED
  BY <1>2, <1>3, <1>4, <1>5, RedeployIsWritten DEF Script

LEMMA ScriptGood == ASSUME NEW s \in Script PROVE Good(s)
BY ProvisionGood, RedeployGood
-----------------------------------------------------------------------------
(* The inductive invariant.                                                *)

(* What is so once the run has passed the call p.                          *)
Did(p) ==
    /\ p.op \in {"create", "ensure", "roll", "set"} => p.on \in exists
    /\ p.op = "allow" => p.on \in exists \cup masked
    /\ p.op = "build" => <<p.on, tag>> \in pushed
    /\ p.op = "roll" => image[p.on] = tag
    /\ p.op \in {"roll", "set"} => p.env \subseteq env[p.on]

(* Every call before the one the run is at has been passed, and all of     *)
(* them when the run has got to its end.                                   *)
Progress ==
    /\ at # 0 => ~finished /\ \A i \in 1 .. at - 1 : Did(script[i])
    /\ finished => \A i \in 1 .. Len(script) : Did(script[i])

(* Who is there has what it was created with.                              *)
Based == \A a \in exists \cap App : BaseEnv(a) \subseteq env[a]

PInv == TypeOK /\ Based /\ RunsPushedImages /\ WiredIsServed /\ Progress

(* What no call takes back.                                                *)
Grows ==
    /\ tag' = tag
    /\ exists \subseteq exists' /\ masked \subseteq masked' /\ pushed \subseteq pushed'
    /\ \A a \in exists \cap App :
          /\ env[a] \subseteq env'[a]
          /\ image'[a] = image[a] \/ image'[a] = tag

LEMMA GrowsKeepsDid ==
    ASSUME Grows, NEW p, WellFormed(p), Did(p)
    PROVE  Did(p)'
BY DEF Grows, Did, WellFormed

(* A call that is made when those before it were passed keeps the state in *)
(* order, takes nothing back, and leaves what it is for.                   *)
Fits ==
    /\ TypeOK /\ Based /\ RunsPushedImages /\ WiredIsServed
    /\ at # 0 /\ at \in 1 .. Len(script)
    /\ \A i \in 1 .. at - 1 : Did(script[i])

LEMMA DoesFits ==
    ASSUME Fits, NEW s, s = script[at], Does(s), tag' = tag
    PROVE  /\ exists' \subseteq Resource
           /\ image' \in [App -> 0 .. tag]
           /\ env' \in [App -> SUBSET Group]
           /\ pushed' \subseteq Repo \X (0 .. tag)
           /\ masked' \subseteq Resource /\ missed' \subseteq Resource
           /\ (Based /\ RunsPushedImages /\ WiredIsServed)'
           /\ Grows
           /\ Did(s)'
<1>1. /\ Good(script) /\ WellFormed(s)
      /\ exists \subseteq Everything /\ masked \subseteq Everything /\ missed \subseteq Everything
      /\ Resource = Everything
      /\ image \in [App -> 0 .. tag] /\ env \in [App -> SUBSET Group]
      /\ pushed \subseteq Repo \X (0 .. tag) /\ tag \in Nat
  BY ScriptGood, ResourceIsEverything DEF Fits, TypeOK, Good, Group
<1>2. CASE s.op \in {"create", "allow"} /\ Creates(s.on)
  <2>1. /\ exists' = exists \cup {s.on} /\ s.on \in Everything \ App
        /\ missed' = IF s.on = "endpoint" THEN masked \cap Path ELSE missed
        /\ UNCHANGED <<image, env, pushed, masked>>
    BY <1>1, <1>2 DEF Creates, WellFormed
  <2>2. WiredIsServed'
    <3>1. CASE s.on = "endpoint"
      <4>1. \A r \in Path : \E j \in 1 .. at - 1 :
               script[j].on = r /\ script[j].op \in {"create", "allow", "ensure"}
        BY <1>1, <3>1 DEF Good, WiresLast, Fits
      <4>2. \A r \in Path : r \in exists \cup masked
        BY <4>1 DEF Fits, Did
      <4> QED
        BY <2>1, <3>1, <4>2 DEF WiredIsServed
    <3>2. CASE s.on # "endpoint"
      BY <2>1, <3>2 DEF Fits, WiredIsServed
    <3> QED
      BY <3>1, <3>2
  <2>3. (Based /\ RunsPushedImages)'
    BY <2>1 DEF Fits, Based, RunsPushedImages
  <2>4. Grows /\ Did(s)'
    BY <1>1, <1>2, <2>1 DEF Grows, Did
  <2> QED
    BY <1>1, <2>1, <2>2, <2>3, <2>4
<1>3. CASE s.op = "build" /\ Builds(s.on)
  <2>1. /\ pushed' = pushed \cup {<<s.on, tag>>} /\ s.on \in Repo
        /\ UNCHANGED <<exists, image, env, masked, missed>>
    BY <1>1, <1>3 DEF Builds, WellFormed
  <2>2. (Based /\ RunsPushedImages /\ WiredIsServed)'
    BY <2>1 DEF Fits, Based, RunsPushedImages, WiredIsServed
  <2>3. Grows /\ Did(s)'
    BY <1>1, <1>3, <2>1 DEF Grows, Did
  <2> QED
    BY <1>1, <2>1, <2>2, <2>3
<1>4. CASE s.op \in {"ensure", "roll"} => <<Image(s.on), tag>> \in pushed
  <2>1. CASE s.op = "ensure" /\ Ensures(s.on, s.env)
    <3>1. CASE s.on \in exists
      <4>1. UNCHANGED <<exists, image, env, pushed, masked, missed>>
        BY <2>1, <3>1 DEF Ensures
      <4>2. (Based /\ RunsPushedImages /\ WiredIsServed)'
        BY <4>1 DEF Fits, Based, RunsPushedImages, WiredIsServed
      <4>3. Grows /\ Did(s)'
        BY <2>1, <3>1, <4>1 DEF Grows, Did
      <4> QED
        BY <1>1, <4>1, <4>2, <4>3
    <3>2. CASE s.on \notin exists
      <4>1. /\ exists' = exists \cup {s.on} /\ s.on \in App
            /\ image' = [image EXCEPT ![s.on] = tag]
            /\ env' = [env EXCEPT ![s.on] = s.env]
            /\ UNCHANGED <<pushed, masked, missed>>
            /\ s.env \in SUBSET Group /\ BaseEnv(s.on) \subseteq s.env
        BY <1>1, <2>1, <3>2 DEF Ensures, WellFormed
      <4>2. /\ image'[s.on] = tag /\ env'[s.on] = s.env
            /\ \A a \in exists \cap App : image'[a] = image[a] /\ env'[a] = env[a]
        BY <1>1, <3>2, <4>1
      <4>3. Based' /\ RunsPushedImages'
        BY <1>4, <2>1, <4>1, <4>2 DEF Fits, Based, RunsPushedImages
      <4>4. WiredIsServed'
        BY <4>1, Apps5 DEF Fits, WiredIsServed
      <4>5. Grows /\ Did(s)'
        BY <2>1, <4>1, <4>2 DEF Grows, Did
      <4>6. image' \in [App -> 0 .. tag]
        BY <1>1, <4>1
      <4>7. env' \in [App -> SUBSET Group]
        BY <1>1, <4>1
      <4>8. exists' \subseteq Resource
        BY <1>1, <4>1 DEF Everything
      <4> QED
        BY <1>1, <4>1, <4>3, <4>4, <4>5, <4>6, <4>7, <4>8
    <3> QED
      BY <3>1, <3>2
  <2>2. ASSUME NEW b \in 0 .. tag, Updates(s.on, b, s.env),
               (s.op = "roll" /\ b = tag) \/ (s.op = "set" /\ b = image[s.on])
        PROVE  /\ exists' \subseteq Resource
               /\ image' \in [App -> 0 .. tag]
               /\ env' \in [App -> SUBSET Group]
               /\ pushed' \subseteq Repo \X (0 .. tag)
               /\ masked' \subseteq Resource /\ missed' \subseteq Resource
               /\ (Based /\ RunsPushedImages /\ WiredIsServed)'
               /\ Grows
               /\ Did(s)'
    <3>1. /\ s.on \in exists \cap App /\ s.env \in SUBSET Group
          /\ image' = [image EXCEPT ![s.on] = b]
          /\ env' = [env EXCEPT ![s.on] = env[s.on] \cup s.env]
          /\ UNCHANGED <<exists, pushed, masked, missed>>
      BY <1>1, <2>2 DEF Updates, WellFormed
    <3>2. /\ image'[s.on] = b /\ env'[s.on] = env[s.on] \cup s.env
          /\ \A a \in App \ {s.on} : image'[a] = image[a] /\ env'[a] = env[a]
      BY <1>1, <3>1
    <3>3. \A a \in App : env[a] \subseteq env'[a]
      BY <3>2
    <3>4. <<Image(s.on), b>> \in pushed
      BY <1>4, <2>2, <3>1 DEF Fits, RunsPushedImages
    <3>5. Based' /\ RunsPushedImages' /\ WiredIsServed'
      BY <3>1, <3>2, <3>3, <3>4 DEF Fits, Based, RunsPushedImages, WiredIsServed
    <3>6. Grows /\ Did(s)'
      BY <2>2, <3>1, <3>2, <3>3 DEF Grows, Did
    <3> QED
      BY <1>1, <3>1, <3>5, <3>6
  <2>3. CASE s.op = "roll" /\ Updates(s.on, tag, s.env)
    <3>1. tag \in 0 .. tag
      BY <1>1
    <3> QED
      BY <2>2, <2>3, <3>1
  <2>4. CASE s.op = "set" /\ Updates(s.on, image[s.on], s.env)
    BY <1>1, <2>2, <2>4 DEF WellFormed
  <2> QED
    BY <1>2, <1>3, <2>1, <2>3, <2>4 DEF Does
<1>5. s.op \in {"ensure", "roll"} => <<Image(s.on), tag>> \in pushed
  BY <1>1 DEF Good, BuildsFirst, Fits, Did
<1> QED
  BY <1>4, <1>5

LEMMA ConflictsFit ==
    ASSUME Fits, NEW s, s = script[at], Conflicts(s), tag' = tag
    PROVE  /\ UNCHANGED <<exists, image, env, pushed, missed>>
           /\ masked' \subseteq Resource /\ missed' \subseteq Resource
           /\ (Based /\ RunsPushedImages /\ WiredIsServed)'
           /\ Grows
           /\ Did(s)'
<1>1. /\ WellFormed(s) /\ s.op = "allow" /\ Resource = Everything
      /\ masked' = masked \cup ({s.on} \ exists)
      /\ UNCHANGED <<exists, image, env, pushed, missed>>
  BY ScriptGood, ResourceIsEverything DEF Fits, TypeOK, Good, Conflicts
<1>2. s.on \in Everything
  BY <1>1 DEF WellFormed
<1>3. masked' \subseteq Resource /\ missed' \subseteq Resource
  BY <1>1, <1>2 DEF Fits, TypeOK
<1>4. (Based /\ RunsPushedImages /\ WiredIsServed)'
  BY <1>1 DEF Fits, Based, RunsPushedImages, WiredIsServed
<1>5. Grows /\ Did(s)'
  BY <1>1 DEF Grows, Did
<1> QED
  BY <1>1, <1>3, <1>4, <1>5
-----------------------------------------------------------------------------
(* The invariant is inductive.                                             *)

LEMMA InitPInv == Init => PInv
<1> SUFFICES ASSUME Init PROVE PInv
  OBVIOUS
<1> USE DEF Init
<1>1. 0 \in 0 .. MaxRuns /\ MaxRuns \in Nat
  BY ProvisionAssumption
<1>2. exists \subseteq Everything
  BY Apps5 DEF Phase1, Path, Everything
<1>3. Good(ProvisionScript) /\ ProvisionScript \in Script
  BY ProvisionGood DEF Script
<1>4. exists \cap App \subseteq {"relay", "brain"}
  BY Apps5 DEF Phase1, Path
<1>5. TypeOK
  <2>1. at \in 0 .. Len(script)
    BY <1>3 DEF Good
  <2>2. pushed \subseteq Repo \X (0 .. tag)
    BY <1>4, Apps5
  <2>3. env \in [App -> SUBSET {"bot", "state", "tools", "kind"}]
    OBVIOUS
  <2>4. image \in [App -> 0 .. tag]
    OBVIOUS
  <2> QED
    BY <1>1, <1>2, <1>3, <2>1, <2>2, <2>3, <2>4, ResourceIsEverything DEF TypeOK
<1>6. Based
  BY <1>4 DEF Based, BaseEnv, Mock
<1>7. RunsPushedImages
  BY <1>4, Apps5 DEF RunsPushedImages
<1>8. WiredIsServed
  BY DEF WiredIsServed, Phase1
<1>9. Progress
  BY DEF Progress
<1> QED
  BY <1>5, <1>6, <1>7, <1>8, <1>9 DEF PInv

LEMMA RunKeeps == ASSUME PInv, Run PROVE PInv'
<1> USE DEF PInv, Run
<1>1. /\ script' \in Script /\ Good(script') /\ tag \in Nat /\ tag' = tag + 1
      /\ MaxRuns \in Nat /\ tag' \in 0 .. MaxRuns /\ tag \in 0 .. tag' /\ at' = 1 /\ ~finished'
      /\ UNCHANGED <<exists, image, env, pushed, missed>> /\ masked' = {}
  BY ScriptGood, ProvisionAssumption DEF TypeOK
<1>2. 0 .. tag \subseteq 0 .. tag'
  BY <1>1
<1>3. Len(script') \in Nat \ {0}
  <2>1. CASE script' = ProvisionScript
    BY <2>1, ProvisionIsWritten DEF Written
  <2>2. CASE script' = RedeployAll
    BY <2>2 DEF RedeployAll
  <2>3. CASE script' \in {RedeployRelay, RedeployBrain, RedeployMocks}
    BY <2>3 DEF RedeployRelay, RedeployBrain, RedeployMocks
  <2> QED
    BY <1>1, <2>1, <2>2, <2>3, RedeployIsWritten DEF Script
<1>4. TypeOK'
  <2>1. image' \in [App -> 0 .. tag']
    BY <1>1, <1>2 DEF TypeOK
  <2>2. pushed' \subseteq Repo \X (0 .. tag')
    BY <1>1, <1>2 DEF TypeOK
  <2>3. at' \in 0 .. Len(script')
    BY <1>1, <1>3
  <2> QED
    BY <1>1, <2>1, <2>2, <2>3 DEF TypeOK
<1>5. Based' /\ RunsPushedImages' /\ WiredIsServed'
  BY <1>1 DEF Based, RunsPushedImages, WiredIsServed
<1>6. Progress'
  BY <1>1 DEF Progress
<1> QED
  BY <1>4, <1>5, <1>6

LEMMA AtIsFit == ASSUME PInv, at # 0 PROVE Fits /\ ~finished /\ Good(script)
<1>1. Good(script)
  BY ScriptGood DEF PInv, TypeOK
<1>2. at \in 1 .. Len(script)
  BY <1>1 DEF PInv, TypeOK, Good
<1> QED
  BY <1>1, <1>2 DEF PInv, Progress, Fits

(* Going on after a call that has done what it is for.                     *)
LEMMA GoesKeepsProgress ==
    ASSUME Fits, Good(script), Grows, NEW s, s = script[at], Did(s)', Goes
    PROVE  Progress' /\ at' \in 0 .. Len(script)
<1>1. /\ at \in 1 .. Len(script) /\ Len(script) \in Nat /\ script' = script
      /\ at' = IF at < Len(script) THEN at + 1 ELSE 0
  BY DEF Fits, Good, Goes
<1>2. ASSUME NEW i \in 1 .. at PROVE Did(script[i])'
  <2>1. PICK p : p = script[i]
    OBVIOUS
  <2>2. Did(p)'
    <3>1. CASE i = at
      BY <2>1, <3>1
    <3>2. CASE i # at
      <4>1. i \in 1 .. at - 1 /\ i \in 1 .. Len(script)
        BY <1>1, <3>2
      <4>2. Did(p) /\ WellFormed(p)
        BY <2>1, <4>1 DEF Fits, Good
      <4> QED
        BY <4>2, GrowsKeepsDid
    <3> QED
      BY <3>1, <3>2
  <2>3. script'[i] = p
    BY <1>1, <2>1
  <2> QED
    BY <2>2, <2>3 DEF Did
<1>3. CASE at < Len(script)
  <2>1. at' = at + 1 /\ at' - 1 = at
    BY <1>1, <1>3
  <2>2. ~finished'
    <3>1. at # Len(script)
      BY <1>1, <1>3
    <3>2. finished' = (at = Len(script))
      BY DEF Goes
    <3> QED
      BY <3>1, <3>2, Zenon
  <2>3. \A i \in 1 .. at' - 1 : Did(script[i])'
    BY <1>2, <2>1
  <2>4. Progress'
    BY <2>2, <2>3, Zenon DEF Progress
  <2>5. at' \in 0 .. Len(script)
    BY <1>1, <1>3
  <2> QED
    BY <2>4, <2>5
<1>4. CASE at = Len(script)
  <2>1. at' = 0 /\ Len(script') = at
    BY <1>1, <1>4
  <2> QED
    BY <1>2, <2>1 DEF Progress
<1> QED
  BY <1>1, <1>3, <1>4

LEMMA SucceedKeeps == ASSUME PInv, Succeed PROVE PInv'
<1>1. /\ Fits /\ Good(script) /\ UNCHANGED <<script, tag>> /\ at # 0 /\ Does(script[at])
      /\ Goes /\ finished' \in BOOLEAN
  BY AtIsFit DEF Succeed, Goes
<1>2. PICK s : s = script[at]
  OBVIOUS
<1>3. /\ exists' \subseteq Resource
      /\ image' \in [App -> 0 .. tag]
      /\ env' \in [App -> SUBSET Group]
      /\ pushed' \subseteq Repo \X (0 .. tag)
      /\ masked' \subseteq Resource /\ missed' \subseteq Resource
      /\ (Based /\ RunsPushedImages /\ WiredIsServed)'
      /\ Grows
      /\ Did(s)'
  BY <1>1, <1>2, DoesFits
<1>4. Progress' /\ at' \in 0 .. Len(script)
  BY <1>1, <1>2, <1>3, GoesKeepsProgress
<1>5. TypeOK'
  BY <1>1, <1>3, <1>4 DEF PInv, TypeOK, Group
<1> QED
  BY <1>3, <1>4, <1>5 DEF PInv

LEMMA ConflictKeeps == ASSUME PInv, Conflict PROVE PInv'
<1>1. /\ Fits /\ Good(script) /\ UNCHANGED <<script, tag>> /\ at # 0 /\ Conflicts(script[at])
      /\ Goes /\ finished' \in BOOLEAN
  BY AtIsFit DEF Conflict, Goes
<1>2. PICK s : s = script[at]
  OBVIOUS
<1>3. /\ UNCHANGED <<exists, image, env, pushed, missed>>
      /\ masked' \subseteq Resource /\ missed' \subseteq Resource
      /\ (Based /\ RunsPushedImages /\ WiredIsServed)'
      /\ Grows
      /\ Did(s)'
  BY <1>1, <1>2, ConflictsFit
<1>4. Progress' /\ at' \in 0 .. Len(script)
  BY <1>1, <1>2, <1>3, GoesKeepsProgress
<1>5. TypeOK'
  BY <1>1, <1>3, <1>4 DEF PInv, TypeOK
<1> QED
  BY <1>3, <1>4, <1>5 DEF PInv

LEMMA FailKeeps == ASSUME PInv, Fail PROVE PInv'
<1>1. /\ Fits /\ ~finished /\ Good(script) /\ UNCHANGED <<script, tag, finished>> /\ at' = 0
  BY AtIsFit DEF Fail
<1>2. Progress' /\ at' \in 0 .. Len(script)
  BY <1>1 DEF Progress, Good
<1>3. CASE UNCHANGED <<exists, image, env, pushed, masked, missed>>
  <2>1. TypeOK'
    BY <1>1, <1>2, <1>3 DEF PInv, TypeOK
  <2>2. (Based /\ RunsPushedImages /\ WiredIsServed)'
    BY <1>1, <1>3 DEF PInv, Based, RunsPushedImages, WiredIsServed
  <2> QED
    BY <1>2, <2>1, <2>2 DEF PInv
<1>4. CASE Does(script[at])
  <2>1. PICK s : s = script[at]
    OBVIOUS
  <2>2. /\ exists' \subseteq Resource
        /\ image' \in [App -> 0 .. tag]
        /\ env' \in [App -> SUBSET Group]
        /\ pushed' \subseteq Repo \X (0 .. tag)
        /\ masked' \subseteq Resource /\ missed' \subseteq Resource
        /\ (Based /\ RunsPushedImages /\ WiredIsServed)'
    BY <1>1, <1>4, <2>1, DoesFits
  <2>3. TypeOK'
    BY <1>1, <1>2, <2>2 DEF PInv, TypeOK, Group
  <2> QED
    BY <1>2, <2>2, <2>3 DEF PInv
<1> QED
  BY <1>3, <1>4 DEF Fail

LEMMA NextKeeps == ASSUME PInv, [Next]_vars PROVE PInv'
<1>1. CASE Run
  BY <1>1, RunKeeps
<1>2. CASE Succeed
  BY <1>2, SucceedKeeps
<1>3. CASE Conflict
  BY <1>3, ConflictKeeps
<1>4. CASE Fail
  BY <1>4, FailKeeps
<1>5. CASE UNCHANGED vars
  <2> USE <1>5 DEF vars
  <2>1. TypeOK'
    BY DEF PInv, TypeOK
  <2>2. (Based /\ RunsPushedImages /\ WiredIsServed)'
    BY DEF PInv, Based, RunsPushedImages, WiredIsServed
  <2>3. Progress'
    BY DEF PInv, Progress, Did
  <2> QED
    BY <2>1, <2>2, <2>3 DEF PInv
<1> QED
  BY <1>1, <1>2, <1>3, <1>4, <1>5 DEF Next

LEMMA ProvisionInvariant == Spec => []PInv
<1>1. PInv /\ [Next]_vars => PInv'
  BY NextKeeps
<1> QED
  BY <1>1, InitPInv, PTL DEF Spec
-----------------------------------------------------------------------------
(* What the invariant gives.                                               *)

LEMMA PassedIsComplete == PInv => DoneIsComplete
<1> SUFFICES ASSUME PInv, finished, script = ProvisionScript
             PROVE  /\ Resource \subseteq exists \cup masked
                    /\ \A a \in App : image[a] = tag /\ Env(a) \subseteq env[a]
  BY DEF DoneIsComplete
<1>1. script = Written /\ Len(script) = 36 /\ \A i \in 1 .. 36 : Did(script[i]) /\ WellFormed(script[i])
  BY ProvisionIsWritten, ProvisionGood DEF PInv, Progress, Written, Good
<1>2. ASSUME NEW r \in Resource PROVE r \in exists \cup masked
  <2>1. PICK i \in 1 .. 36 : script[i].on = r /\ script[i].op # "build"
    BY <1>1 DEF Resource, Written
  <2>2. Did(script[i]) /\ script[i].op \in Op
    BY <1>1 DEF WellFormed
  <2> QED
    BY <2>1, <2>2 DEF Did, Op
<1>3. /\ Did(Roll("relay", {"bot"})) /\ Did(Roll("brain", {"state"}))
      /\ Did(Roll("jenkins", {})) /\ Did(Roll("datadog", {})) /\ Did(Roll("argocd", {}))
      /\ Did(Set("brain", {"tools"}))
  <2>1. /\ script[24] = Roll("relay", {"bot"}) /\ script[26] = Roll("brain", {"state"})
        /\ script[29] = Roll("jenkins", {}) /\ script[31] = Roll("datadog", {})
        /\ script[33] = Roll("argocd", {}) /\ script[34] = Set("brain", {"tools"})
    BY <1>1 DEF Written
  <2> QED
    BY <1>1, <2>1
<1>4. ASSUME NEW a \in App PROVE image[a] = tag /\ a \in exists
  BY <1>3, Apps5 DEF Did, Roll, Step
<1>5. /\ {"bot"} \subseteq env["relay"]
      /\ {"bot"} \subseteq env["brain"] /\ {"state"} \subseteq env["brain"]
      /\ {"tools"} \subseteq env["brain"]
      /\ {"kind"} \subseteq env["jenkins"] /\ {"kind"} \subseteq env["datadog"]
      /\ {"kind"} \subseteq env["argocd"]
  <2>1. /\ {"state"} \subseteq env["brain"] /\ {"tools"} \subseteq env["brain"]
    BY <1>3 DEF Did, Roll, Set, Step
  <2>2. \A a \in App : BaseEnv(a) \subseteq env[a]
    BY <1>4 DEF PInv, Based
  <2> QED
    BY <2>1, <2>2, Apps5 DEF BaseEnv, Mock
<1>6. ASSUME NEW a \in App, NEW i \in 1 .. 36, script[i].on = a
      PROVE  script[i].env \subseteq env[a]
  <2>1. CASE script[i].op \in {"create", "allow", "build"}
    BY <1>1, <2>1, <1>6 DEF Written, Create, Allow, Compile, Ensure, Roll, Set, Step
  <2>2. CASE script[i].op \in {"roll", "set"}
    BY <1>1, <1>6, <2>2 DEF Did
  <2>3. CASE script[i].op = "ensure"
    <3>1. i \in {23, 25, 28, 30, 32}
      BY <1>1, <2>3 DEF Written, Create, Allow, Compile, Roll, Set, Step
    <3>2. /\ script[23] = Ensure("relay", {"bot"}) /\ script[25] = Ensure("brain", {"bot", "state"})
          /\ script[28] = Ensure("jenkins", {"kind"}) /\ script[30] = Ensure("datadog", {"kind"})
          /\ script[32] = Ensure("argocd", {"kind"})
      BY <1>1 DEF Written
    <3>3. \/ a = "relay" /\ script[i].env = {"bot"}
          \/ a = "brain" /\ script[i].env = {"bot", "state"}
          \/ a \in Mock /\ script[i].env = {"kind"}
      BY <1>6, <3>1, <3>2 DEF Ensure, Step, Mock
    <3> QED
      BY <1>5, <3>3 DEF Mock
  <2> QED
    BY <1>1, <2>1, <2>2, <2>3 DEF WellFormed, Op
<1>7. ASSUME NEW a \in App PROVE Env(a) \subseteq env[a]
  <2>1. ASSUME NEW v \in Env(a) PROVE v \in env[a]
    <3>1. PICK i \in 1 .. 36 : script[i].on = a /\ v \in script[i].env
      BY <1>1, <2>1 DEF Env, Written
    <3> QED
      BY <1>6, <3>1
  <2> QED
    BY <2>1
<1> QED
  BY <1>2, <1>4, <1>7

(* provision.sh:16-20, "fills any gap from a partial earlier run": a run   *)
(* of it that gets to its end leaves every resource, but what was answered *)
(* with a conflict (lib.sh:71), every app on this run's build, and every   *)
(* variable, whatever the runs before it left, however many there were.    *)
THEOREM RunsFillTheGaps == Spec => []DoneIsComplete
BY ProvisionInvariant, PassedIsComplete, PTL

(* A build that failed is noticed before anything is rolled                *)
(* (lib.sh:107-122): in no state does an app run an image the registry     *)
(* has not got.                                                            *)
THEOREM NothingRunsUnpushed == Spec => []RunsPushedImages
<1>1. PInv => RunsPushedImages
  BY DEF PInv
<1> QED
  BY <1>1, ProvisionInvariant, PTL

(* The bot is pointed at the relay last (provision.sh:347-348): where it   *)
(* is, all of the path of its activities to a brain is there, roles        *)
(* included, but what the run that wired it was answered with a conflict   *)
(* for and was not there (lib.sh:71).                                      *)
THEOREM BotIsWiredLast == Spec => []WiredIsServed
<1>1. PInv => WiredIsServed
  BY DEF PInv
<1> QED
  BY <1>1, ProvisionInvariant, PTL
=============================================================================
