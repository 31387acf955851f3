--------------------------- MODULE StartupProofs ---------------------------
(***************************************************************************)
(* The deployment holds together for any number of peers and of runs,      *)
(* whichever of them fail or die at whatever call.                         *)
(***************************************************************************)
EXTENDS Startup, TLAPS

Start == server.command = "start"

(* How far a run has come, and what it has then done to the network.       *)
Early    == {"sdk", "save", "join"}
Late     == {"client", "event"}
Deployed == joined = Peers /\ instantiated # "none"

Progress ==
    /\ At("down") => server = Down
    /\ ~ At("down") => run # 0
    /\ ~ At("serving") => ~ server.faulted /\ ~ server.event
    /\ server.client => server.pc \in {"event", "serving"}
    /\ At("event") => server.client
    /\ server.pc \in Late \cup {"package", "install", "instantiate", "targets", "upgrade"} =>
          server.initialized
    /\ server.pc \in {"save", "join", "instantiate"} => Start
    /\ server.pc \in {"targets", "upgrade"} => Upgrade
    /\ server.pc = "install" => Start \/ Upgrade

Effects ==
    /\ server.pc \in {"sdk", "save"} => channel # run
    /\ Start /\ server.pc \notin Early \cup {"down", "serving"} => channel = run /\ joined = Peers
    /\ At("join") => channel = run
    /\ At("instantiate") => \A p \in Peers : "1.0" \in installed[p]
    /\ Start /\ server.pc \in Late => Deployed
    /\ Upgrade /\ server.pc \in Late \cup {"targets", "upgrade"} =>
          \A p \in Peers : "1.5" \in installed[p]
    /\ Start /\ server.event => channel = run

(* What the network has seen determines how far the run is; this makes the   *)
(* properties inductive.                                                    *)
StartupInv ==
    /\ TypeOK
    /\ RunningIsInstalled
    /\ ReadyMeansDeployed
    /\ OnlyTheCreatorStarts
    /\ Progress
    /\ Effects

(* It holds before the first command (server.go:20).                        *)
LEMMA StartupInitInv == Init => StartupInv
<1> SUFFICES ASSUME Init PROVE StartupInv
  OBVIOUS
<1>1. /\ channel = 0 /\ joined = {} /\ instantiated = "none" /\ run = 0
      /\ installed = [p \in Peers |-> {}] /\ server = Down
  BY DEF Init
<1>2. server \in Server
  BY <1>1 DEF Down, Server, Commands
<1>3. TypeOK
  BY <1>1, <1>2, StartupAssumption DEF TypeOK, Down
<1>4. RunningIsInstalled /\ ReadyMeansDeployed /\ OnlyTheCreatorStarts
  BY <1>1 DEF RunningIsInstalled, ReadyMeansDeployed, OnlyTheCreatorStarts, Down
<1>5. Progress /\ Effects
  BY <1>1 DEF Progress, Effects, At, Late, Early, Start, Upgrade, Down
<1> QED BY <1>3, <1>4, <1>5 DEF StartupInv

(* Every call of a run keeps it, and so do the failure of the call and the  *)
(* end of the process (setup.go:46-190).                                     *)
LEMMA StartupStep == StartupInv /\ [Next]_vars => StartupInv'
<1> SUFFICES ASSUME StartupInv, [Next]_vars PROVE StartupInv'
  OBVIOUS
<1> USE DEF StartupInv, At
<1>1. CASE \E command \in Commands : Launch(command)
  <2>1. TypeOK'
    <3>1. PICK command \in Commands : Launch(command)
      BY <1>1
    <3>2. server' = [pc |-> "sdk", command |-> command, initialized |-> FALSE,
                     client |-> FALSE, event |-> FALSE, faulted |-> FALSE]
      BY <3>1 DEF Launch, Down
    <3>3. server' \in Server
      BY <3>2 DEF Server
    <3>4. run' \in 0 .. MaxRuns /\ channel' \in 0 .. run' /\ UNCHANGED network
      BY <3>1, StartupAssumption DEF Launch, TypeOK, network
    <3> QED BY <3>2, <3>3, <3>4 DEF TypeOK, network
  <2>2. RunningIsInstalled'
    BY <1>1 DEF RunningIsInstalled, Progress, Effects, TypeOK, Late, Early, Start, Upgrade, Launch, network, Down
  <2>3. ReadyMeansDeployed' /\ OnlyTheCreatorStarts'
    BY <1>1 DEF RunningIsInstalled, ReadyMeansDeployed, OnlyTheCreatorStarts, Progress, Effects, Deployed, TypeOK, Server, Commands, Late, Early, Start, Upgrade, Launch, network, Down
  <2>4. Progress'
    BY <1>1, StartupAssumption DEF TypeOK, Server, Commands, Progress, Late, Start, Upgrade, Launch, network, Down
  <2>5. Effects'
    BY <1>1, StartupAssumption DEF RunningIsInstalled, Progress, Effects, Deployed, TypeOK, Server, Commands, Late, Early, Start, Upgrade, Launch, network, Down
  <2> QED BY <2>1, <2>2, <2>3, <2>4, <2>5
<1>2. CASE NewSDK
  <2>1. TypeOK'
    BY <1>2, StartupAssumption DEF TypeOK, Server, Commands, Versions, Progress, NewSDK, Initialized, HasChannel, network, Goes, Fault
  <2>2. RunningIsInstalled'
    BY <1>2 DEF RunningIsInstalled, Progress, Effects, TypeOK, Late, Early, Start, Upgrade, NewSDK, Initialized, HasChannel, network, Goes, Fault
  <2>3. ReadyMeansDeployed' /\ OnlyTheCreatorStarts'
    BY <1>2 DEF RunningIsInstalled, ReadyMeansDeployed, OnlyTheCreatorStarts, Progress, Effects, Deployed, TypeOK, Server, Commands, Late, Early, Start, Upgrade, NewSDK, Initialized, HasChannel, network, Goes, Fault
  <2>4. Progress'
    BY <1>2, StartupAssumption DEF TypeOK, Server, Commands, Progress, Late, Start, Upgrade, NewSDK, Initialized, HasChannel, network, Goes, Fault
  <2>5. Effects'
    BY <1>2, StartupAssumption DEF RunningIsInstalled, Progress, Effects, Deployed, TypeOK, Server, Commands, Late, Early, Start, Upgrade, NewSDK, Initialized, HasChannel, network, Goes, Fault
  <2> QED BY <2>1, <2>2, <2>3, <2>4, <2>5
<1>3. CASE SaveChannel
  <2>1. TypeOK'
    <3>1. channel' \in 0 .. run' /\ UNCHANGED <<joined, installed, instantiated, run>>
      BY <1>3 DEF SaveChannel, TypeOK
    <3>2. server' \in Server /\ server'.event = server.event
      BY <1>3 DEF SaveChannel, TypeOK, Server, Goes, Fault, Refused
    <3>3. ~ server.event
      BY <1>3 DEF SaveChannel, Progress
    <3> QED BY <3>1, <3>2, <3>3 DEF TypeOK
  <2>2. RunningIsInstalled'
    BY <1>3 DEF RunningIsInstalled, Progress, Effects, TypeOK, Late, Early, Start, Upgrade, SaveChannel, Goes, Fault, Refused
  <2>3. ReadyMeansDeployed' /\ OnlyTheCreatorStarts'
    BY <1>3 DEF RunningIsInstalled, ReadyMeansDeployed, OnlyTheCreatorStarts, Progress, Effects, Deployed, TypeOK, Server, Commands, Late, Early, Start, Upgrade, SaveChannel, Goes, Fault, Refused
  <2>4. Progress'
    BY <1>3, StartupAssumption DEF TypeOK, Server, Commands, Progress, Late, Start, Upgrade, SaveChannel, Goes, Fault, Refused
  <2>5. Effects'
    BY <1>3, StartupAssumption DEF RunningIsInstalled, Progress, Effects, Deployed, TypeOK, Server, Commands, Late, Early, Start, Upgrade, SaveChannel, Goes, Fault, Refused
  <2> QED BY <2>1, <2>2, <2>3, <2>4, <2>5
<1>4. CASE JoinChannel
  <2>1. TypeOK'
    BY <1>4, StartupAssumption DEF TypeOK, Server, Commands, Versions, Progress, JoinChannel, Initialized, Fault
  <2>2. RunningIsInstalled'
    BY <1>4 DEF RunningIsInstalled, Progress, Effects, TypeOK, Late, Early, Start, Upgrade, JoinChannel, Initialized, Fault
  <2>3. ReadyMeansDeployed' /\ OnlyTheCreatorStarts'
    BY <1>4 DEF RunningIsInstalled, ReadyMeansDeployed, OnlyTheCreatorStarts, Progress, Effects, Deployed, TypeOK, Server, Commands, Late, Early, Start, Upgrade, JoinChannel, Initialized, Fault
  <2>4. Progress'
    BY <1>4, StartupAssumption DEF TypeOK, Server, Commands, Progress, Late, Start, Upgrade, JoinChannel, Initialized, Fault
  <2>5. Effects'
    BY <1>4, StartupAssumption DEF RunningIsInstalled, Progress, Effects, Deployed, TypeOK, Server, Commands, Late, Early, Start, Upgrade, JoinChannel, Initialized, Fault
  <2> QED BY <2>1, <2>2, <2>3, <2>4, <2>5
<1>5. CASE NewPackage
  <2>1. TypeOK'
    BY <1>5, StartupAssumption DEF TypeOK, Server, Commands, Versions, Progress, NewPackage, HasChannel, Goes, Fault, network
  <2>2. RunningIsInstalled'
    BY <1>5 DEF RunningIsInstalled, Progress, Effects, TypeOK, Late, Early, Start, Upgrade, NewPackage, HasChannel, Goes, Fault, network
  <2>3. ReadyMeansDeployed' /\ OnlyTheCreatorStarts'
    BY <1>5 DEF RunningIsInstalled, ReadyMeansDeployed, OnlyTheCreatorStarts, Progress, Effects, Deployed, TypeOK, Server, Commands, Late, Early, Start, Upgrade, NewPackage, HasChannel, Goes, Fault, network
  <2>4. Progress'
    BY <1>5, StartupAssumption DEF TypeOK, Server, Commands, Progress, Late, Start, Upgrade, NewPackage, HasChannel, Goes, Fault, network
  <2>5. Effects'
    <3>1. UNCHANGED <<network, run>> /\ At("package") /\ ~ server.event
      BY <1>5 DEF NewPackage, Progress
    <3>2. /\ server'.pc \in {"client", "install", "serving"}
          /\ server'.command = server.command /\ server'.event = server.event
          /\ server'.pc = "client" => server.command = "update"
      BY <1>5 DEF NewPackage, HasChannel, Upgrade, Goes, Fault, TypeOK, Server, Commands
    <3> QED BY <3>1, <3>2 DEF Effects, network, Start, Upgrade, Early, Late
  <2> QED BY <2>1, <2>2, <2>3, <2>4, <2>5
<1>6. CASE InstallCC
  <2>1. TypeOK'
    <3>1. installed' \in [Peers -> SUBSET Versions] /\ UNCHANGED <<channel, joined, instantiated, run>>
      BY <1>6 DEF InstallCC, InstalledOn, Version, Versions, TypeOK
    <3>2. server' \in Server /\ server'.event = server.event
      BY <1>6 DEF InstallCC, TypeOK, Server, Goes, Fault
    <3>3. ~ server.event
      BY <1>6 DEF InstallCC, Progress
    <3> QED BY <3>1, <3>2, <3>3 DEF TypeOK
  <2>2. RunningIsInstalled'
    BY <1>6 DEF RunningIsInstalled, Progress, Effects, TypeOK, Late, Early, Start, Upgrade, InstallCC, InstalledOn, Version, HasChannel, Goes, Fault
  <2>3. ReadyMeansDeployed' /\ OnlyTheCreatorStarts'
    BY <1>6 DEF RunningIsInstalled, ReadyMeansDeployed, OnlyTheCreatorStarts, Progress, Effects, Deployed, TypeOK, Server, Commands, Late, Early, Start, Upgrade, InstallCC, InstalledOn, Version, HasChannel, Goes, Fault
  <2>4. Progress'
    BY <1>6, StartupAssumption DEF TypeOK, Server, Commands, Progress, Late, Start, Upgrade, InstallCC, InstalledOn, Version, HasChannel, Goes, Fault
  <2>5. Effects'
    <3>1. UNCHANGED <<channel, joined, instantiated, run>> /\ At("install") /\ ~ server.event
      BY <1>6 DEF InstallCC, Progress
    <3>2. /\ server'.command = server.command /\ server'.event = server.event
          /\ server'.pc \in {"targets", "instantiate", "serving"}
      BY <1>6 DEF InstallCC, Goes, Fault, TypeOK, Server
    <3>3. server'.pc # "serving" => /\ Start => \A p \in Peers : "1.0" \in installed'[p]
                                    /\ Upgrade => \A p \in Peers : "1.5" \in installed'[p]
      BY <1>6 DEF InstallCC, InstalledOn, Version, HasChannel, Fault, Start, Upgrade, TypeOK, Server
    <3>4. server'.pc = "instantiate" => Start
      BY <1>6 DEF InstallCC, HasChannel, Goes, Fault, Start, TypeOK, Server
    <3> QED BY <3>1, <3>2, <3>3, <3>4 DEF Effects, Start, Upgrade, Early, Late
  <2> QED BY <2>1, <2>2, <2>3, <2>4, <2>5
<1>7. CASE InstantiateCC
  <2>1. TypeOK'
    BY <1>7, StartupAssumption DEF TypeOK, Server, Commands, Versions, Progress, InstantiateCC, Endorsable, Version, HasChannel, Goes, Fault
  <2>2. RunningIsInstalled'
    BY <1>7 DEF RunningIsInstalled, Progress, Effects, TypeOK, Late, Early, Start, Upgrade, InstantiateCC, Endorsable, Version, HasChannel, Goes, Fault
  <2>3. ReadyMeansDeployed' /\ OnlyTheCreatorStarts'
    BY <1>7 DEF RunningIsInstalled, ReadyMeansDeployed, OnlyTheCreatorStarts, Progress, Effects, Deployed, TypeOK, Server, Commands, Late, Early, Start, Upgrade, InstantiateCC, Endorsable, Version, HasChannel, Goes, Fault
  <2>4. Progress'
    BY <1>7, StartupAssumption DEF TypeOK, Server, Commands, Progress, Late, Start, Upgrade, InstantiateCC, Endorsable, Version, HasChannel, Goes, Fault
  <2>5. Effects'
    BY <1>7, StartupAssumption DEF RunningIsInstalled, Progress, Effects, Deployed, TypeOK, Server, Commands, Late, Early, Start, Upgrade, InstantiateCC, Endorsable, Version, HasChannel, Goes, Fault
  <2> QED BY <2>1, <2>2, <2>3, <2>4, <2>5
<1>8. CASE JoinedTargets
  <2>1. TypeOK'
    BY <1>8, StartupAssumption DEF TypeOK, Server, Commands, Versions, Progress, JoinedTargets, Goes, Fault, network
  <2>2. RunningIsInstalled'
    BY <1>8 DEF RunningIsInstalled, Progress, Effects, TypeOK, Late, Early, Start, Upgrade, JoinedTargets, Goes, Fault, network
  <2>3. ReadyMeansDeployed' /\ OnlyTheCreatorStarts'
    BY <1>8 DEF RunningIsInstalled, ReadyMeansDeployed, OnlyTheCreatorStarts, Progress, Effects, Deployed, TypeOK, Server, Commands, Late, Early, Start, Upgrade, JoinedTargets, Goes, Fault, network
  <2>4. Progress'
    BY <1>8, StartupAssumption DEF TypeOK, Server, Commands, Progress, Late, Start, Upgrade, JoinedTargets, Goes, Fault, network
  <2>5. Effects'
    BY <1>8, StartupAssumption DEF RunningIsInstalled, Progress, Effects, Deployed, TypeOK, Server, Commands, Late, Early, Start, Upgrade, JoinedTargets, Goes, Fault, network
  <2> QED BY <2>1, <2>2, <2>3, <2>4, <2>5
<1>9. CASE UpgradeCC
  <2>1. TypeOK'
    BY <1>9, StartupAssumption DEF TypeOK, Server, Commands, Versions, Progress, UpgradeCC, Endorsable, Version, HasChannel, Goes
  <2>2. RunningIsInstalled'
    BY <1>9 DEF RunningIsInstalled, Progress, Effects, TypeOK, Late, Early, Start, Upgrade, UpgradeCC, Endorsable, Version, HasChannel, Goes
  <2>3. ReadyMeansDeployed' /\ OnlyTheCreatorStarts'
    BY <1>9 DEF RunningIsInstalled, ReadyMeansDeployed, OnlyTheCreatorStarts, Progress, Effects, Deployed, TypeOK, Server, Commands, Late, Early, Start, Upgrade, UpgradeCC, Endorsable, Version, HasChannel, Goes
  <2>4. Progress'
    BY <1>9, StartupAssumption DEF TypeOK, Server, Commands, Progress, Late, Start, Upgrade, UpgradeCC, Endorsable, Version, HasChannel, Goes
  <2>5. Effects'
    BY <1>9, StartupAssumption DEF RunningIsInstalled, Progress, Effects, Deployed, TypeOK, Server, Commands, Late, Early, Start, Upgrade, UpgradeCC, Endorsable, Version, HasChannel, Goes
  <2> QED BY <2>1, <2>2, <2>3, <2>4, <2>5
<1>10. CASE NewChannelClient
  <2>1. TypeOK'
    BY <1>10, StartupAssumption DEF TypeOK, Server, Commands, Versions, Progress, NewChannelClient, Fault, network
  <2>2. RunningIsInstalled'
    BY <1>10 DEF RunningIsInstalled, Progress, Effects, TypeOK, Late, Early, Start, Upgrade, NewChannelClient, Fault, network
  <2>3. ReadyMeansDeployed' /\ OnlyTheCreatorStarts'
    BY <1>10 DEF RunningIsInstalled, ReadyMeansDeployed, OnlyTheCreatorStarts, Progress, Effects, Deployed, TypeOK, Server, Commands, Late, Early, Start, Upgrade, NewChannelClient, Fault, network
  <2>4. Progress'
    BY <1>10, StartupAssumption DEF TypeOK, Server, Commands, Progress, Late, Start, Upgrade, NewChannelClient, Fault, network
  <2>5. Effects'
    BY <1>10, StartupAssumption DEF RunningIsInstalled, Progress, Effects, Deployed, TypeOK, Server, Commands, Late, Early, Start, Upgrade, NewChannelClient, Fault, network
  <2> QED BY <2>1, <2>2, <2>3, <2>4, <2>5
<1>11. CASE NewEventClient
  <2>1. TypeOK'
    BY <1>11, StartupAssumption DEF TypeOK, Server, Commands, Progress, Late, NewEventClient, Fault, network
  <2>2. RunningIsInstalled'
    BY <1>11 DEF RunningIsInstalled, Progress, Effects, TypeOK, Late, Early, Start, Upgrade, NewEventClient, Fault, network
  <2>3. ReadyMeansDeployed' /\ OnlyTheCreatorStarts'
    BY <1>11 DEF RunningIsInstalled, ReadyMeansDeployed, OnlyTheCreatorStarts, Progress, Effects, Deployed, TypeOK, Server, Commands, Late, Early, Start, Upgrade, NewEventClient, Fault, network
  <2>4. Progress'
    BY <1>11, StartupAssumption DEF TypeOK, Server, Commands, Progress, Late, Start, Upgrade, NewEventClient, Fault, network
  <2>5. Effects'
    BY <1>11, StartupAssumption DEF RunningIsInstalled, Progress, Effects, Deployed, TypeOK, Server, Commands, Late, Early, Start, Upgrade, NewEventClient, Fault, network
  <2> QED BY <2>1, <2>2, <2>3, <2>4, <2>5
<1>12. CASE Stop
  <2>1. TypeOK'
    BY <1>12, StartupAssumption DEF TypeOK, Server, Commands, Versions, Progress, Stop, network, Down
  <2>2. RunningIsInstalled'
    BY <1>12 DEF RunningIsInstalled, Progress, Effects, TypeOK, Late, Early, Start, Upgrade, Stop, network, Down
  <2>3. ReadyMeansDeployed' /\ OnlyTheCreatorStarts'
    BY <1>12 DEF RunningIsInstalled, ReadyMeansDeployed, OnlyTheCreatorStarts, Progress, Effects, Deployed, TypeOK, Server, Commands, Late, Early, Start, Upgrade, Stop, network, Down
  <2>4. Progress'
    BY <1>12, StartupAssumption DEF TypeOK, Server, Commands, Progress, Late, Start, Upgrade, Stop, network, Down
  <2>5. Effects'
    BY <1>12, StartupAssumption DEF RunningIsInstalled, Progress, Effects, Deployed, TypeOK, Server, Commands, Late, Early, Start, Upgrade, Stop, network, Down
  <2> QED BY <2>1, <2>2, <2>3, <2>4, <2>5
<1>13. CASE UNCHANGED vars
  <2>1. TypeOK'
    BY <1>13, StartupAssumption DEF TypeOK, Server, Commands, Versions, Progress, vars, network
  <2>2. RunningIsInstalled'
    BY <1>13 DEF RunningIsInstalled, Progress, Effects, TypeOK, Late, Early, Start, Upgrade, vars, network
  <2>3. ReadyMeansDeployed' /\ OnlyTheCreatorStarts'
    BY <1>13 DEF RunningIsInstalled, ReadyMeansDeployed, OnlyTheCreatorStarts, Progress, Effects, Deployed, TypeOK, Server, Commands, Late, Early, Start, Upgrade, vars, network
  <2>4. Progress'
    BY <1>13, StartupAssumption DEF TypeOK, Server, Commands, Progress, Late, Start, Upgrade, vars, network
  <2>5. Effects'
    BY <1>13, StartupAssumption DEF RunningIsInstalled, Progress, Effects, Deployed, TypeOK, Server, Commands, Late, Early, Start, Upgrade, vars, network
  <2> QED BY <2>1, <2>2, <2>3, <2>4, <2>5
<1> QED BY <1>1, <1>2, <1>3, <1>4, <1>5, <1>6, <1>7, <1>8, <1>9, <1>10, <1>11, <1>12, <1>13 DEF Next, Step

-----------------------------------------------------------------------------
(* The invariant holds in every run of every command.                       *)
THEOREM StartupInvariant == Spec => []StartupInv
<1>1. Init => StartupInv
  BY StartupInitInv
<1>2. StartupInv /\ [Next]_vars => StartupInv'
  BY StartupStep
<1> QED BY <1>1, <1>2, PTL DEF Spec

(* Type correctness; a server with an event client has its channel client    *)
(* and an initialised SDK (setup.go:172-184).                                *)
THEOREM StartupTyped == Spec => []TypeOK
<1>1. StartupInv => TypeOK
  BY DEF StartupInv
<1> QED BY <1>1, StartupInvariant, PTL

(* A start that serves with both clients is one on a deployed chaincode, for *)
(* any number of peers and of runs that failed before (setup.go:81-186).     *)
THEOREM StartedIsDeployed == Spec => []ReadyMeansDeployed
<1>1. StartupInv => ReadyMeansDeployed
  BY DEF StartupInv
<1> QED BY <1>1, StartupInvariant, PTL

(* Only the run that created the channel can be started on it               *)
(* (setup.go:81-91): a start after it fails without the fault of any call.   *)
THEOREM StartedByTheCreator == Spec => []OnlyTheCreatorStarts
<1>1. StartupInv => OnlyTheCreatorStarts
  BY DEF StartupInv
<1> QED BY <1>1, StartupInvariant, PTL

(* No run, however it ends, leaves a version on the channel that a peer of   *)
(* the channel does not have (setup.go:105-170).                             *)
THEOREM InstantiatedIsInstalled == Spec => []RunningIsInstalled
<1>1. StartupInv => RunningIsInstalled
  BY DEF StartupInv
<1> QED BY <1>1, StartupInvariant, PTL
=============================================================================
