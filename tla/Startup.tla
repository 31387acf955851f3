------------------------------ MODULE Startup ------------------------------
(***************************************************************************)
(* The commands of the server: start, update and upgrade of app/server.go, *)
(* and Initialize and InstallAndInstantiateCC of app/fabricClient/setup.go *)
(* that they run before they serve.  The network outlives every run: a run *)
(* that fails, or is killed, leaves behind what it has done so far.  Any   *)
(* call to the network may fail, after its effect, before it, or halfway.  *)
(***************************************************************************)
EXTENDS Naturals

CONSTANTS
    Peers,      \* peers of org1
    MaxRuns     \* bound: how often an operator runs a command

ASSUME StartupAssumption == MaxRuns \in Nat /\ Peers # {}

Commands == {"start", "update", "upgrade"}
Versions == {"1.0", "1.5"}

VARIABLES
    channel,        \* the run that created the channel, 0 if there is none
    joined,         \* peers that have joined it
    installed,      \* chaincode packages on each peer
    instantiated,   \* version of the chaincode on the channel, or "none"
    run,            \* how many commands have been run
    server          \* the process

network == <<channel, joined, installed, instantiated>>
vars == <<network, run, server>>

Server == [pc      : {"down", "sdk", "save", "join", "package", "install", "instantiate",
                      "targets", "upgrade", "client", "event", "serving"},
           command : Commands,
           initialized : BOOLEAN,
           client  : BOOLEAN,       \* setup.client # nil
           event   : BOOLEAN,       \* setup.event # nil
           faulted : BOOLEAN]       \* a call of this run failed (history)

TypeOK ==
    /\ channel \in 0 .. run
    /\ joined \subseteq Peers
    /\ installed \in [Peers -> SUBSET Versions]
    /\ instantiated \in Versions \cup {"none"}
    /\ run \in 0 .. MaxRuns
    /\ server \in Server
    /\ server.event => server.client /\ server.initialized

Down == [pc |-> "down", command |-> "start", initialized |-> FALSE,
         client |-> FALSE, event |-> FALSE, faulted |-> FALSE]

Init ==
    /\ channel = 0 /\ joined = {} /\ instantiated = "none"
    /\ installed = [p \in Peers |-> {}]
    /\ run = 0 /\ server = Down

(* The arguments of setFabricSdk.                                          *)
MutHasChannel == server.command = "start"

HasChannel == server.command # "start"
Upgrade    == server.command = "upgrade"

Version == IF HasChannel THEN "1.5" ELSE "1.0"

-----------------------------------------------------------------------------
(* Ways a run goes on.                                                     *)

At(pc)   == server.pc = pc
Goes(pc) == server' = [server EXCEPT !.pc = pc]

(* setFabricSdk logs the error and returns, and appService serves.         *)
Refused == Goes("serving")
Fault   == server' = [server EXCEPT !.pc = "serving", !.faulted = TRUE]

Launch(command) ==
    /\ At("down") /\ run < MaxRuns
    /\ run' = run + 1
    /\ server' = [Down EXCEPT !.pc = "sdk", !.command = command]
    /\ UNCHANGED network

-----------------------------------------------------------------------------
(* Initialize.                                                             *)

Initialized == server' = [server EXCEPT !.pc = "package", !.initialized = TRUE]

(* The SDK, its clients and the identity of the administrator.             *)
NewSDK ==
    /\ At("sdk")
    /\ \/ ~ HasChannel /\ Goes("save")
       \/ HasChannel /\ Initialized
       \/ Fault
    /\ UNCHANGED <<network, run>>

MutSaveChannel ==
    /\ At("save")
    /\ channel = 0
    /\ \/ channel' = run /\ (Goes("join") \/ Fault)
       \/ UNCHANGED channel /\ Fault
    /\ UNCHANGED <<joined, installed, instantiated, run>>

(* The orderer refuses to create a channel that exists.                    *)
SaveChannel ==
    /\ At("save")
    /\ \/ channel = 0 /\ channel' = run /\ (Goes("join") \/ Fault)
       \/ channel # 0 /\ UNCHANGED channel /\ Refused
       \/ UNCHANGED channel /\ Fault
    /\ UNCHANGED <<joined, installed, instantiated, run>>

MutJoinChannel ==
    /\ At("join")
    /\ \E reached \in SUBSET Peers : joined' = joined \cup reached
    /\ Initialized
    /\ UNCHANGED <<channel, installed, instantiated, run>>

(* All peers join, or the ones that were reached before the failure.       *)
JoinChannel ==
    /\ At("join")
    /\ \/ joined' = Peers /\ Initialized
       \/ \E reached \in SUBSET Peers : joined' = joined \cup reached /\ Fault
    /\ UNCHANGED <<channel, installed, instantiated, run>>

-----------------------------------------------------------------------------
(* InstallAndInstantiateCC.                                                *)

NewPackage ==
    /\ At("package")
    /\ \/ HasChannel /\ ~ Upgrade /\ Goes("client")
       \/ (~ HasChannel \/ Upgrade) /\ Goes("install")
       \/ Fault
    /\ UNCHANGED <<network, run>>

InstalledOn(peers) ==
    installed' = [p \in Peers |-> installed[p] \cup (IF p \in peers THEN {Version} ELSE {})]

MutInstallCC ==
    /\ At("install")
    /\ \E reached \in SUBSET Peers : InstalledOn(reached)
    /\ Goes(IF HasChannel THEN "targets" ELSE "instantiate")
    /\ UNCHANGED <<channel, joined, instantiated, run>>

(* A package that is installed already is left alone, without an error.    *)
InstallCC ==
    /\ At("install")
    /\ \/ InstalledOn(Peers) /\ Goes(IF HasChannel THEN "targets" ELSE "instantiate")
       \/ \E reached \in SUBSET Peers : InstalledOn(reached) /\ Fault
    /\ UNCHANGED <<channel, joined, instantiated, run>>

(* The peers of the channel have to endorse with the new package, and no    *)
(* version is instantiated twice.                                          *)
Endorsable == joined # {} /\ \A p \in joined : Version \in installed[p]

InstantiateCC ==
    /\ At("instantiate")
    /\ \/ /\ instantiated = "none" /\ Endorsable
          /\ instantiated' = Version
          /\ Goes("client") \/ Fault
       \/ Fault /\ UNCHANGED instantiated
    /\ UNCHANGED <<channel, joined, installed, run>>

(* OrgTargetPeers and FilterTargetsJoinedChannel ask every peer.           *)
JoinedTargets ==
    /\ At("targets")
    /\ Goes("upgrade") \/ Fault
    /\ UNCHANGED <<network, run>>

(* The run goes on, and logs "Chaincode upgraded", whatever comes of it.   *)
UpgradeCC ==
    /\ At("upgrade")
    /\ \/ instantiated \notin {"none", Version} /\ Endorsable /\ instantiated' = Version
       \/ UNCHANGED instantiated
    /\ Goes("client")
    /\ UNCHANGED <<channel, joined, installed, run>>

MutNewChannelClient ==
    /\ At("client")
    /\ \E made \in BOOLEAN : server' = [server EXCEPT !.pc = "event", !.client = made]
    /\ UNCHANGED <<network, run>>

NewChannelClient ==
    /\ At("client")
    /\ server' = [server EXCEPT !.pc = "event", !.client = TRUE] \/ Fault
    /\ UNCHANGED <<network, run>>

NewEventClient ==
    /\ At("event")
    /\ server' = [server EXCEPT !.pc = "serving", !.event = TRUE] \/ Fault
    /\ UNCHANGED <<network, run>>

(* The process is killed, or its listener fails.                           *)
Stop ==
    /\ ~ At("down")
    /\ server' = Down
    /\ UNCHANGED <<network, run>>

Step ==
    \/ NewSDK \/ SaveChannel \/ JoinChannel
    \/ NewPackage \/ InstallCC \/ InstantiateCC
    \/ JoinedTargets \/ UpgradeCC
    \/ NewChannelClient \/ NewEventClient

Next == (\E command \in Commands : Launch(command)) \/ Step \/ Stop

(* Every call to the network has a time limit.                             *)
Spec == Init /\ [][Next]_vars /\ WF_vars(Step)

-----------------------------------------------------------------------------
(* Properties.                                                             *)

(* A start that serves with both clients has found all peers on the channel *)
(* and the chaincode instantiated from a package that each of them has; an  *)
(* upgrade has at least installed the new package on all of them.  Of an    *)
(* update nothing follows, nor that an upgrade has taken place.             *)
ReadyMeansDeployed ==
    server.event =>
        /\ server.command = "start" =>
              /\ joined = Peers /\ instantiated # "none"
              /\ \A p \in Peers : instantiated \in installed[p]
        /\ server.command = "upgrade" => \A p \in Peers : "1.5" \in installed[p]

(* A run of which no call has failed serves with both clients, except a     *)
(* start that has not created the channel itself.  So a start that failed   *)
(* or died after SaveChannel cannot be repaired by another one, though the  *)
(* peers may not have joined; and no other command joins them.              *)
OnlyTheCreatorStarts ==
    server.pc = "serving" /\ ~ server.faulted =>
        (server.event <=> server.command # "start" \/ channel = run)

(* What the channel runs is on every peer that has joined it, whatever runs *)
(* have failed halfway, and no peer is on a channel that was not created.   *)
RunningIsInstalled ==
    /\ joined # {} => channel # 0
    /\ instantiated # "none" => /\ joined = Peers
                                /\ \A p \in Peers : instantiated \in installed[p]

(* Every run gets to serve, unless it is stopped: no failure holds it up.   *)
ServesInTheEnd == ~ At("down") ~> At("serving") \/ At("down")
=============================================================================
