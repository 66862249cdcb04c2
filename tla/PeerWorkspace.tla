---------------------------- MODULE PeerWorkspace ----------------------------
(***************************************************************************)
(* The two ends of the life of a batch, which share no state: the database  *)
(* from which a worker replays its log, and the channels over which a page  *)
(* sends it.  (What is between them is in WorkerRoom.)  And the relay that  *)
(* stands for both of them in the CRDT harness.                             *)
(***************************************************************************)
EXTENDS PeerChannel, Workspace, CrdtRelay

VARIABLE part  \* which of them is looked at; never changes

peerWorkspaceVars == <<part, channelVars, workspaceVars, relayVars>>

PeerWorkspaceInit ==
  /\ part \in {"channel", "workspace", "relay"}
  /\ ChannelInit /\ WorkspaceInit /\ RelayInit
  /\ part # "workspace" => \A r \in Rooms : store[r].manifest = "none"

PeerWorkspaceNext ==
  /\ UNCHANGED part
  /\ \/ part = "channel" /\ ChannelNext /\ UNCHANGED <<workspaceVars, relayVars>>
     \/ part = "workspace" /\ WorkspaceNext /\ UNCHANGED <<channelVars, relayVars>>
     \/ part = "relay" /\ RelayNext /\ UNCHANGED <<channelVars, workspaceVars>>

PeerWorkspaceSpec ==
  PeerWorkspaceInit /\ [][PeerWorkspaceNext]_peerWorkspaceVars /\ ChannelFairness
=============================================================================
