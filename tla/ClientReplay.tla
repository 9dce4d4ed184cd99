---------------------------- MODULE ClientReplay ----------------------------
(***************************************************************************)
(* How a browser gets the events of a conversation: connect                *)
(* (openhands/server/listen_socket.py) replays what is stored and then     *)
(* joins the room, WebSession (openhands/server/session/session.py)        *)
(* publishes to the room what comes, and handleMessage of the client       *)
(* (frontend/src/context/ws-client-provider.tsx) remembers the last event  *)
(* and asks for what follows it when it connects again.                    *)
(*                                                                         *)
(* A "state" or "error" event changes the displayed state.  Recalls are    *)
(* published and not replayed; events that are not published are left out. *)
(* The wait for the first client may time out, so that events go out while *)
(* nobody is in the room.  Places in the stream start at 1.                *)
(*                                                                         *)
(* A replayed event is handled as soon as it is sent.  A client that must  *)
(* wait for connect to return (the server does not set always_connect) has *)
(* nothing of a replay that breaks off: as if the break had come first.    *)
(***************************************************************************)
EXTENDS Naturals, Sequences

CONSTANTS
    RMaxEvents,   \* bound: events of the conversation
    RMaxDrops     \* bound: connections that break

ASSUME RBoundsAssumption == RMaxEvents \in Nat /\ RMaxDrops \in Nat

VARIABLES
    rlog,     \* the kinds of the stored events
    rout,     \* how many of them were published
    rpc,      \* the connection: "away", "replay", "joining" or "in" the room
    rnext,    \* the next event to replay
    rsnap,    \* EventStore.cur_id as it was when the replay began
    rheld,    \* agent_state_changed of connect, or 0
    rshown,   \* the events the client has
    rstate,   \* the event whose state it displays
    rlast,    \* lastEventRef
    rlost,    \* the events that went by
    rdrops

rvars == <<rlog, rout, rpc, rnext, rsnap, rheld, rshown, rstate, rlast, rlost, rdrops>>
rconn == <<rpc, rnext, rsnap, rheld>>
rclient == <<rshown, rstate, rlast>>

Changes(i) == rlog[i] \in {"state", "error"}

(* handleMessage, which returns early for an error, and addEvent *)
Receive(i) ==
    /\ rshown' = IF rlog[i] = "error" THEN rshown ELSE rshown \cup {i}
    /\ rstate' = IF Changes(i) THEN i ELSE rstate
    /\ rlast' = IF rlog[i] = "error" THEN rlast ELSE i

RInit ==
    /\ rlog = <<>> /\ rout = 0
    /\ rpc = "away" /\ rnext = 1 /\ rsnap = 0 /\ rheld = 0
    /\ rshown = {} /\ rstate = 0 /\ rlast = 0 /\ rlost = {} /\ rdrops = 0

(* add_event *)
RStore(kind) ==
    /\ Len(rlog) < RMaxEvents
    /\ rlog' = Append(rlog, kind)
    /\ UNCHANGED <<rout, rconn, rclient, rlost, rdrops>>

(* on_event, send and _send *)
RPublish ==
    /\ rout < Len(rlog) /\ rout' = rout + 1
    /\ IF rpc = "in" THEN Receive(rout + 1) ELSE UNCHANGED rclient
    /\ rlost' = IF rpc \in {"replay", "joining"} /\ rout + 1 > rsnap
                THEN rlost \cup {rout + 1} ELSE rlost
    /\ UNCHANGED <<rlog, rconn, rdrops>>

(* connect, with latest_event_id, to where the store is listed *)
RConnect ==
    /\ rpc = "away" /\ rpc' = "replay"
    /\ rnext' = rlast + 1 /\ rsnap' = Len(rlog) /\ rheld' = 0
    /\ UNCHANGED <<rlog, rout, rclient, rlost, rdrops>>

(* One event is replayed; of those that change the state, the last is kept *)
(* for the end.                                                            *)
RReplay ==
    /\ rpc = "replay" /\ rnext <= rsnap /\ rnext' = rnext + 1
    /\ rheld' = IF Changes(rnext) THEN rnext ELSE rheld
    /\ IF rlog[rnext] = "msg" THEN Receive(rnext) ELSE UNCHANGED rclient
    /\ UNCHANGED <<rlog, rout, rpc, rsnap, rlost, rdrops>>

\* Mutant: the state that was kept for the end is not sent.
RReplayed_keeps ==
    /\ rpc = "replay" /\ rnext > rsnap /\ rpc' = "joining"
    /\ UNCHANGED <<rlog, rout, rnext, rsnap, rheld, rclient, rlost, rdrops>>

RReplayed ==
    /\ rpc = "replay" /\ rnext > rsnap /\ rpc' = "joining"
    /\ IF rheld # 0 THEN Receive(rheld) ELSE UNCHANGED rclient
    /\ UNCHANGED <<rlog, rout, rnext, rsnap, rheld, rlost, rdrops>>

(* The end of connect, and of its local variables *)
Ends(pc) == rpc' = pc /\ rnext' = 1 /\ rsnap' = 0 /\ rheld' = 0

(* join_conversation, when the settings are loaded, enters the room. *)
RJoin ==
    /\ rpc = "joining" /\ Ends("in")
    /\ UNCHANGED <<rlog, rout, rclient, rlost, rdrops>>

(* The connection breaks; what connect still holds back and the client     *)
(* will not ask for again goes by.                                         *)
RDrop ==
    /\ rpc # "away" /\ Ends("away")
    /\ rdrops < RMaxDrops /\ rdrops' = rdrops + 1
    /\ rlost' = IF rpc = "replay" /\ rheld # 0 /\ rheld < rlast THEN rlost \cup {rheld} ELSE rlost
    /\ UNCHANGED <<rlog, rout, rclient>>

RNext ==
    \/ \E kind \in {"msg", "state", "error", "recall"} : RStore(kind)
    \/ RPublish \/ RConnect \/ RReplay \/ RReplayed \/ RJoin \/ RDrop

RSpec == RInit /\ [][RNext]_rvars

-----------------------------------------------------------------------------
RTypeOK ==
    /\ rlog \in Seq({"msg", "state", "error", "recall"}) /\ rout \in 0..Len(rlog)
    /\ rpc \in {"away", "replay", "joining", "in"}
    /\ rnext \in 1..(Len(rlog) + 1) /\ {rsnap, rheld, rstate, rlast} \subseteq 0..Len(rlog)
    /\ rshown \cup rlost \subseteq DOMAIN rlog /\ rdrops \in 0..RMaxDrops

(* A client that is in the room has, when all is published, every event    *)
(* but recalls, and displays the state the agent is in.  What it lacks     *)
(* went out between the listing of the store and its joining the room, or  *)
(* is a state that connect held back when the connection broke; or it      *)
(* displays an older error than a state that its last event is not before: *)
(* the error went out to the room when the replay had shown the state, and *)
(* the client does not ask for the state again.                            *)
LacksOnlyLost ==
    rpc = "in" /\ rout = Len(rlog) =>
        /\ \A i \in DOMAIN rlog : rlog[i] = "msg" => i \in rshown \cup rlost
        /\ \A i \in DOMAIN rlog :
              Changes(i) /\ (\A j \in DOMAIN rlog : j > i => ~Changes(j)) =>
                \/ i \in {rstate} \cup rlost
                \/ rstate # 0 /\ rlog[rstate] = "error" /\ rstate < i /\ i <= rlast

=============================================================================
