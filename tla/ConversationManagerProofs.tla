---------------------- MODULE ConversationManagerProofs ----------------------
(***************************************************************************)
(* For any conversations, clients, requests and limits: a conversation in  *)
(* use stays connected, no agent loop is left running out of reach, and a  *)
(* client that joined has one.                                             *)
(***************************************************************************)
EXTENDS ConversationManager, FiniteSetTheorems, TLAPS

Conversation == [sid : Sids, ses : Nat, shared : BOOLEAN, connected : BOOLEAN]

(* What the sessions and their closers are, and the manager's tables. *)
SessionTypes ==
    /\ sess \in Seq(Session)
    /\ loops \in [Sids -> Nat]
    /\ conn \in [Clients -> Sids \cup {None}]
    /\ joiner \in [Clients -> [pc : {"away", "evict", "joined"}, sid : Sids \cup {None},
                               evict : SUBSET Sids]]
    /\ closer \in [Closers -> [pc : {"idle", "begin", "disconnect", "emit", "wait"},
                               sid : Sids \cup {None}, conns : SUBSET Clients, ses : Nat]]
    /\ cleaning \in BOOLEAN /\ stray \subseteq Clients /\ lost \subseteq Nat

(* What requests hold, and the conversations there are. *)
ConversationTypes ==
    /\ convs \in Seq(Conversation)
    /\ active \in [Sids -> [conv : Nat, count : Nat]]
    /\ detached \in [Sids -> Nat]
    /\ req \in [Requests -> [pc : {"idle", "connecting", "holding"}, sid : Sids \cup {None},
                             conv : Nat]]
    /\ lock \in Requests \cup {None}

-----------------------------------------------------------------------------
Holders(s) == {r \in Requests : req[r].pc = "holding" /\ req[r].sid = s}

(* A conversation of s that can be used *)
Usable(k, s) == k \in DOMAIN convs /\ convs[k].sid = s /\ convs[k].connected

(* The count of a conversation is that of its holders; it is never both    *)
(* held and detached.                                                      *)
Counted(s) ==
    /\ active[s].count = Cardinality(Holders(s))
    /\ \A r \in Holders(s) : req[r].conv = active[s].conv
    /\ active[s].count > 0 => Usable(active[s].conv, s) /\ detached[s] = 0
    /\ detached[s] # 0 => Usable(detached[s], s)

(* A request that connects has the lock, and its conversation to itself. *)
Connecting(r) ==
    req[r].pc = "connecting" =>
        /\ lock = r /\ req[r].sid \in Sids
        /\ active[req[r].sid].count = 0 /\ detached[req[r].sid] = 0
        /\ Usable(req[r].conv, req[r].sid)

(* The inductive invariant for attached conversations *)
HeldInv ==
    /\ ConversationTypes
    /\ \A s \in Sids : Counted(s)
    /\ \A r \in Requests : Connecting(r) /\ (req[r].pc = "holding" => req[r].sid \in Sids)

-----------------------------------------------------------------------------
(* The table's entry is a session of the conversation. *)
TableInv == \A s \in Sids : loops[s] # 0 => loops[s] \in DOMAIN sess /\ sess[loops[s]].sid = s

(* Where a close stands tells what it closes. *)
CloserInv ==
    /\ \A x \in Closers :
          /\ closer[x].pc = "idle" => closer[x] = NoCloser
          /\ closer[x].pc # "idle" => closer[x].sid \in Sids
          /\ closer[x].pc \in {"begin", "disconnect"} => closer[x].ses = 0
          /\ closer[x].pc \in {"emit", "wait"} => closer[x].ses \in DOMAIN sess
    /\ ~cleaning => \A s \in Sids : closer[s].pc = "idle"

(* A session that is marked and not released has a close that waits, or    *)
(* its close was cancelled.                                                *)
MarkedInv ==
    \A n \in DOMAIN sess : sess[n].closed /\ sess[n].stream = "open" =>
        n \in lost \/ \E x \in Closers : closer[x].pc = "wait" /\ closer[x].ses = n

(* The inductive invariant for sessions *)
SessionInv == SessionTypes /\ TableInv /\ CloserInv /\ MarkedInv /\ NoSilentLoop

-----------------------------------------------------------------------------
(* A client that joined is connected, and a close that disconnects has     *)
(* listed every connection but the strays.                                 *)
JoinInv ==
    /\ \A c \in Clients : /\ joiner[c].pc = "joined" => conn[c] = joiner[c].sid
                          /\ joiner[c].pc # "away" => joiner[c].sid \in Sids
    /\ \A x \in Closers : closer[x].pc = "disconnect" => Connected(closer[x].sid) \subseteq closer[x].conns \cup stray
    /\ JoinedHasLoop

MInv == HeldInv /\ SessionInv /\ JoinInv

-----------------------------------------------------------------------------
(* The holders of a conversation can be counted. *)
LEMMA HoldersFinite ==
    ASSUME NEW s PROVE IsFiniteSet(Holders(s)) /\ Cardinality(Holders(s)) \in Nat
  <1>1. Holders(s) \in SUBSET Requests
    BY Zenon DEF Holders
  <1> QED
    BY Zenon, <1>1, ManagerAssumption, FS_Subset, FS_CardinalityType

(* A request that gets hold of a conversation is one holder more. *)
LEMMA OneMore ==
    ASSUME NEW s \in Sids, NEW r \in Requests, req[r].pc # "holding",
           req'[r].pc = "holding", req'[r].sid = s,
           \A q \in Requests \ {r} : req'[q] = req[q]
    PROVE  /\ Holders(s)' = Holders(s) \cup {r}
           /\ Cardinality(Holders(s)') = Cardinality(Holders(s)) + 1
           /\ \A t \in Sids \ {s} : Holders(t)' = Holders(t)
  <1>1. Holders(s)' = Holders(s) \cup {r} /\ r \notin Holders(s)
    BY DEF Holders
  <1>2. ASSUME NEW t \in Sids \ {s} PROVE Holders(t)' = Holders(t)
    <2>1. \A q \in Requests : req'[q].pc = "holding" /\ req'[q].sid = t
                               <=> req[q].pc = "holding" /\ req[q].sid = t
      BY Zenon
    <2> QED
      BY Zenon, <2>1 DEF Holders
  <1>3. Cardinality(Holders(s) \cup {r}) = Cardinality(Holders(s)) + 1
    <2>1. IsFiniteSet(Holders(s))
      BY Zenon, HoldersFinite
    <2> QED
      BY Zenon, <1>1, <2>1, FS_AddElement
  <1> QED
    BY Zenon, <1>1, <1>2, <1>3

(* One that lets it go is one less. *)
LEMMA OneLess ==
    ASSUME NEW s \in Sids, NEW r \in Requests, req[r].pc = "holding", req[r].sid = s,
           req'[r].pc # "holding",
           \A q \in Requests \ {r} : req'[q] = req[q]
    PROVE  /\ Holders(s)' = Holders(s) \ {r}
           /\ Cardinality(Holders(s)') = Cardinality(Holders(s)) - 1
           /\ \A t \in Sids \ {s} : Holders(t)' = Holders(t)
  <1>1. Holders(s)' = Holders(s) \ {r} /\ r \in Holders(s)
    BY Zenon DEF Holders
  <1>2. ASSUME NEW t \in Sids \ {s} PROVE Holders(t)' = Holders(t)
    <2>1. \A q \in Requests : req'[q].pc = "holding" /\ req'[q].sid = t
                               <=> req[q].pc = "holding" /\ req[q].sid = t
      BY Zenon
    <2> QED
      BY Zenon, <2>1 DEF Holders
  <1>3. Cardinality(Holders(s) \ {r}) = Cardinality(Holders(s)) - 1
    <2>1. IsFiniteSet(Holders(s))
      BY Zenon, HoldersFinite
    <2> QED
      BY Zenon, <1>1, <2>1, FS_RemoveElement
  <1> QED
    BY Zenon, <1>1, <1>2, <1>3

(* A new conversation leaves the others usable. *)
LEMMA AppendKeeps ==
    ASSUME ConversationTypes, NEW v \in Conversation, convs' = Append(convs, v)
    PROVE  /\ convs' \in Seq(Conversation) /\ Len(convs) + 1 \in Nat \ {0}
           /\ \A k, s : Usable(k, s) => Usable(k, s)'
           /\ \A k : k = Len(convs) + 1 /\ v.connected => Usable(k, v.sid)'
  BY DEF ConversationTypes, Usable

LEMMA HeldUnchanged == ASSUME HeldInv, UNCHANGED attached PROVE HeldInv'
  <1>1. ConversationTypes'
    BY Zenon DEF HeldInv, ConversationTypes, attached
  <1>2. ASSUME NEW s \in Sids PROVE Counted(s)'
    <2>1. Holders(s)' = Holders(s)
      BY Zenon DEF Holders, attached
    <2> QED
      BY <2>1 DEF HeldInv, Counted, Usable, attached
  <1>3. ASSUME NEW r \in Requests PROVE Connecting(r)' /\ (req[r].pc = "holding" => req[r].sid \in Sids)'
    BY Zenon DEF HeldInv, Connecting, Usable, attached
  <1> QED
    BY Zenon, <1>1, <1>2, <1>3 DEF HeldInv

(* attach_to_conversation: of one that is held, of one that is detached,   *)
(* of a new one that needs no connecting, of one that does                 *)
LEMMA AttachHeld ==
    ASSUME HeldInv, SessionTypes, NEW r \in Requests, NEW s \in Sids, Attach(r, s) PROVE HeldInv'
  <1>0. /\ ConversationTypes /\ Counted(s) /\ req[r].pc = "idle" /\ lock = None
        /\ \A q \in Requests : req[q].pc # "connecting"
    BY Zenon, ManagerAssumption DEF HeldInv, Connecting, Attach
  <1>1. CASE active[s].count > 0
    <2>1. /\ active' = [active EXCEPT ![s].count = @ + 1]
          /\ req' = [req EXCEPT ![r] = [pc |-> "holding", sid |-> s, conv |-> active[s].conv]]
          /\ UNCHANGED <<convs, detached, lock>>
      BY <1>0, <1>1 DEF Attach, ConversationTypes
    <2>2. ConversationTypes'
      BY <1>0, <2>1 DEF ConversationTypes
    <2>3. /\ Holders(s)' = Holders(s) \cup {r}
          /\ Cardinality(Holders(s)') = Cardinality(Holders(s)) + 1
          /\ \A t \in Sids \ {s} : Holders(t)' = Holders(t)
      BY Zenon, <1>0, <2>1, OneMore DEF ConversationTypes
    <2>4. Counted(s)'
      BY <1>0, <1>1, <2>1, <2>3 DEF Counted, Usable, ConversationTypes, Holders
    <2>5. ASSUME NEW t \in Sids \ {s} PROVE Counted(t)'
      <3>1. Counted(t) /\ Holders(t)' = Holders(t) /\ active'[t] = active[t]
            /\ \A q \in Holders(t) : req'[q] = req[q]
        BY Zenon, <1>0, <2>1, <2>3 DEF HeldInv, ConversationTypes, Holders
      <3> QED
        BY <2>1, <3>1 DEF Counted, Usable
    <2>6. ASSUME NEW q \in Requests PROVE Connecting(q)' /\ (req[q].pc = "holding" => req[q].sid \in Sids)'
      BY Zenon, <1>0, <2>1 DEF HeldInv, Connecting, ConversationTypes
    <2> QED
      BY Zenon, <2>2, <2>4, <2>5, <2>6 DEF HeldInv
  <1>2. CASE active[s].count = 0
    <2>0. Holders(s) = {}
      BY Zenon, <1>0, <1>2, HoldersFinite, FS_EmptySet DEF Counted
    <2>1. ASSUME NEW k \in Nat, Usable(k, s)',
                 active' = [active EXCEPT ![s] = [conv |-> k, count |-> 1]],
                 req' = [req EXCEPT ![r] = [pc |-> "holding", sid |-> s, conv |-> k]],
                 detached' = [detached EXCEPT ![s] = 0], UNCHANGED lock,
                 convs' \in Seq(Conversation), \A j, t : Usable(j, t) => Usable(j, t)'
          PROVE  HeldInv'
      <3>1. ConversationTypes'
        BY Zenon, <1>0, <2>1 DEF ConversationTypes
      <3>2. /\ Holders(s)' = Holders(s) \cup {r}
            /\ Cardinality(Holders(s)') = Cardinality(Holders(s)) + 1
            /\ \A t \in Sids \ {s} : Holders(t)' = Holders(t)
        BY Zenon, <1>0, <2>1, OneMore DEF ConversationTypes
      <3>3. Counted(s)'
        BY <1>0, <1>2, <2>0, <2>1, <3>2 DEF Counted, ConversationTypes
      <3>4. ASSUME NEW t \in Sids \ {s} PROVE Counted(t)'
        BY ZenonT(60), <2>1, <3>2 DEF HeldInv, Counted, ConversationTypes, Holders
      <3>5. ASSUME NEW q \in Requests PROVE Connecting(q)' /\ (req[q].pc = "holding" => req[q].sid \in Sids)'
        BY Zenon, <1>0, <2>1 DEF HeldInv, Connecting, ConversationTypes
      <3> QED
        BY Zenon, <3>1, <3>3, <3>4, <3>5 DEF HeldInv
    <2>2. CASE detached[s] # 0
      <3>1. /\ active' = [active EXCEPT ![s] = [conv |-> detached[s], count |-> 1]]
            /\ detached' = [detached EXCEPT ![s] = 0]
            /\ req' = [req EXCEPT ![r] = [pc |-> "holding", sid |-> s, conv |-> detached[s]]]
            /\ UNCHANGED <<convs, lock>>
        BY <1>2, <2>2 DEF Attach
      <3> QED
        BY Zenon, <1>0, <2>1, <2>2, <3>1 DEF Counted, Usable, ConversationTypes
    <2>3. CASE detached[s] = 0
      <3> PICK k : k = Len(convs) + 1
        BY Zenon
      <3> PICK v : v = NewConversation(s)
        BY Zenon
      <3>1. v \in Conversation /\ v.connected /\ v.sid = s
        BY Zenon DEF NewConversation, Conversation, SessionTypes
      <3>2. convs' = Append(convs, v) /\ UNCHANGED detached
        BY <1>2, <2>3 DEF Attach
      <3>3. /\ convs' \in Seq(Conversation) /\ k \in Nat /\ k # 0 /\ Usable(k, s)'
            /\ \A j, t : Usable(j, t) => Usable(j, t)'
        BY Zenon, <1>0, <3>1, <3>2, AppendKeeps
      <3>4. CASE v.shared
        <4>1. /\ active' = [active EXCEPT ![s] = [conv |-> k, count |-> 1]]
              /\ req' = [req EXCEPT ![r] = [pc |-> "holding", sid |-> s, conv |-> k]]
              /\ UNCHANGED lock
          BY <1>2, <2>3, <3>4 DEF Attach
        <4>2. detached' = [detached EXCEPT ![s] = 0]
          BY Zenon, <1>0, <2>3, <3>2 DEF ConversationTypes
        <4> QED
          BY Zenon, <2>1, <3>3, <4>1, <4>2
      <3>5. CASE ~v.shared
        <4>1. /\ lock' = r /\ UNCHANGED active
              /\ req' = [req EXCEPT ![r] = [pc |-> "connecting", sid |-> s, conv |-> k]]
          BY <1>2, <2>3, <3>5 DEF Attach
        <4>2. ConversationTypes'
          BY ZenonT(60), <1>0, <3>2, <3>3, <4>1 DEF ConversationTypes
        <4>3. ASSUME NEW t \in Sids PROVE Counted(t)'
          <5>1. Holders(t)' = Holders(t)
            BY Zenon, <1>0, <4>1 DEF Holders, ConversationTypes
          <5> QED
            BY ZenonT(60), <1>0, <3>2, <3>3, <4>1, <5>1 DEF HeldInv, Counted, ConversationTypes, Holders
        <4>4. ASSUME NEW q \in Requests PROVE Connecting(q)' /\ (req[q].pc = "holding" => req[q].sid \in Sids)'
          BY Zenon, <1>0, <1>2, <2>3, <3>2, <3>3, <4>1 DEF HeldInv, Connecting, ConversationTypes
        <4> QED
          BY Zenon, <4>2, <4>3, <4>4 DEF HeldInv
      <3> QED
        BY Zenon, <3>4, <3>5
    <2> QED
      BY Zenon, <2>2, <2>3
  <1> QED
    BY <1>0, <1>1, <1>2 DEF ConversationTypes

(* What holds of every other conversation when that of one changes *)
LEMMA OtherCounted ==
    ASSUME HeldInv, NEW t \in Sids, Holders(t)' = Holders(t), active'[t] = active[t],
           detached'[t] = detached[t], \A q \in Holders(t) : req'[q] = req[q],
           \A k : Usable(k, t) => Usable(k, t)'
    PROVE  Counted(t)'
  BY Zenon DEF HeldInv, Counted

(* connect() returned: the request is the first to hold its conversation. *)
LEMMA AttachConnectsHeld == ASSUME HeldInv, NEW r \in Requests, AttachConnects(r) PROVE HeldInv'
  <1> PICK s : s = req[r].sid
    BY Zenon
  <1>0. /\ ConversationTypes /\ s \in Sids /\ Counted(s) /\ lock = r
        /\ active[s].count = 0 /\ detached[s] = 0 /\ Usable(req[r].conv, s)
        /\ \A q \in Requests \ {r} : req[q].pc # "connecting"
    BY Zenon DEF HeldInv, Connecting, AttachConnects
  <1>1. /\ active' = [active EXCEPT ![s] = [conv |-> req[r].conv, count |-> 1]]
        /\ req' = [req EXCEPT ![r].pc = "holding"] /\ lock' = None /\ UNCHANGED <<convs, detached>>
        /\ req[r].pc = "connecting"
    BY Zenon DEF AttachConnects
  <1>2. ConversationTypes'
    BY ZenonT(60), <1>0, <1>1 DEF ConversationTypes
  <1>3. Holders(s) = {}
    BY Zenon, <1>0, HoldersFinite, FS_EmptySet DEF Counted
  <1>4. /\ Holders(s)' = Holders(s) \cup {r}
        /\ Cardinality(Holders(s)') = Cardinality(Holders(s)) + 1
        /\ \A t \in Sids \ {s} : Holders(t)' = Holders(t)
    BY <1>0, <1>1, OneMore DEF ConversationTypes
  <1>5. Counted(s)'
    BY <1>0, <1>1, <1>3, <1>4 DEF Counted, Usable, ConversationTypes
  <1>6. ASSUME NEW t \in Sids \ {s} PROVE Counted(t)'
    <2>1. active'[t] = active[t] /\ \A q \in Holders(t) : req'[q] = req[q]
      BY Zenon, <1>0, <1>1 DEF ConversationTypes, Holders
    <2>2. \A k : Usable(k, t) => Usable(k, t)'
      BY Zenon, <1>1 DEF Usable
    <2> QED
      BY Zenon, <1>1, <1>4, <2>1, <2>2, OtherCounted
  <1>7. ASSUME NEW q \in Requests PROVE Connecting(q)' /\ (req[q].pc = "holding" => req[q].sid \in Sids)'
    BY Zenon, <1>0, <1>1 DEF HeldInv, Connecting, ConversationTypes
  <1> QED
    BY Zenon, <1>2, <1>5, <1>6, <1>7 DEF HeldInv

(* What disconnect leaves: the conversations outside K as they were. *)
LEMMA DisconnectKeeps ==
    ASSUME ConversationTypes, NEW K, Disconnect(K)
    PROVE  /\ convs' \in Seq(Conversation)
           /\ \A k, s : Usable(k, s) /\ k \notin K => Usable(k, s)'
  <1>1. /\ DOMAIN convs' = DOMAIN convs
        /\ \A k \in DOMAIN convs : convs'[k] \in Conversation /\ convs'[k].sid = convs[k].sid
                                   /\ (k \notin K => convs'[k] = convs[k])
    <2> DEFINE own == {k \in K : ~convs[k].shared}
    <2>1. convs' = [k \in DOMAIN convs |->
                      IF k \in own THEN [convs[k] EXCEPT !.connected = FALSE] ELSE convs[k]]
      BY Zenon DEF Disconnect
    <2>2. \A k \in own : k \in K
      BY Zenon
    <2> HIDE DEF own
    <2>3. \A k \in DOMAIN convs : convs[k] \in Conversation
      BY DEF ConversationTypes
    <2> QED
      BY Zenon, <2>1, <2>2, <2>3 DEF Conversation
  <1>2. convs' \in Seq(Conversation)
    BY SMTT(60), <1>1 DEF Disconnect, ConversationTypes
  <1> QED
    BY Zenon, <1>1, <1>2 DEF Usable

(* connect() raised: the conversation that may be disconnected is nobody's. *)
LEMMA AttachFailsHeld == ASSUME HeldInv, NEW r \in Requests, AttachFails(r) PROVE HeldInv'
  <1> PICK s : s = req[r].sid
    BY Zenon
  <1>0. /\ ConversationTypes /\ s \in Sids /\ lock = r
        /\ active[s].count = 0 /\ detached[s] = 0 /\ Usable(req[r].conv, s)
        /\ \A q \in Requests \ {r} : req[q].pc # "connecting"
    BY Zenon DEF HeldInv, Connecting, AttachFails
  <1>1. /\ req' = [req EXCEPT ![r] = NoRequest] /\ lock' = None /\ UNCHANGED <<active, detached>>
        /\ req[r].pc = "connecting"
    BY Zenon DEF AttachFails
  <1>2. /\ convs' \in Seq(Conversation)
        /\ \A k, t : Usable(k, t) /\ k # req[r].conv => Usable(k, t)'
    <2>1. CASE Disconnect({req[r].conv})
      BY <1>0, <2>1, DisconnectKeeps
    <2>2. CASE UNCHANGED <<convs, sess>>
      BY Zenon, <1>0, <2>2 DEF ConversationTypes, Usable
    <2> QED
      BY Zenon, <2>1, <2>2 DEF AttachFails
  <1>3. ConversationTypes'
    BY Zenon, <1>0, <1>1, <1>2 DEF ConversationTypes, NoRequest
  <1>4. ASSUME NEW t \in Sids PROVE Counted(t)'
    <2>1. Holders(t)' = Holders(t) /\ \A q \in Holders(t) : req'[q] = req[q]
      BY Zenon, <1>0, <1>1 DEF ConversationTypes, Holders, NoRequest
    <2>2. CASE t = s
      BY <1>0, <1>1, <2>1, <2>2 DEF HeldInv, Counted
    <2>3. CASE t # s
      <3>1. \A k : Usable(k, t) => Usable(k, t)'
        BY Zenon, <1>0, <1>2, <2>3 DEF Usable
      <3> QED
        BY Zenon, <1>1, <2>1, <3>1, OtherCounted
    <2> QED
      BY Zenon, <2>2, <2>3
  <1>5. ASSUME NEW q \in Requests PROVE Connecting(q)' /\ (req[q].pc = "holding" => req[q].sid \in Sids)'
    BY Zenon, <1>0, <1>1 DEF HeldInv, Connecting, ConversationTypes, NoRequest
  <1> QED
    BY Zenon, <1>3, <1>4, <1>5 DEF HeldInv

(* detach_from_conversation: the last holder leaves it detached. *)
LEMMA DetachHeld == ASSUME HeldInv, NEW r \in Requests, Detach(r) PROVE HeldInv'
  <1> PICK s : s = req[r].sid
    BY Zenon
  <1>0. /\ ConversationTypes /\ s \in Sids /\ Counted(s) /\ r \in Holders(s)
        /\ \A q \in Requests : req[q].pc # "connecting"
    BY Zenon, ManagerAssumption DEF HeldInv, Connecting, Detach, Holders
  <1>1. req' = [req EXCEPT ![r] = NoRequest] /\ UNCHANGED <<convs, lock>> /\ req[r].pc = "holding"
    BY Zenon DEF Detach
  <1>2. /\ Holders(s)' = Holders(s) \ {r}
        /\ Cardinality(Holders(s)') = Cardinality(Holders(s)) - 1
        /\ \A t \in Sids \ {s} : Holders(t)' = Holders(t)
    BY <1>0, <1>1, OneLess DEF ConversationTypes, NoRequest
  <1>3. ASSUME NEW q \in Requests PROVE Connecting(q)' /\ (req[q].pc = "holding" => req[q].sid \in Sids)'
    BY Zenon, <1>0, <1>1 DEF HeldInv, Connecting, ConversationTypes, NoRequest
  <1>4. \A k, t : Usable(k, t) => Usable(k, t)'
    BY Zenon, <1>1 DEF Usable
  <1>5. \A q \in Holders(s)' : req'[q] = req[q] /\ q \in Holders(s)
    BY <1>0, <1>1, <1>2 DEF ConversationTypes
  <1>6. ASSUME NEW t \in Sids \ {s}, active'[t] = active[t], detached'[t] = detached[t] PROVE Counted(t)'
    <2>1. \A q \in Holders(t) : req'[q] = req[q]
      BY Zenon, <1>0, <1>1 DEF ConversationTypes, Holders
    <2> QED
      BY Zenon, <1>2, <1>4, <1>6, <2>1, OtherCounted
  <1>7. CASE active[s].count > 1
    <2>1. active' = [active EXCEPT ![s].count = @ - 1] /\ UNCHANGED detached
      BY <1>7 DEF Detach
    <2>2. ConversationTypes'
      <3>1. active[s].count - 1 \in Nat
        BY <1>0, <1>7 DEF ConversationTypes
      <3>2. active' \in [Sids -> [conv : Nat, count : Nat]]
        <4> DEFINE a == [active[s] EXCEPT !.count = @ - 1]
        <4>1. a \in [conv : Nat, count : Nat]
          BY ZenonT(60), <1>0, <3>1 DEF ConversationTypes
        <4>2. active' = [active EXCEPT ![s] = a]
          BY Zenon, <2>1
        <4> QED
          BY Zenon, <1>0, <4>1, <4>2 DEF ConversationTypes
      <3>3. req' \in [Requests -> [pc : {"idle", "connecting", "holding"},
                                   sid : Sids \cup {None}, conv : Nat]]
        BY Zenon, <1>0, <1>1 DEF ConversationTypes, NoRequest
      <3> QED
        BY ZenonT(60), <1>0, <1>1, <2>1, <3>2, <3>3 DEF ConversationTypes
    <2>3. Counted(s)'
      <3>1. active'[s].conv = active[s].conv /\ active'[s].count = active[s].count - 1 /\ active[s].count \in Nat
        BY <1>0, <2>1 DEF ConversationTypes
      <3>2. Usable(active[s].conv, s)' /\ detached'[s] = 0
        BY <1>0, <1>1, <1>7, <2>1, <3>1 DEF Counted, Usable
      <3> QED
        BY ZenonT(60), <1>0, <1>2, <1>5, <2>1, <3>1, <3>2 DEF Counted
    <2>4. ASSUME NEW t \in Sids \ {s} PROVE Counted(t)'
      BY Zenon, <1>0, <1>6, <2>1 DEF ConversationTypes
    <2> QED
      BY ZenonT(60), <1>3, <2>2, <2>3, <2>4 DEF HeldInv
  <1>8. CASE active[s].count = 1
    <2>1. active' = [active EXCEPT ![s] = NotActive] /\ detached' = [detached EXCEPT ![s] = req[r].conv]
      BY <1>8 DEF Detach
    <2>2. ConversationTypes'
      BY Zenon, <1>0, <1>1, <2>1 DEF ConversationTypes, NoRequest, NotActive
    <2>3. Holders(s)' = {}
      <3>1. Cardinality(Holders(s)') = 0 /\ IsFiniteSet(Holders(s)')
        BY <1>0, <1>2, <1>8, HoldersFinite, FS_RemoveElement DEF Counted
      <3> QED
        BY ZenonT(60), <3>1, FS_EmptySet
    <2>4. Counted(s)'
      <3>1. active'[s].count = 0 /\ detached'[s] = active[s].conv /\ Usable(active[s].conv, s)
        BY <1>0, <1>8, <2>1 DEF Counted, ConversationTypes, NotActive
      <3>2. Usable(detached[s], s)'
        BY Zenon, <1>1, <3>1 DEF Usable
      <3> QED
        BY SMTT(60), <2>3, <3>1, <3>2, FS_EmptySet DEF Counted
    <2>5. ASSUME NEW t \in Sids \ {s} PROVE Counted(t)'
      BY Zenon, <1>0, <1>6, <2>1 DEF ConversationTypes
    <2> QED
      BY Zenon, <1>3, <2>2, <2>4, <2>5 DEF HeldInv
  <1> QED
    BY Zenon, <1>7, <1>8 DEF Detach

(* _cleanup_stale: what is detached is held by nobody. *)
LEMMA CleanupHeld == ASSUME HeldInv, CleanupPass PROVE HeldInv'
  <1> PICK K : K = {detached[s] : s \in Sids} \ {0}
    BY Zenon
  <1>0. ConversationTypes /\ \A q \in Requests : req[q].pc # "connecting"
    BY Zenon, ManagerAssumption DEF HeldInv, Connecting, CleanupPass
  <1>1. Disconnect(K) /\ detached' = [s \in Sids |-> 0] /\ UNCHANGED <<active, req, lock>>
    BY Zenon DEF CleanupPass
  <1>2. convs' \in Seq(Conversation) /\ \A k, s : Usable(k, s) /\ k \notin K => Usable(k, s)'
    BY Zenon, <1>0, <1>1, DisconnectKeeps
  <1>3. ConversationTypes'
    BY Zenon, <1>0, <1>1, <1>2 DEF ConversationTypes
  <1>4. ASSUME NEW s \in Sids PROVE Counted(s)'
    <2>1. Holders(s)' = Holders(s)
      BY Zenon, <1>1 DEF Holders
    <2>2. ASSUME active[s].count > 0 PROVE active[s].conv \notin K
      <3> SUFFICES ASSUME NEW t \in Sids, active[s].conv = detached[t], detached[t] # 0 PROVE FALSE
        BY Zenon
      <3> QED
        BY <2>2 DEF HeldInv, Counted, Usable
    <2>3. active[s].count > 0 => Usable(active[s].conv, s)'
      <3>1. active[s].count > 0 => Usable(active[s].conv, s)
        BY Zenon DEF HeldInv, Counted
      <3> PICK k : k = active[s].conv
        BY Zenon
      <3>2. active[s].count > 0 => Usable(k, s)'
        BY Zenon, <1>2, <2>2, <3>1
      <3> QED
        BY Zenon, <1>1, <3>2
    <2> QED
      BY Zenon, <1>1, <2>1, <2>3 DEF HeldInv, Counted
  <1>5. ASSUME NEW q \in Requests PROVE Connecting(q)' /\ (req[q].pc = "holding" => req[q].sid \in Sids)'
    BY Zenon, <1>0, <1>1 DEF HeldInv, Connecting
  <1> QED
    BY Zenon, <1>3, <1>4, <1>5 DEF HeldInv

-----------------------------------------------------------------------------
(* The fields of a session, and what it is with other values in them *)
LEMMA SessionShape ==
    ASSUME SessionTypes, NEW n \in DOMAIN sess
    PROVE  /\ n \in Nat \ {0} /\ sess[n] \in Session
           /\ sess[n].sid \in Sids /\ sess[n].stream \in {"open", "closed"}
  <1>1. n \in Nat \ {0} /\ sess[n] \in Session
    BY DEF SessionTypes
  <1> QED
    BY Zenon, <1>1 DEF Session

(* z with other values, as far as closes and streams are concerned *)
Like(y, z) == y \in Session /\ y.sid = z.sid /\ y.closed = z.closed /\ y.stream = z.stream

LEMMA SessionExcept ==
    ASSUME NEW z \in Session
    PROVE  /\ Like([z EXCEPT !.start = "ended"], z)
           /\ Like([z EXCEPT !.start = "connecting", !.rt = "made"], z)
           /\ \A rt \in {"open", z.rt} : Like([z EXCEPT !.start = "building", !.rt = rt], z)
           /\ Like([z EXCEPT !.start = "ended", !.ctl = "open"], z)
           /\ Like([z EXCEPT !.late = TRUE], z)
  BY ZenonT(60) DEF Session, Like

(* Sessions that start, get late or have their stream closed: what is      *)
(* known of closes and of the table stays true.                            *)
LEMMA SessionsGoOn ==
    ASSUME SessionInv, UNCHANGED <<loops, conn, joiner, closer, cleaning, stray, lost>>,
           sess' \in Seq(Session), DOMAIN sess' = DOMAIN sess,
           \A n \in DOMAIN sess : /\ sess'[n].sid = sess[n].sid /\ sess'[n].closed = sess[n].closed
                                  /\ sess[n].stream = "closed" => sess'[n].stream = "closed"
    PROVE  SessionInv'
  <1>0. \A n \in DOMAIN sess : sess[n].stream \in {"open", "closed"}
    BY Zenon, SessionShape DEF SessionInv
  <1>1. SessionTypes' /\ TableInv'
    BY Zenon DEF SessionInv, SessionTypes, TableInv
  <1>2. CloserInv'
    BY Zenon DEF SessionInv, CloserInv
  <1>3. MarkedInv'
    BY Zenon, <1>0 DEF SessionInv, MarkedInv
  <1>4. NoSilentLoop'
    BY Zenon DEF SessionInv, NoSilentLoop
  <1> QED
    BY Zenon, <1>1, <1>2, <1>3, <1>4 DEF SessionInv

(* AgentSession.start *)
LEMMA StartInv ==
    ASSUME SessionInv, NEW n \in DOMAIN sess, StartStep(n) \/ StartGetsLate(n) PROVE SessionInv'
  <1>1. UNCHANGED <<loops, conn, joiner, closer, cleaning, stray, lost>>
    BY Zenon DEF StartStep, StartBegins, StartConnects, StartBuilds, StartRaises, StartGetsLate
  <1>2. \E z : sess' = [sess EXCEPT ![n] = z] /\ Like(z, sess[n])
    <2>1. sess[n] \in Session
      BY Zenon, SessionShape DEF SessionInv
    <2>2. CASE StartBegins(n)
      BY Zenon, <2>1, <2>2, SessionExcept DEF StartBegins
    <2>3. CASE StartConnects(n)
      BY Zenon, <2>1, <2>3, SessionExcept DEF StartConnects
    <2>4. CASE StartBuilds(n)
      BY Zenon, <2>1, <2>4, SessionExcept DEF StartBuilds
    <2>5. CASE StartRaises(n)
      BY Zenon, <2>1, <2>5, SessionExcept DEF StartRaises
    <2>6. CASE StartGetsLate(n)
      BY Zenon, <2>1, <2>6, SessionExcept DEF StartGetsLate
    <2> QED
      BY Zenon, <2>2, <2>3, <2>4, <2>5, <2>6 DEF StartStep
  <1>3. /\ sess' \in Seq(Session) /\ DOMAIN sess' = DOMAIN sess
        /\ \A m \in DOMAIN sess : /\ sess'[m].sid = sess[m].sid /\ sess'[m].closed = sess[m].closed
                                  /\ sess[m].stream = "closed" => sess'[m].stream = "closed"
    BY <1>2 DEF SessionInv, SessionTypes, Like
  <1> QED
    BY Zenon, <1>1, <1>3, SessionsGoOn

(* What disconnect leaves of the sessions *)
LEMMA DisconnectSessions ==
    ASSUME SessionTypes, NEW K, Disconnect(K)
    PROVE  /\ sess' \in Seq(Session) /\ DOMAIN sess' = DOMAIN sess
           /\ \A n \in DOMAIN sess : /\ sess'[n].sid = sess[n].sid /\ sess'[n].closed = sess[n].closed
                                     /\ sess[n].stream = "closed" => sess'[n].stream = "closed"
  <1> PICK N : N = {n \in DOMAIN sess : \E k \in K : ~convs[k].shared /\ convs[k].ses = n}
    BY Zenon
  <1>1. sess' = [n \in DOMAIN sess |-> IF n \in N THEN [sess[n] EXCEPT !.stream = "closed"] ELSE sess[n]]
    BY Zenon DEF Disconnect
  <1>2. /\ DOMAIN sess' = DOMAIN sess
        /\ \A n \in DOMAIN sess : sess'[n] = IF n \in N THEN [sess[n] EXCEPT !.stream = "closed"] ELSE sess[n]
    BY Zenon, <1>1
  <1>3. ASSUME NEW n \in DOMAIN sess
        PROVE  /\ sess'[n] \in Session /\ sess'[n].sid = sess[n].sid /\ sess'[n].closed = sess[n].closed
               /\ sess[n].stream = "closed" => sess'[n].stream = "closed"
    <2>1. sess[n] \in Session
      BY Zenon, SessionShape
    <2> QED
      BY <1>2, <2>1 DEF Session
  <1>4. sess' \in Seq(Session)
    <2>1. Len(sess) \in Nat /\ DOMAIN sess = 1 .. Len(sess)
      BY DEF SessionTypes
    <2>2. sess' = [n \in 1 .. Len(sess) |-> sess'[n]]
      BY Zenon, <1>1, <2>1
    <2> QED
      BY <1>3, <2>1, <2>2
  <1> QED
    BY Zenon, <1>2, <1>3, <1>4

(* Attached conversations, which may close a stream *)
LEMMA AttachInv ==
    ASSUME SessionInv, NEW r \in Requests,
           AttachStep(r) \/ Detach(r) \/ \E s \in Sids : Attach(r, s)
    PROVE  SessionInv'
  <1>1. UNCHANGED <<loops, conn, joiner, closer, cleaning, stray, lost>>
    BY Zenon DEF AttachStep, AttachConnects, AttachFails, Detach, Attach, sessions
  <1>2. UNCHANGED sess \/ \E K : Disconnect(K)
    BY Zenon DEF AttachStep, AttachConnects, AttachFails, Detach, Attach, sessions
  <1>3. CASE UNCHANGED sess
    BY Zenon, <1>1, <1>3, SessionsGoOn DEF SessionInv, SessionTypes
  <1>4. CASE \E K : Disconnect(K)
    BY Zenon, <1>1, <1>4, DisconnectSessions, SessionsGoOn DEF SessionInv
  <1> QED
    BY Zenon, <1>2, <1>3, <1>4

(* A close that has no session yet goes on without one. *)
LEMMA CloserMoves ==
    ASSUME SessionInv, NEW x \in Closers, closer[x].pc \in {"idle", "begin", "disconnect"},
           NEW v, closer' = [closer EXCEPT ![x] = v],
           v \in [pc : {"begin", "disconnect"}, sid : Sids, conns : SUBSET Clients, ses : {0}],
           closer[x].pc = "idle" => x \notin Sids,
           UNCHANGED <<sess, loops, lost, cleaning>>, SessionTypes'
    PROVE  SessionInv'
  <1>1. TableInv'
    BY Zenon DEF SessionInv, TableInv
  <1>2. /\ closer'[x] = v /\ \A y \in Closers \ {x} : closer'[y] = closer[y]
        /\ closer[x].ses = 0
    BY DEF SessionInv, SessionTypes, CloserInv, NoCloser
  <1>3. CloserInv'
    BY <1>2 DEF SessionInv, CloserInv
  <1>4. \A n \in DOMAIN sess : n # 0
    BY DEF SessionInv, SessionTypes
  <1>5. MarkedInv'
    BY <1>2, <1>4 DEF SessionInv, MarkedInv
  <1>6. NoSilentLoop'
    BY <1>2, <1>4 DEF SessionInv, NoSilentLoop
  <1> QED
    BY Zenon, <1>1, <1>3, <1>5, <1>6 DEF SessionInv

(* A session leaves the table for the close that will release it. *)
LEMMA PopInv ==
    ASSUME SessionInv, NEW x \in Closers, closer[x].pc \in {"begin", "disconnect"},
           Pop(x, closer[x].sid), UNCHANGED <<sess, lost, cleaning>>,
           conn' \in [Clients -> Sids \cup {None}],
           joiner' \in [Clients -> [pc : {"away", "evict", "joined"}, sid : Sids \cup {None},
                                    evict : SUBSET Sids]],
           stray' \subseteq Clients
    PROVE  SessionInv'
  <1> PICK s : s = closer[x].sid
    BY Zenon
  <1>0. s \in Sids /\ closer[x].ses = 0 /\ loops[s] \in Nat
    BY DEF SessionInv, SessionTypes, CloserInv
  <1> PICK v : v = IF loops[s] = 0 THEN NoCloser
                   ELSE [NoCloser EXCEPT !.pc = "emit", !.sid = s, !.ses = loops[s]]
    BY Zenon
  <1>1. loops' = [loops EXCEPT ![s] = 0] /\ closer' = [closer EXCEPT ![x] = v]
    BY Zenon DEF Pop
  <1>2. /\ v \in [pc : {"idle", "emit"}, sid : Sids \cup {None}, conns : SUBSET Clients, ses : Nat]
        /\ v.ses = loops[s] /\ (v.pc = "idle" => v = NoCloser) /\ (v.pc = "emit" => v.sid = s /\ loops[s] # 0)
    BY Zenon, <1>0 DEF NoCloser
  <1>3. /\ closer'[x] = v /\ \A y \in Closers \ {x} : closer'[y] = closer[y]
        /\ loops'[s] = 0 /\ \A t \in Sids \ {s} : loops'[t] = loops[t]
    BY Zenon, <1>0, <1>1 DEF SessionInv, SessionTypes
  <1>4. SessionTypes'
    BY Zenon, <1>0, <1>1, <1>2 DEF SessionInv, SessionTypes
  <1>5. TableInv'
    BY Zenon, <1>3 DEF SessionInv, TableInv
  <1>6. CloserInv'
    <2>1. ASSUME NEW y \in Closers
          PROVE  /\ closer'[y].pc = "idle" => closer'[y] = NoCloser
                 /\ closer'[y].pc # "idle" => closer'[y].sid \in Sids
                 /\ closer'[y].pc \in {"begin", "disconnect"} => closer'[y].ses = 0
                 /\ closer'[y].pc \in {"emit", "wait"} => closer'[y].ses \in DOMAIN sess
      <3>1. CASE y = x
        BY ZenonT(60), <1>0, <1>2, <1>3, <3>1 DEF SessionInv, TableInv
      <3>2. CASE y # x
        BY <1>3, <3>2 DEF SessionInv, CloserInv
      <3> QED
        BY Zenon, <3>1, <3>2
    <2>2. ASSUME ~cleaning, NEW t \in Sids PROVE closer'[t].pc = "idle"
      BY Zenon, <1>3, <2>2 DEF SessionInv, CloserInv, Closers
    <2> QED
      BY Zenon, <2>1, <2>2 DEF CloserInv
  <1>7. \A n \in DOMAIN sess : n # 0 /\ sess[n].sid \in Sids
    BY Zenon, SessionShape DEF SessionInv
  <1>8. MarkedInv'
    BY <1>0, <1>3, <1>7 DEF SessionInv, MarkedInv
  <1>9. NoSilentLoop'
    <2> SUFFICES ASSUME NEW n \in DOMAIN sess
                 PROVE  \/ loops'[sess[n].sid] = n
                        \/ sess[n].closed /\ sess[n].stream = "closed"
                        \/ n \in lost \/ \E y \in Closers : closer'[y].ses = n
      BY Zenon DEF NoSilentLoop
    <2>1. CASE sess[n].sid = s /\ loops[s] = n
      BY Zenon, <1>2, <1>3, <2>1
    <2>2. CASE ~(sess[n].sid = s /\ loops[s] = n)
      <3>1. loops[sess[n].sid] = n => loops'[sess[n].sid] = n
        BY Zenon, <1>3, <1>7, <2>2
      <3>2. ASSUME NEW y \in Closers, closer[y].ses = n PROVE closer'[y].ses = n
        BY Zenon, <1>0, <1>3, <1>7, <3>2
      <3> QED
        BY Zenon, <3>1, <3>2 DEF SessionInv, NoSilentLoop
    <2> QED
      BY Zenon, <2>1, <2>2
  <1> QED
    BY Zenon, <1>4, <1>5, <1>6, <1>8, <1>9 DEF SessionInv

(* Only what is known of the clients changes. *)
LEMMA ClientsMove ==
    ASSUME SessionInv, UNCHANGED <<sess, loops, closer, cleaning, lost>>, SessionTypes'
    PROVE  SessionInv'
  BY DEF SessionInv, TableInv, CloserInv, MarkedInv, NoSilentLoop

(* The tail of _start_agent_loop *)
LEMMA RegisterInv ==
    ASSUME SessionInv, NEW c \in Clients, NEW s \in Sids, Register(c, s),
           UNCHANGED <<closer, cleaning>>,
           conn' \in [Clients -> Sids \cup {None}], stray' \subseteq Clients
    PROVE  SessionInv'
  <1>1. /\ sess' \in Seq(Session) /\ Len(sess) \in Nat /\ Len(sess') = Len(sess) + 1
        /\ \A n \in DOMAIN sess : sess'[n] = sess[n] /\ n \in 1 .. Len(sess)
        /\ sess'[Len(sess) + 1] = NewSession(s) /\ DOMAIN sess' = 1 .. Len(sess) + 1
    BY DEF SessionInv, SessionTypes, Register, NewSession, Session
  <1>2. loops' \in [Sids -> Nat] /\ loops'[s] = Len(sess) + 1 /\ \A t \in Sids \ {s} : loops'[t] = loops[t]
    BY <1>1 DEF SessionInv, SessionTypes, Register
  <1>3. lost' \subseteq Nat /\ lost \subseteq lost' /\ (loops[s] # 0 => loops[s] \in lost')
    BY DEF SessionInv, SessionTypes, Register
  <1>4. SessionTypes'
    <2>1. joiner' \in [Clients -> [pc : {"away", "evict", "joined"}, sid : Sids \cup {None},
                                   evict : SUBSET Sids]]
      BY Zenon DEF SessionInv, SessionTypes, Register, Away
    <2> QED
      BY Zenon, <1>1, <1>2, <1>3, <2>1 DEF SessionInv, SessionTypes
  <1>5. TableInv'
    BY <1>1, <1>2 DEF SessionInv, TableInv, NewSession
  <1>6. CloserInv'
    BY <1>1 DEF SessionInv, CloserInv
  <1>7. ASSUME NEW n \in DOMAIN sess', n # Len(sess) + 1 PROVE n \in DOMAIN sess
    BY <1>1, <1>7 DEF SessionInv, SessionTypes
  <1>8. MarkedInv'
    BY <1>1, <1>3, <1>7 DEF SessionInv, MarkedInv, NewSession
  <1>9. NoSilentLoop'
    <2> SUFFICES ASSUME NEW n \in DOMAIN sess'
                 PROVE  \/ loops'[sess'[n].sid] = n
                        \/ sess'[n].closed /\ sess'[n].stream = "closed"
                        \/ n \in lost' \/ \E y \in Closers : closer[y].ses = n
      BY Zenon DEF NoSilentLoop
    <2>1. CASE n = Len(sess) + 1
      BY <1>1, <1>2, <2>1 DEF NewSession
    <2>2. CASE n # Len(sess) + 1
      <3>1. n \in DOMAIN sess /\ sess'[n] = sess[n] /\ sess[n].sid \in Sids
        BY Zenon, <1>1, <1>7, <2>2, SessionShape DEF SessionInv
      <3>2. loops[sess[n].sid] = n => loops'[sess[n].sid] = n \/ n \in lost'
        BY <1>2, <1>3, <3>1, SessionShape DEF SessionInv
      <3> QED
        BY Zenon, <1>3, <3>1, <3>2 DEF SessionInv, NoSilentLoop
    <2> QED
      BY Zenon, <2>1, <2>2
  <1> QED
    BY ZenonT(60), <1>4, <1>5, <1>6, <1>8, <1>9 DEF SessionInv

(* Clients come and go, and make room. *)
LEMMA ClientInv ==
    ASSUME SessionInv, JoinInv, NEW c \in Clients,
           JoinStep(c) \/ Leave(c) \/ \E s \in Sids : Join(c, s)
    PROVE  SessionInv'
  <1> DEFINE Joiner == [pc : {"away", "evict", "joined"}, sid : Sids \cup {None}, evict : SUBSET Sids]
  <1>1. CASE StartAfterEvict(c)
    BY Zenon, <1>1, RegisterInv DEF StartAfterEvict, JoinInv, SessionInv, SessionTypes
  <1>2. ASSUME NEW v \in Sids, Evict(c, v) PROVE SessionInv'
    <2>1. joiner' \in [Clients -> Joiner] /\ UNCHANGED <<sess, loops, lost, conn, cleaning, stray>>
      <3>0. joiner \in [Clients -> Joiner]
        BY Zenon DEF SessionInv, SessionTypes
      <3>1. joiner[c] \in Joiner /\ [joiner[c] EXCEPT !.evict = @ \ {v}] \in Joiner
        BY Zenon, <3>0
      <3>2. joiner' = [joiner EXCEPT ![c] = [joiner[c] EXCEPT !.evict = @ \ {v}]]
        BY Zenon, <1>2 DEF Evict
      <3> QED
        BY Zenon, <1>2, <3>0, <3>1, <3>2 DEF Evict, sessions
    <2>2. CASE loops[v] = 0
      <3>1. UNCHANGED closer
        BY Zenon, <1>2, <2>2 DEF Evict
      <3> QED
        BY Zenon, <2>1, <3>1, ClientsMove DEF SessionInv, SessionTypes
    <2>3. CASE loops[v] # 0
      <3> PICK w : w = [NoCloser EXCEPT !.pc = "begin", !.sid = v]
        BY Zenon
      <3>1. closer' = [closer EXCEPT ![c] = w] /\ closer[c].pc = "idle"
        BY Zenon, <1>2, <2>3 DEF Evict
      <3>2. w \in [pc : {"begin", "disconnect"}, sid : Sids, conns : SUBSET Clients, ses : {0}]
        BY Zenon DEF NoCloser
      <3>3. c \in Closers /\ c \notin Sids
        BY Zenon, ManagerAssumption DEF Closers
      <3>4. SessionTypes'
        <4>1. w \in [pc : {"idle", "begin", "disconnect", "emit", "wait"}, sid : Sids \cup {None},
                     conns : SUBSET Clients, ses : Nat]
          BY Zenon DEF NoCloser
        <4> QED
          BY Zenon, <2>1, <3>1, <4>1 DEF SessionInv, SessionTypes
      <3> QED
        BY Zenon, <2>1, <3>1, <3>2, <3>3, <3>4, CloserMoves
    <2> QED
      BY Zenon, <2>2, <2>3
  <1>3. CASE Leave(c)
    <2>1. SessionTypes'
      BY Zenon, <1>3 DEF Leave, SessionInv, SessionTypes, sessions, Away
    <2> QED
      BY Zenon, <1>3, <2>1, ClientsMove DEF Leave, sessions
  <1>4. ASSUME NEW s \in Sids, Join(c, s) PROVE SessionInv'
    <2>1. conn' \in [Clients -> Sids \cup {None}] /\ stray' \subseteq Clients /\ UNCHANGED <<closer, cleaning>>
      BY ZenonT(60), <1>4 DEF Join, SessionInv, SessionTypes
    <2>2. CASE Register(c, s)
      BY Zenon, <2>1, <2>2, RegisterInv
    <2>3. CASE ~Register(c, s)
      <3>1. UNCHANGED <<sess, loops, lost>> /\ \E v \in Joiner : joiner' = [joiner EXCEPT ![c] = v]
        <4>1. [Away EXCEPT !.pc = "joined", !.sid = s] \in Joiner
          BY Zenon DEF Away
        <4>2. \A V \in SUBSET Running : [pc |-> "evict", sid |-> s, evict |-> V] \in Joiner
          BY Zenon DEF Running
        <4> QED
          BY Zenon, <1>4, <2>3, <4>1, <4>2 DEF Join, sessions
      <3>2. SessionTypes'
        BY <2>1, <3>1 DEF SessionInv, SessionTypes
      <3> QED
        BY Zenon, <2>1, <3>1, <3>2, ClientsMove
    <2> QED
      BY ZenonT(60), <2>2, <2>3
  <1> QED
    BY Zenon, <1>1, <1>2, <1>3, <1>4 DEF JoinStep

(* A close without a session begins or goes on; the table is left alone. *)
LEMMA CloserGoesOn ==
    ASSUME SessionInv, NEW x \in Closers, closer[x].pc \in {"idle", "begin", "disconnect"},
           NEW v, closer' = [closer EXCEPT ![x] = v],
           v \in [pc : {"begin", "disconnect"}, sid : Sids, conns : SUBSET Clients, ses : {0}],
           closer[x].pc = "idle" => x \notin Sids,
           UNCHANGED <<sess, loops, lost, cleaning>>,
           conn' \in [Clients -> Sids \cup {None}],
           joiner' \in [Clients -> [pc : {"away", "evict", "joined"}, sid : Sids \cup {None},
                                    evict : SUBSET Sids]],
           stray' \subseteq Clients
    PROVE  SessionInv'
  <1>1. v \in [pc : {"idle", "begin", "disconnect", "emit", "wait"}, sid : Sids \cup {None},
               conns : SUBSET Clients, ses : Nat]
    OBVIOUS
  <1>2. SessionTypes'
    BY Zenon, <1>1 DEF SessionInv, SessionTypes
  <1> QED
    BY Zenon, <1>2, CloserMoves

LEMMA StopInv == ASSUME SessionInv, NEW s \in Sids, StopConversation(s) PROVE SessionInv'
  <1> PICK v : v = [NoCloser EXCEPT !.pc = "begin", !.sid = s]
    BY Zenon
  <1>1. v \in [pc : {"begin", "disconnect"}, sid : Sids, conns : SUBSET Clients, ses : {0}]
    BY Zenon DEF NoCloser
  <1>2. Stopper \in Closers /\ Stopper \notin Sids
    BY Zenon, ManagerAssumption DEF Closers
  <1>3. /\ closer' = [closer EXCEPT ![Stopper] = v] /\ closer[Stopper].pc = "idle"
        /\ UNCHANGED <<sess, loops, lost, cleaning, conn, joiner, stray>>
    BY Zenon DEF StopConversation, sessions
  <1> QED
    BY Zenon, <1>1, <1>2, <1>3, CloserGoesOn DEF SessionInv, SessionTypes

LEMMA CloseBeginsInv == ASSUME SessionInv, NEW x \in Closers, CloseBegins(x) PROVE SessionInv'
  <1>1. /\ closer[x].pc = "begin" /\ UNCHANGED <<sess, lost, cleaning, conn, joiner, stray>>
        /\ closer[x].sid \in Sids /\ closer[x].ses = 0
    BY Zenon DEF CloseBegins, SessionInv, CloserInv
  <1>2. CASE Pop(x, closer[x].sid)
    BY Zenon, <1>1, <1>2, PopInv DEF SessionInv, SessionTypes
  <1>3. CASE ~Pop(x, closer[x].sid)
    <2> PICK v : v = [closer[x] EXCEPT !.pc = "disconnect", !.conns = Connected(closer[x].sid)]
      BY Zenon
    <2>1. closer' = [closer EXCEPT ![x] = v] /\ UNCHANGED loops
      BY Zenon, <1>3 DEF CloseBegins
    <2>2. Connected(closer[x].sid) \subseteq Clients
      BY Zenon DEF Connected
    <2>3. v \in [pc : {"begin", "disconnect"}, sid : Sids, conns : SUBSET Clients, ses : {0}]
      BY ZenonT(60), <1>1, <2>2 DEF SessionInv, SessionTypes
    <2> QED
      BY Zenon, <1>1, <2>1, <2>3, CloserGoesOn DEF SessionInv, SessionTypes
  <1> QED
    BY Zenon, <1>2, <1>3

(* What a connection that ends leaves of its client *)
LEMMA ClientGone ==
    ASSUME SessionInv, NEW c \in Clients, conn' = [conn EXCEPT ![c] = None],
           joiner' = IF joiner[c].pc = "joined" THEN [joiner EXCEPT ![c] = Away] ELSE joiner,
           stray' = stray \ {c}
    PROVE  /\ conn' \in [Clients -> Sids \cup {None}]
           /\ joiner' \in [Clients -> [pc : {"away", "evict", "joined"}, sid : Sids \cup {None},
                                       evict : SUBSET Sids]]
           /\ stray' \subseteq Clients
  BY Zenon DEF SessionInv, SessionTypes, Away

LEMMA CloseDisconnectsInv ==
    ASSUME SessionInv, NEW x \in Closers, NEW c \in Clients, CloseDisconnects(x, c) PROVE SessionInv'
  <1>1. /\ closer[x].pc = "disconnect" /\ UNCHANGED <<sess, lost, cleaning>>
        /\ closer[x].sid \in Sids /\ closer[x].ses = 0
    BY Zenon DEF CloseDisconnects, SessionInv, CloserInv
  <1>2. /\ conn' \in [Clients -> Sids \cup {None}]
        /\ joiner' \in [Clients -> [pc : {"away", "evict", "joined"}, sid : Sids \cup {None},
                                    evict : SUBSET Sids]]
        /\ stray' \subseteq Clients
    BY Zenon, ClientGone DEF CloseDisconnects
  <1>3. CASE Pop(x, closer[x].sid)
    BY Zenon, <1>1, <1>2, <1>3, PopInv
  <1>4. CASE ~Pop(x, closer[x].sid)
    <2> PICK v : v = [closer[x] EXCEPT !.conns = @ \ {c}]
      BY Zenon
    <2>1. closer' = [closer EXCEPT ![x] = v] /\ UNCHANGED loops
      BY Zenon, <1>4 DEF CloseDisconnects
    <2>2. v \in [pc : {"begin", "disconnect"}, sid : Sids, conns : SUBSET Clients, ses : {0}]
      BY ZenonT(60), <1>1 DEF SessionInv, SessionTypes
    <2> QED
      BY Zenon, <1>1, <1>2, <2>1, <2>2, CloserGoesOn
  <1> QED
    BY Zenon, <1>3, <1>4

(* A close ends with its session marked: it had been marked and released   *)
(* before, it is released now, or another close waits to release it.       *)
LEMMA CloseEndsInv ==
    ASSUME SessionInv, NEW x \in Closers, closer[x].pc \in {"emit", "wait"},
           NEW n \in DOMAIN sess, n = closer[x].ses,
           NEW z, z \in Session, z.sid = sess[n].sid, z.closed,
           sess' = [sess EXCEPT ![n] = z],
           NEW v, v \in {NoCloser, [closer[x] EXCEPT !.pc = "wait"]},
           closer' = [closer EXCEPT ![x] = v],
           \/ z.stream = "closed"
           \/ v.pc = "wait"
           \/ z = sess[n] /\ closer[x].pc = "emit",
           UNCHANGED <<loops, lost, cleaning, conn, joiner, stray>>
    PROVE  SessionInv'
  <1>1. closer[x] \in [pc : {"idle", "begin", "disconnect", "emit", "wait"}, sid : Sids \cup {None},
                       conns : SUBSET Clients, ses : Nat]
    BY Zenon DEF SessionInv, SessionTypes
  <1>2. /\ v \in [pc : {"idle", "wait"}, sid : Sids \cup {None}, conns : SUBSET Clients, ses : Nat]
        /\ (v.pc = "idle" => v = NoCloser) /\ (v.pc = "wait" => v.ses = n /\ v.sid = closer[x].sid)
    BY <1>1 DEF NoCloser
  <1>3. /\ closer'[x] = v /\ \A y \in Closers \ {x} : closer'[y] = closer[y]
        /\ DOMAIN sess' = DOMAIN sess /\ sess'[n] = z /\ \A m \in DOMAIN sess \ {n} : sess'[m] = sess[m]
    BY Zenon DEF SessionInv, SessionTypes
  <1>4. SessionTypes'
    <2>1. sess' \in Seq(Session)
      BY DEF SessionInv, SessionTypes
    <2>2. v \in [pc : {"idle", "begin", "disconnect", "emit", "wait"}, sid : Sids \cup {None},
                 conns : SUBSET Clients, ses : Nat]
      BY Zenon, <1>2
    <2> QED
      BY Zenon, <2>1, <2>2 DEF SessionInv, SessionTypes
  <1>5. TableInv'
    BY <1>3 DEF SessionInv, TableInv
  <1>6. CloserInv'
    <2>1. ASSUME NEW y \in Closers
          PROVE  /\ closer'[y].pc = "idle" => closer'[y] = NoCloser
                 /\ closer'[y].pc # "idle" => closer'[y].sid \in Sids
                 /\ closer'[y].pc \in {"begin", "disconnect"} => closer'[y].ses = 0
                 /\ closer'[y].pc \in {"emit", "wait"} => closer'[y].ses \in DOMAIN sess
      <3>1. CASE y = x
        BY <1>2, <1>3, <3>1 DEF SessionInv, CloserInv
      <3>2. CASE y # x
        BY <1>3, <3>2 DEF SessionInv, CloserInv
      <3> QED
        BY Zenon, <3>1, <3>2
    <2>2. ASSUME ~cleaning, NEW t \in Sids PROVE closer'[t].pc = "idle"
      BY <1>3, <2>2 DEF SessionInv, CloserInv, Closers
    <2> QED
      BY Zenon, <1>3, <2>1, <2>2 DEF CloserInv
  <1>7. ASSUME NEW m \in DOMAIN sess, NEW y \in Closers, closer[y].ses = m, m # n
        PROVE  closer'[y] = closer[y]
    BY Zenon, <1>3, <1>7
  <1>8. ASSUME z.stream = "open", ~(n \in lost) PROVE \E y \in Closers : closer'[y].pc = "wait" /\ closer'[y].ses = n
    <2>1. CASE v.pc = "wait"
      BY Zenon, <1>2, <1>3, <2>1
    <2>2. CASE z = sess[n] /\ closer[x].pc = "emit"
      <3> PICK y \in Closers : closer[y].pc = "wait" /\ closer[y].ses = n
        BY Zenon, <1>8, <2>2 DEF SessionInv, MarkedInv
      <3> QED
        BY ZenonT(60), <1>3, <2>2
    <2> QED
      BY Zenon, <1>8, <2>1, <2>2
  <1>9. MarkedInv'
    <2> SUFFICES ASSUME NEW m \in DOMAIN sess, sess'[m].closed, sess'[m].stream = "open", ~(m \in lost)
                 PROVE  \E y \in Closers : closer'[y].pc = "wait" /\ closer'[y].ses = m
      BY Zenon, <1>3 DEF MarkedInv
    <2>1. CASE m = n
      BY Zenon, <1>3, <1>8, <2>1
    <2>2. CASE m # n
      BY <1>3, <1>7, <2>2 DEF SessionInv, MarkedInv
    <2> QED
      BY Zenon, <2>1, <2>2
  <1>10. NoSilentLoop'
    <2> SUFFICES ASSUME NEW m \in DOMAIN sess, ~(m \in lost)
                 PROVE  \/ loops[sess'[m].sid] = m
                        \/ sess'[m].closed /\ sess'[m].stream = "closed"
                        \/ \E y \in Closers : closer'[y].ses = m
      BY Zenon, <1>3 DEF NoSilentLoop
    <2>1. CASE m = n
      <3>1. z.stream \in {"open", "closed"}
        BY Zenon DEF Session
      <3> QED
        BY Zenon, <1>3, <1>8, <2>1, <3>1
    <2>2. CASE m # n
      BY <1>3, <1>7, <2>2 DEF SessionInv, NoSilentLoop
    <2> QED
      BY Zenon, <2>1, <2>2
  <1> QED
    BY Zenon, <1>4, <1>5, <1>6, <1>9, <1>10 DEF SessionInv

LEMMA ReleasedShape ==
    ASSUME NEW z \in Session
    PROVE  /\ Released(z) \in Session /\ Released(z).sid = z.sid
           /\ Released(z).closed /\ Released(z).stream = "closed"
           /\ [z EXCEPT !.closed = TRUE] \in Session /\ [z EXCEPT !.closed = TRUE].sid = z.sid
           /\ [z EXCEPT !.closed = TRUE].closed
  BY Zenon DEF Released, Session

LEMMA CloseMarksInv ==
    ASSUME SessionInv, NEW x \in Closers, CloseMarks(x) \/ CloseWaits(x) PROVE SessionInv'
  <1> PICK n : n = closer[x].ses
    BY Zenon
  <1>1. /\ closer[x].pc \in {"emit", "wait"} /\ n \in DOMAIN sess
        /\ UNCHANGED <<loops, lost, cleaning, conn, joiner, stray>>
    BY Zenon DEF CloseMarks, CloseWaits, SessionInv, CloserInv
  <1>2. sess[n] \in Session
    BY Zenon, <1>1, SessionShape DEF SessionInv
  <1>3. CASE CloseMarks(x) /\ sess[n].closed
    <2>1. sess' = [sess EXCEPT ![n] = sess[n]] /\ closer' = [closer EXCEPT ![x] = NoCloser] /\ closer[x].pc = "emit"
      BY <1>3 DEF CloseMarks, SessionInv, SessionTypes
    <2> QED
      BY ZenonT(60), <1>1, <1>2, <1>3, <2>1, CloseEndsInv
  <1>4. CASE CloseMarks(x) /\ ~sess[n].closed /\ Starting(n)
    <2> PICK v : v = [closer[x] EXCEPT !.pc = "wait"]
      BY Zenon
    <2>1. sess' = [sess EXCEPT ![n] = [sess[n] EXCEPT !.closed = TRUE]] /\ closer' = [closer EXCEPT ![x] = v]
      BY Zenon, <1>4 DEF CloseMarks
    <2>2. v.pc = "wait"
      BY Zenon DEF SessionInv, SessionTypes
    <2> QED
      BY Zenon, <1>1, <1>2, <2>1, <2>2, CloseEndsInv, ReleasedShape
  <1>5. CASE ~(CloseMarks(x) /\ sess[n].closed) /\ ~(CloseMarks(x) /\ ~sess[n].closed /\ Starting(n))
    <2>1. sess' = [sess EXCEPT ![n] = Released(sess[n])] /\ closer' = [closer EXCEPT ![x] = NoCloser]
      BY Zenon, <1>5 DEF CloseMarks, CloseWaits
    <2> QED
      BY ZenonT(60), <1>1, <1>2, <2>1, CloseEndsInv, ReleasedShape
  <1> QED
    BY Zenon, <1>3, <1>4, <1>5

(* _cleanup_stale makes its tasks when the earlier ones are done. *)
LEMMA CleanupPassInv == ASSUME SessionInv, CleanupPass PROVE SessionInv'
  <1>1. ~cleaning /\ UNCHANGED <<loops, lost, conn, joiner, stray>>
    BY Zenon DEF CleanupPass
  <1>2. PICK S \in SUBSET Sids :
          /\ closer' = [x \in Closers |->
                          IF x \in S THEN [NoCloser EXCEPT !.pc = "begin", !.sid = x] ELSE closer[x]]
          /\ cleaning' = (S # {})
    BY Zenon DEF CleanupPass
  <1>3. /\ sess' \in Seq(Session) /\ DOMAIN sess' = DOMAIN sess
        /\ \A n \in DOMAIN sess : /\ sess'[n].sid = sess[n].sid /\ sess'[n].closed = sess[n].closed
                                  /\ sess[n].stream = "closed" => sess'[n].stream = "closed"
    BY Zenon, DisconnectSessions DEF CleanupPass, SessionInv
  <1>4. /\ \A x \in S : x \in Closers /\ closer[x] = NoCloser /\ closer'[x].ses = 0
                         /\ closer'[x] = [NoCloser EXCEPT !.pc = "begin", !.sid = x]
        /\ \A x \in Closers \ S : closer'[x] = closer[x]
    BY Zenon, <1>1, <1>2 DEF SessionInv, CloserInv, Closers, NoCloser
  <1>5. SessionTypes'
    <2>1. ASSUME NEW x \in S
          PROVE  [NoCloser EXCEPT !.pc = "begin", !.sid = x]
                     \in [pc : {"idle", "begin", "disconnect", "emit", "wait"}, sid : Sids \cup {None},
                          conns : SUBSET Clients, ses : Nat]
      BY Zenon DEF NoCloser
    <2>2. closer' \in [Closers -> [pc : {"idle", "begin", "disconnect", "emit", "wait"},
                                   sid : Sids \cup {None}, conns : SUBSET Clients, ses : Nat]]
      BY ZenonT(60), <1>2, <2>1 DEF SessionInv, SessionTypes
    <2> QED
      BY Zenon, <1>1, <1>2, <1>3, <2>2 DEF SessionInv, SessionTypes
  <1>6. TableInv'
    BY Zenon, <1>1, <1>3 DEF SessionInv, TableInv
  <1>7. CloserInv'
    <2>1. ASSUME NEW x \in Closers
          PROVE  /\ closer'[x].pc = "idle" => closer'[x] = NoCloser
                 /\ closer'[x].pc # "idle" => closer'[x].sid \in Sids
                 /\ closer'[x].pc \in {"begin", "disconnect"} => closer'[x].ses = 0
                 /\ closer'[x].pc \in {"emit", "wait"} => closer'[x].ses \in DOMAIN sess'
      <3>1. CASE x \in S
        BY ZenonT(60), <1>4, <3>1 DEF NoCloser
      <3>2. CASE x \notin S
        BY ZenonT(60), <1>3, <1>4, <3>2 DEF SessionInv, CloserInv
      <3> QED
        BY Zenon, <3>1, <3>2
    <2>2. ASSUME ~cleaning', NEW t \in Sids PROVE closer'[t].pc = "idle"
      BY Zenon, <1>1, <1>2, <1>4, <2>2 DEF SessionInv, CloserInv, Closers
    <2> QED
      BY Zenon, <2>1, <2>2 DEF CloserInv
  <1>8. ASSUME NEW n \in DOMAIN sess PROVE n # 0 /\ sess[n].stream \in {"open", "closed"}
    BY ZenonT(60), SessionShape DEF SessionInv
  <1>9. ASSUME NEW n \in DOMAIN sess, NEW x \in Closers, closer[x].ses = n PROVE closer'[x] = closer[x]
    BY ZenonT(60), <1>4, <1>8, <1>9 DEF NoCloser
  <1>10. MarkedInv'
    BY <1>1, <1>3, <1>8, <1>9 DEF SessionInv, MarkedInv
  <1>11. NoSilentLoop'
    BY <1>1, <1>3, <1>8, <1>9 DEF SessionInv, NoSilentLoop
  <1> QED
    BY Zenon, <1>5, <1>6, <1>7, <1>10, <1>11 DEF SessionInv

(* The tasks are done, or given up with the sessions they were closing. *)
LEMMA CleanupEndsInv == ASSUME SessionInv, CleanupReturns \/ CleanupTimeout PROVE SessionInv'
  <1>1. CASE CleanupReturns
    <2>0. ~cleaning' /\ UNCHANGED <<sess, loops, lost, conn, joiner, closer, stray>>
      BY Zenon, <1>1 DEF CleanupReturns, sessions
    <2>1. SessionTypes' /\ TableInv' /\ MarkedInv' /\ NoSilentLoop'
      <3>1. SessionTypes'
        <4>1. cleaning' \in BOOLEAN
          BY Zenon, <1>1 DEF CleanupReturns
        <4> QED
          BY Zenon, <2>0, <4>1 DEF SessionInv, SessionTypes
      <3>2. TableInv'
        BY Zenon, <2>0 DEF SessionInv, TableInv
      <3>3. MarkedInv'
        BY Zenon, <2>0 DEF SessionInv, MarkedInv
      <3>4. NoSilentLoop'
        BY Zenon, <2>0 DEF SessionInv, NoSilentLoop
      <3> QED
        BY Zenon, <3>1, <3>2, <3>3, <3>4
    <2>2. CloserInv'
      BY Zenon, <1>1 DEF CleanupReturns, SessionInv, CloserInv, sessions
    <2> QED
      BY Zenon, <2>1, <2>2 DEF SessionInv
  <1>2. CASE CleanupTimeout
    <2>1. /\ closer' = [x \in Closers |-> IF x \in Sids THEN NoCloser ELSE closer[x]]
          /\ lost \subseteq lost' /\ \A t \in Sids : closer[t].ses # 0 => closer[t].ses \in lost'
          /\ ~cleaning' /\ UNCHANGED <<sess, loops, conn, joiner, stray>>
      BY Zenon, <1>2 DEF CleanupTimeout
    <2>2. SessionTypes'
      <3>1. NoCloser \in [pc : {"idle", "begin", "disconnect", "emit", "wait"}, sid : Sids \cup {None},
                          conns : SUBSET Clients, ses : Nat]
        BY Zenon DEF NoCloser
      <3>2. lost' \subseteq Nat /\ cleaning' \in BOOLEAN
        <4>1. lost \subseteq Nat /\ \A t \in Sids : closer[t].ses \in Nat
          BY Zenon DEF SessionInv, SessionTypes, Closers
        <4>2. cleaning' = FALSE
          BY Zenon, <1>2 DEF CleanupTimeout
        <4>3. lost' \subseteq Nat
          BY Zenon, <1>2, <4>1 DEF CleanupTimeout
        <4> QED
          BY Zenon, <4>2, <4>3
      <3> QED
        BY Zenon, <2>1, <3>1, <3>2 DEF SessionInv, SessionTypes
    <2>3. TableInv'
      BY Zenon, <2>1 DEF SessionInv, TableInv
    <2>4. CloserInv'
      BY Zenon, <2>1 DEF SessionInv, CloserInv, NoCloser, Closers
    <2>5. ASSUME NEW n \in DOMAIN sess, NEW x \in Closers, closer[x].ses = n
          PROVE  n \in lost' \/ closer'[x] = closer[x]
      <3>1. n # 0
        BY Zenon, SessionShape DEF SessionInv
      <3> QED
        BY Zenon, <2>1, <2>5, <3>1
    <2>6. MarkedInv'
      BY <2>1, <2>5 DEF SessionInv, MarkedInv
    <2>7. NoSilentLoop'
      BY <2>1, <2>5 DEF SessionInv, NoSilentLoop
    <2> QED
      BY Zenon, <2>2, <2>3, <2>4, <2>6, <2>7 DEF SessionInv
  <1> QED
    BY Zenon, <1>1, <1>2

-----------------------------------------------------------------------------
(* What leaves clients, connections and running sessions alone leaves      *)
(* joined clients theirs, if no close lists connections.                   *)
LEMMA JoinKept ==
    ASSUME JoinInv, SessionTypes, UNCHANGED <<conn, joiner, stray>>,
           \A s \in Sids : loops[s] # 0 => loops'[s] # 0,
           \A x \in Closers : closer'[x].pc = "disconnect" => closer'[x] = closer[x]
    PROVE  JoinInv'
  <1>1. \A s : Connected(s)' = Connected(s)
    BY Zenon DEF Connected
  <1>2. ASSUME NEW x \in Closers, closer'[x].pc = "disconnect"
        PROVE  (Connected(closer[x].sid) \subseteq closer[x].conns \cup stray)'
    BY Zenon, <1>2 DEF JoinInv, Connected
  <1>3. JoinedHasLoop'
    BY Zenon DEF JoinInv, JoinedHasLoop
  <1> QED
    BY Zenon, <1>2, <1>3 DEF JoinInv

(* A connection ends: those that are left were listed or are strays. *)
LEMMA GoneJoin ==
    ASSUME JoinInv, SessionInv, NEW c \in Clients, conn' = [conn EXCEPT ![c] = None],
           joiner' = IF joiner[c].pc = "joined" THEN [joiner EXCEPT ![c] = Away] ELSE joiner,
           stray' = stray \ {c},
           \A x \in Closers : closer'[x].pc = "disconnect" =>
               /\ closer[x].pc = "disconnect" /\ closer'[x].sid = closer[x].sid
               /\ closer[x].conns \ {c} \subseteq closer'[x].conns,
           \A d \in Clients \ {c} : joiner[d].pc = "joined" /\ loops[joiner[d].sid] # 0 =>
               loops'[joiner[d].sid] # 0 \/ d \in stray
    PROVE  JoinInv'
  <1>1. /\ conn'[c] = None /\ \A d \in Clients \ {c} : conn'[d] = conn[d] /\ joiner'[d] = joiner[d]
        /\ joiner'[c].pc # "joined" /\ (joiner'[c].pc # "away" => joiner'[c] = joiner[c])
    BY Zenon DEF SessionInv, SessionTypes, Away
  <1>2. ASSUME NEW d \in Clients
        PROVE  /\ joiner'[d].pc = "joined" => conn'[d] = joiner'[d].sid
               /\ joiner'[d].pc # "away" => joiner'[d].sid \in Sids
    BY <1>1 DEF JoinInv
  <1>3. ASSUME NEW x \in Closers, closer'[x].pc = "disconnect"
        PROVE  (Connected(closer[x].sid) \subseteq closer[x].conns \cup stray)'
    <2>1. closer[x].pc = "disconnect" /\ Connected(closer[x].sid) \subseteq closer[x].conns \cup stray
      BY Zenon, <1>3 DEF JoinInv
    <2> SUFFICES ASSUME NEW d \in Clients, conn'[d] = closer'[x].sid
                 PROVE  d \in closer'[x].conns \cup stray'
      BY Zenon DEF Connected
    <2>2. CASE d = c
      BY <1>1, <1>3, <2>2, ManagerAssumption DEF SessionInv, CloserInv
    <2>3. CASE d # c
      BY ZenonT(60), <1>1, <1>3, <2>1, <2>3 DEF Connected
    <2> QED
      BY Zenon, <2>2, <2>3
  <1>4. JoinedHasLoop'
    BY ZenonT(60), <1>1 DEF JoinInv, JoinedHasLoop
  <1> QED
    BY Zenon, <1>2, <1>3, <1>4 DEF JoinInv

LEMMA LeaveJoin == ASSUME JoinInv, SessionInv, NEW c \in Clients, Leave(c) PROVE JoinInv'
  BY Zenon, GoneJoin DEF Leave, sessions

(* The last connection that was listed ends, and with it the entry in the  *)
(* table.                                                                  *)
LEMMA CloseDisconnectsJoin ==
    ASSUME JoinInv, SessionInv, NEW x \in Closers, NEW c \in Clients, CloseDisconnects(x, c) PROVE JoinInv'
  <1> PICK s : s = closer[x].sid
    BY Zenon
  <1>1. /\ closer[x].pc = "disconnect" /\ s \in Sids /\ conn' = [conn EXCEPT ![c] = None]
        /\ joiner' = IF joiner[c].pc = "joined" THEN [joiner EXCEPT ![c] = Away] ELSE joiner
        /\ stray' = stray \ {c}
    BY Zenon DEF CloseDisconnects, SessionInv, CloserInv
  <1>2. \A y \in Closers \ {x} : closer'[y] = closer[y]
    BY Zenon DEF CloseDisconnects, Pop, SessionInv, SessionTypes
  <1>3. CASE closer[x].conns # {c}
    <2>1. closer' = [closer EXCEPT ![x].conns = @ \ {c}] /\ UNCHANGED loops
      BY Zenon, <1>3 DEF CloseDisconnects
    <2>2. closer'[x].conns = closer[x].conns \ {c} /\ closer'[x].sid = closer[x].sid
      BY <2>1 DEF SessionInv, SessionTypes
    <2> QED
      BY ZenonT(60), <1>1, <1>2, <2>1, <2>2, GoneJoin
  <1>4. CASE closer[x].conns = {c}
    <2>1. Pop(x, s)
      BY Zenon, <1>4 DEF CloseDisconnects
    <2>2. /\ closer'[x].pc # "disconnect"
          /\ \A t \in Sids \ {s} : loops'[t] = loops[t]
      BY Zenon, <2>1 DEF Pop, NoCloser, SessionInv, SessionTypes
    <2>3. Connected(s) \subseteq {c} \cup stray
      BY Zenon, <1>1, <1>4 DEF JoinInv
    <2>4. ASSUME NEW d \in Clients \ {c}, joiner[d].pc = "joined", loops[joiner[d].sid] # 0
          PROVE  loops'[joiner[d].sid] # 0 \/ d \in stray
      <3>1. joiner[d].sid \in Sids /\ conn[d] = joiner[d].sid
        BY Zenon, <2>4 DEF JoinInv
      <3> QED
        BY Zenon, <2>2, <2>3, <2>4, <3>1 DEF Connected
    <2> QED
      BY ZenonT(60), <1>1, <1>2, <2>2, <2>4, GoneJoin
  <1> QED
    BY Zenon, <1>3, <1>4

(* A close lists the connections there are; without any nobody has joined. *)
LEMMA CloseBeginsJoin ==
    ASSUME JoinInv, SessionInv, NEW x \in Closers, CloseBegins(x) PROVE JoinInv'
  <1> PICK s : s = closer[x].sid
    BY Zenon
  <1>1. closer[x].pc = "begin" /\ s \in Sids /\ UNCHANGED <<conn, joiner, stray>>
    BY Zenon DEF CloseBegins, SessionInv, CloserInv
  <1>2. /\ \A y \in Closers \ {x} : closer'[y] = closer[y]
        /\ \A t \in Sids \ {s} : loops'[t] = loops[t]
    BY Zenon DEF CloseBegins, Pop, SessionInv, SessionTypes
  <1>3. CASE Connected(s) # {}
    <2>1. closer' = [closer EXCEPT ![x] = [@ EXCEPT !.pc = "disconnect", !.conns = Connected(s)]] /\ UNCHANGED loops
      BY Zenon, <1>3 DEF CloseBegins
    <2>2. closer'[x].conns = Connected(s) /\ closer'[x].sid = s
      BY <2>1 DEF SessionInv, SessionTypes
    <2>3. ASSUME NEW y \in Closers, closer'[y].pc = "disconnect"
          PROVE  (Connected(closer[y].sid) \subseteq closer[y].conns \cup stray)'
      <3>1. CASE y = x
        BY Zenon, <1>1, <2>2, <3>1 DEF Connected
      <3>2. CASE y # x
        BY Zenon, <1>1, <1>2, <2>3, <3>2 DEF JoinInv, Connected
      <3> QED
        BY Zenon, <3>1, <3>2
    <2>4. JoinedHasLoop'
      BY Zenon, <1>1, <2>1 DEF JoinInv, JoinedHasLoop
    <2> QED
      BY Zenon, <1>1, <2>3, <2>4 DEF JoinInv
  <1>4. CASE Connected(s) = {}
    <2>1. Pop(x, s)
      BY Zenon, <1>4 DEF CloseBegins
    <2>2. closer'[x].pc # "disconnect"
      BY Zenon, <2>1 DEF Pop, NoCloser, SessionInv, SessionTypes
    <2>3. ASSUME NEW y \in Closers, closer'[y].pc = "disconnect"
          PROVE  (Connected(closer[y].sid) \subseteq closer[y].conns \cup stray)'
      BY ZenonT(60), <1>1, <1>2, <2>2, <2>3 DEF JoinInv, Connected
    <2>4. JoinedHasLoop'
      BY <1>1, <1>2, <1>4 DEF JoinInv, JoinedHasLoop, Connected
    <2> QED
      BY Zenon, <1>1, <2>3, <2>4 DEF JoinInv
  <1> QED
    BY Zenon, <1>3, <1>4

(* The joiner of a client that joined, and of one that is away *)
LEMMA JoinedShape ==
    ASSUME NEW s
    PROVE  /\ [Away EXCEPT !.pc = "joined", !.sid = s].pc = "joined"
           /\ [Away EXCEPT !.pc = "joined", !.sid = s].sid = s
           /\ Away.pc = "away"
  BY Zenon DEF Away

(* A join is behind the list of a close, or the close will list it. *)
LEMMA JoinJoin == ASSUME JoinInv, SessionInv, NEW c \in Clients, NEW s \in Sids, Join(c, s) PROVE JoinInv'
  <1>1. /\ UNCHANGED closer
        /\ conn'[c] = s /\ \A d \in Clients \ {c} : conn'[d] = conn[d] /\ joiner'[d] = joiner[d]
        /\ stray \ {c} \subseteq stray'
        /\ (\E x \in Closers : closer[x].sid = s /\ closer[x].pc = "disconnect") => c \in stray'
    BY Zenon DEF Join, Register, SessionInv, SessionTypes
  <1>2. /\ \A t \in Sids : loops[t] # 0 => loops'[t] # 0
        /\ joiner'[c].sid = s /\ (joiner'[c].pc = "joined" => loops'[s] # 0)
    <2>1. Len(sess) + 1 # 0
      BY DEF SessionInv, SessionTypes
    <2>2. CASE Register(c, s)
      <3>1. loops' = [loops EXCEPT ![s] = Len(sess) + 1] /\ joiner' = [joiner EXCEPT ![c] = [Away EXCEPT !.pc = "joined", !.sid = s]]
        BY Zenon, <1>1, <2>2 DEF Register
      <3> QED
        BY Zenon, <2>1, <3>1 DEF SessionInv, SessionTypes, Away
    <2>3. CASE ~Register(c, s)
      <3>1. UNCHANGED loops
        BY Zenon, <2>3 DEF Join, sessions
      <3>2. \/ loops[s] # 0 /\ joiner' = [joiner EXCEPT ![c] = [Away EXCEPT !.pc = "joined", !.sid = s]]
            \/ \E V : joiner' = [joiner EXCEPT ![c] = [pc |-> "evict", sid |-> s, evict |-> V]]
        BY Zenon, <2>3 DEF Join
      <3>3. joiner'[c].sid = s /\ (joiner'[c].pc = "joined" => loops[s] # 0)
        <4>1. CASE loops[s] # 0 /\ joiner' = [joiner EXCEPT ![c] = [Away EXCEPT !.pc = "joined", !.sid = s]]
          BY Zenon, <4>1, JoinedShape DEF SessionInv, SessionTypes
        <4>2. ASSUME NEW V, joiner' = [joiner EXCEPT ![c] = [pc |-> "evict", sid |-> s, evict |-> V]]
              PROVE  joiner'[c].sid = s /\ joiner'[c].pc # "joined"
          BY Zenon, <4>2 DEF SessionInv, SessionTypes
        <4> QED
          BY Zenon, <3>2, <4>1, <4>2
      <3> QED
        BY Zenon, <3>1, <3>3
    <2> QED
      BY Zenon, <2>2, <2>3
  <1>3. ASSUME NEW d \in Clients
        PROVE  /\ joiner'[d].pc = "joined" => conn'[d] = joiner'[d].sid
               /\ joiner'[d].pc # "away" => joiner'[d].sid \in Sids
    BY Zenon, <1>1, <1>2 DEF JoinInv
  <1>4. ASSUME NEW x \in Closers, closer'[x].pc = "disconnect"
        PROVE  (Connected(closer[x].sid) \subseteq closer[x].conns \cup stray)'
    <2>1. Connected(closer[x].sid) \subseteq closer[x].conns \cup stray
      BY Zenon, <1>1, <1>4 DEF JoinInv
    <2> QED
      BY Zenon, <1>1, <1>4, <2>1 DEF Connected
  <1>5. JoinedHasLoop'
    BY ZenonT(60), <1>1, <1>2 DEF JoinInv, JoinedHasLoop
  <1> QED
    BY Zenon, <1>3, <1>4, <1>5 DEF JoinInv

LEMMA JoinStepJoin == ASSUME JoinInv, SessionInv, NEW c \in Clients, JoinStep(c) PROVE JoinInv'
  <1>1. CASE StartAfterEvict(c)
    <2> PICK s : s = joiner[c].sid
      BY Zenon
    <2>1. s \in Sids /\ UNCHANGED <<conn, closer, stray>> /\ Register(c, s)
      BY Zenon, <1>1 DEF StartAfterEvict, JoinInv
    <2>2. /\ loops'[s] # 0 /\ \A t \in Sids \ {s} : loops'[t] = loops[t]
          /\ \A d \in Clients \ {c} : joiner'[d] = joiner[d]
          /\ joiner'[c] = IF conn[c] = s THEN [Away EXCEPT !.pc = "joined", !.sid = s] ELSE Away
      BY <2>1 DEF Register, SessionInv, SessionTypes
    <2>3. ASSUME NEW d \in Clients
          PROVE  /\ joiner'[d].pc = "joined" => conn'[d] = joiner'[d].sid
                 /\ joiner'[d].pc # "away" => joiner'[d].sid \in Sids
                 /\ joiner'[d].pc = "joined" => loops'[joiner'[d].sid] # 0 \/ d \in stray
      <3>1. CASE d = c
        <4>1. CASE conn[c] = s
          BY ZenonT(60), <2>1, <2>2, <3>1, <4>1, JoinedShape
        <4>2. CASE conn[c] # s
          BY Zenon, <2>2, <3>1, <4>2, JoinedShape
        <4> QED
          BY Zenon, <4>1, <4>2
      <3>2. CASE d # c
        BY Zenon, <2>1, <2>2, <3>2 DEF JoinInv, JoinedHasLoop
      <3> QED
        BY Zenon, <3>1, <3>2
    <2>4. ASSUME NEW x \in Closers, closer'[x].pc = "disconnect"
          PROVE  (Connected(closer[x].sid) \subseteq closer[x].conns \cup stray)'
      BY Zenon, <2>1, <2>4 DEF JoinInv, Connected
    <2> QED
      BY Zenon, <2>1, <2>3, <2>4 DEF JoinInv, JoinedHasLoop
  <1>2. ASSUME NEW v \in Sids, Evict(c, v) PROVE JoinInv'
    <2>1. /\ UNCHANGED <<conn, loops, stray>>
          /\ \A d \in Clients : joiner'[d].pc = joiner[d].pc /\ joiner'[d].sid = joiner[d].sid
      BY <1>2 DEF Evict, sessions, SessionInv, SessionTypes
    <2>2. \A x \in Closers : closer'[x].pc = "disconnect" => closer'[x] = closer[x]
      BY Zenon, <1>2 DEF Evict, SessionInv, SessionTypes, NoCloser
    <2>3. ASSUME NEW x \in Closers, closer'[x].pc = "disconnect"
          PROVE  (Connected(closer[x].sid) \subseteq closer[x].conns \cup stray)'
      BY Zenon, <2>1, <2>2, <2>3 DEF JoinInv, Connected
    <2> QED
      BY Zenon, <2>1, <2>3 DEF JoinInv, JoinedHasLoop
  <1> QED
    BY Zenon, <1>1, <1>2 DEF JoinStep

-----------------------------------------------------------------------------
LEMMA InitMInv == Init => MInv
  <1> SUFFICES ASSUME Init PROVE MInv
    BY Zenon
  <1>1. HeldInv
    <2>1. ASSUME NEW s \in Sids PROVE Holders(s) = {} /\ Cardinality(Holders(s)) = 0
      <3>1. Holders(s) = {}
        BY Zenon DEF Init, Holders, NoRequest
      <3> QED
        BY Zenon, <3>1, HoldersFinite, FS_EmptySet
    <2>2. ConversationTypes
      BY DEF Init, ConversationTypes, NotActive, NoRequest
    <2>3. \A s \in Sids : Counted(s)
      BY <2>1 DEF Init, Counted, NotActive
    <2>4. \A r \in Requests : req[r].pc = "idle"
      BY Zenon DEF Init, NoRequest
    <2> QED
      BY Zenon, <2>2, <2>3, <2>4 DEF HeldInv, Connecting
  <1>2. SessionInv
    <2>1. SessionTypes
      <3>0. cleaning \in BOOLEAN
        BY Zenon DEF Init
      <3>1. /\ sess \in Seq(Session) /\ loops \in [Sids -> Nat] /\ conn \in [Clients -> Sids \cup {None}]
            /\ stray \subseteq Clients /\ lost \subseteq Nat
        BY DEF Init
      <3>2. Away \in [pc : {"away", "evict", "joined"}, sid : Sids \cup {None}, evict : SUBSET Sids]
        BY Zenon DEF Away
      <3>3. NoCloser \in [pc : {"idle", "begin", "disconnect", "emit", "wait"}, sid : Sids \cup {None},
                          conns : SUBSET Clients, ses : Nat]
        BY Zenon DEF NoCloser
      <3> QED
        BY Zenon, <3>0, <3>1, <3>2, <3>3 DEF Init, SessionTypes
    <2>2. DOMAIN sess = {}
      BY DEF Init
    <2>3. CloserInv
      BY Zenon DEF Init, CloserInv, NoCloser, Closers
    <2> QED
      BY Zenon, <2>1, <2>2, <2>3 DEF Init, SessionInv, TableInv, MarkedInv, NoSilentLoop
  <1>3. JoinInv
    BY Zenon DEF Init, JoinInv, JoinedHasLoop, Away, NoCloser
  <1> QED
    BY Zenon, <1>1, <1>2, <1>3 DEF MInv

(* What the steps of a close leave of joined clients *)
LEMMA CloseStepJoin == ASSUME JoinInv, SessionInv, NEW x \in Closers, CloseStep(x) PROVE JoinInv'
  <1>1. CASE CloseMarks(x) \/ CloseWaits(x)
    <2>1. UNCHANGED <<conn, joiner, stray, loops>>
      BY Zenon, <1>1 DEF CloseMarks, CloseWaits
    <2>2. \A y \in Closers : closer'[y].pc = "disconnect" => closer'[y] = closer[y]
      BY <1>1 DEF CloseMarks, CloseWaits, NoCloser, SessionInv, SessionTypes
    <2> QED
      BY Zenon, <2>1, <2>2, JoinKept DEF SessionInv
  <1> QED
    BY Zenon, <1>1, CloseBeginsJoin, CloseDisconnectsJoin DEF CloseStep

(* Every step of a client, of a close, of a request and of the cleanup     *)
LEMMA ClientStep ==
    ASSUME MInv, NEW c \in Clients, JoinStep(c) \/ Leave(c) \/ \E s \in Sids : Join(c, s) PROVE MInv'
  <1>1. UNCHANGED attached
    BY Zenon DEF JoinStep, StartAfterEvict, Evict, Leave, Join
  <1>2. HeldInv' /\ SessionInv'
    BY Zenon, <1>1, HeldUnchanged, ClientInv DEF MInv
  <1>3. JoinInv'
    BY Zenon, JoinStepJoin, LeaveJoin, JoinJoin DEF MInv
  <1> QED
    BY Zenon, <1>2, <1>3 DEF MInv

LEMMA CloserStep == ASSUME MInv, NEW x \in Closers, CloseStep(x) PROVE MInv'
  <1>1. UNCHANGED attached
    BY Zenon DEF CloseStep, CloseBegins, CloseMarks, CloseWaits, CloseDisconnects
  <1>2. HeldInv' /\ SessionInv' /\ JoinInv'
    BY ZenonT(60), <1>1, HeldUnchanged, CloseBeginsInv, CloseDisconnectsInv, CloseMarksInv, CloseStepJoin DEF MInv, CloseStep
  <1> QED
    BY Zenon, <1>2 DEF MInv

LEMMA RequestStep ==
    ASSUME MInv, NEW r \in Requests, AttachStep(r) \/ Detach(r) \/ \E s \in Sids : Attach(r, s) PROVE MInv'
  <1>1. HeldInv' /\ SessionInv'
    BY ZenonT(60), AttachHeld, AttachConnectsHeld, AttachFailsHeld, DetachHeld, AttachInv DEF MInv, SessionInv, AttachStep
  <1>2. UNCHANGED <<conn, joiner, stray, loops, closer>>
    BY Zenon DEF AttachStep, AttachConnects, AttachFails, Detach, Attach, sessions
  <1>3. JoinInv'
    BY Zenon, <1>2, JoinKept DEF MInv, SessionInv
  <1> QED
    BY Zenon, <1>1, <1>3 DEF MInv

LEMMA CleanupStep ==
    ASSUME MInv, CleanupPass \/ CleanupReturns \/ CleanupTimeout PROVE MInv'
  <1>1. CASE CleanupPass
    <2>1. UNCHANGED <<conn, joiner, stray, loops>>
      BY Zenon, <1>1 DEF CleanupPass
    <2>2. \A x \in Closers : closer'[x].pc = "disconnect" => closer'[x] = closer[x]
      BY ZenonT(60), <1>1 DEF CleanupPass, NoCloser
    <2> QED
      BY ZenonT(60), <1>1, <2>1, <2>2, CleanupHeld, CleanupPassInv, JoinKept DEF MInv, SessionInv
  <1>2. CASE CleanupReturns \/ CleanupTimeout
    <2>1. UNCHANGED <<conn, joiner, stray, loops, sess, attached>>
      BY ZenonT(60), <1>2 DEF CleanupReturns, CleanupTimeout, sessions
    <2>2. \A x \in Closers : closer'[x].pc = "disconnect" => closer'[x] = closer[x]
      BY <1>2 DEF CleanupReturns, CleanupTimeout, NoCloser
    <2> QED
      BY ZenonT(60), <1>2, <2>1, <2>2, HeldUnchanged, CleanupEndsInv, JoinKept DEF MInv, SessionInv
  <1> QED
    BY Zenon, <1>1, <1>2

LEMMA StepMInv == MInv /\ [Next]_vars => MInv'
  <1> SUFFICES ASSUME MInv, [Next]_vars PROVE MInv'
    BY Zenon
  <1>1. ASSUME NEW n \in DOMAIN sess, StartStep(n) \/ StartGetsLate(n) PROVE MInv'
    <2>1. UNCHANGED <<conn, joiner, stray, loops, closer, attached>>
      BY Zenon, <1>1 DEF StartStep, StartBegins, StartConnects, StartBuilds, StartRaises, StartGetsLate
    <2>2. JoinInv'
      BY Zenon, <2>1, JoinKept DEF MInv, SessionInv
    <2> QED
      BY ZenonT(60), <1>1, <2>1, <2>2, HeldUnchanged, StartInv DEF MInv
  <1>2. ASSUME NEW s \in Sids, StopConversation(s) PROVE MInv'
    <2>1. UNCHANGED <<conn, joiner, stray, loops, sess, attached>>
      BY Zenon, <1>2 DEF StopConversation, sessions
    <2>2. \A x \in Closers : closer'[x].pc = "disconnect" => closer'[x] = closer[x]
      BY Zenon, <1>2 DEF StopConversation, NoCloser, MInv, SessionInv, SessionTypes
    <2> QED
      BY ZenonT(60), <1>2, <2>1, <2>2, HeldUnchanged, StopInv, JoinKept DEF MInv, SessionInv
  <1>3. CASE UNCHANGED vars
    <2>1. /\ UNCHANGED <<conn, joiner, stray, loops, sess, closer, cleaning, lost, attached>>
      BY Zenon, <1>3 DEF vars, attached
    <2>2. SessionInv'
      BY Zenon, <2>1, SessionsGoOn DEF MInv, SessionInv, SessionTypes
    <2> QED
      BY ZenonT(60), <2>1, <2>2, HeldUnchanged, JoinKept DEF MInv, SessionInv
  <1> QED
    BY ZenonT(60), <1>1, <1>2, <1>3, ClientStep, CloserStep, RequestStep, CleanupStep DEF Next

(* The inductive invariant holds in every state of the manager. *)
THEOREM ManagerInvariant == Spec => []MInv
  BY InitMInv, StepMInv, PTL DEF Spec

-----------------------------------------------------------------------------
(* However requests, cleanups and closes interleave, a conversation is     *)
(* counted for exactly the requests that hold it, and nobody disconnects   *)
(* it under them: attach_to_conversation, detach_from_conversation and     *)
(* _cleanup_stale agree through _conversations_lock.                       *)
THEOREM HeldStaysConnected == Spec => []HeldIsConnected
  <1>1. MInv => HeldIsConnected
    <2> SUFFICES ASSUME MInv, NEW s \in Sids
                 PROVE  /\ active[s].count = Cardinality(Holders(s))
                        /\ \A r \in Holders(s) : req[r].conv = active[s].conv /\ convs[req[r].conv].connected
      BY Zenon DEF HeldIsConnected, Holders
    <2>1. Counted(s)
      BY Zenon DEF MInv, HeldInv
    <2>2. ASSUME NEW r \in Holders(s) PROVE active[s].count > 0
      BY <2>1, HoldersFinite, FS_EmptySet DEF Counted
    <2> QED
      BY Zenon, <2>1, <2>2 DEF Counted, Usable
  <1> QED
    BY <1>1, ManagerInvariant, PTL

(* A session that left _local_agent_loops_by_sid is closed or will be,     *)
(* unless a second start overwrote it or wait_all cancelled its close.     *)
THEOREM NoLoopOutOfReach == Spec => []NoSilentLoop
  <1>1. MInv => NoSilentLoop
    BY Zenon DEF MInv, SessionInv
  <1> QED
    BY <1>1, ManagerInvariant, PTL

(* A client whose join_conversation returned has an agent loop, unless it  *)
(* came behind the list of connections _close_session had made.            *)
THEOREM JoinedClientsHaveLoops == Spec => []JoinedHasLoop
  <1>1. MInv => JoinedHasLoop
    BY Zenon DEF MInv, JoinInv
  <1> QED
    BY <1>1, ManagerInvariant, PTL

=============================================================================
