----------------------------- MODULE PushChannel ------------------------------
(***************************************************************************)
(* How the dashboard is fed: Broadcaster (services/broadcaster.py) numbers *)
(* and broadcasts messages, ConnectionManager (api/websocket/manager.py)   *)
(* queues them for each connection, the endpoint of api/websocket/         *)
(* routes.py sends them, and useSpreadFeed.ts counts the ones it missed.   *)
(*                                                                         *)
(* A message is its sequence number; `updates` tells which are rows and    *)
(* which are heartbeats.  A browser uses one connection after another, and *)
(* the server may still hold an earlier one that it has not seen break.    *)
(* Operators marked "Fault" are mutated forms of the one that follows      *)
(* them; they show which property notices the bug and occur nowhere else.  *)
(***************************************************************************)
EXTENDS Integers, Sequences, FiniteSets, Functions

CONSTANTS
  Browsers,
  Slow,           (* the browsers that may stop reading for ever           *)
  QueueSize,      (* websocket.client_queue_size                           *)
  WireSize,       (* what the transport buffers before send_text() waits   *)
  HeartbeatEvery, (* heartbeat_interval_s in pushes                        *)
  MaxConns,       (* bound: connections opened                             *)
  MaxMessages,    (* bound: sequence numbers used                          *)
  MaxToggles,     (* bound: uses of the pause button                       *)
  MaxBreaks       (* bound: connections lost                               *)

ASSUME ChannelAssumption ==
  /\ Slow \subseteq Browsers
  /\ QueueSize \in Nat \ {0} /\ WireSize \in Nat \ {0}
  /\ HeartbeatEvery \in Nat \ {0}
ASSUME ChannelBoundsAssumption ==
  /\ MaxConns \in Nat /\ MaxMessages \in Nat
  /\ MaxToggles \in Nat /\ MaxBreaks \in Nat

Conns == 1..MaxConns
NoConn == 0
NoSeq == 0   (* lastSeqRef.current = null: sequence numbers start at 1     *)

VARIABLES
  (* the server *)
  sequence,   (* Broadcaster._sequence                                     *)
  sinceBeat,  (* since_heartbeat, in pushes                                *)
  clients,    (* ConnectionManager._clients: the connections registered    *)
  queue,      (* the queue of each connection                              *)
  handler,    (* where the endpoint of each connection is suspended        *)
  holding,    (* its local `payload`, NoSeq when it has none               *)
  (* the network *)
  wire,       (* messages sent on a connection and not yet received        *)
  broken,     (* the connections that have been lost or closed             *)
  (* the browsers *)
  conn,       (* the connection a browser uses                             *)
  isOpen,     (* its onopen has run                                        *)
  lastSeq,    (* lastSeqRef.current                                        *)
  missed,     (* missedMessages                                            *)
  updaters,   (* the updaters of missedMessages that a render has to run:  *)
              (* the `message.sequence` of each                            *)
  paused,
  rows,       (* the update whose rows are displayed                       *)
  (* history *)
  owner,      (* the browser of each connection used so far                *)
  toggles,
  deferred,   (* the browsers that ran an updater at a render              *)
  sent,       (* the messages broadcast to each connection, oldest first   *)
  got,        (* the messages each connection has delivered                *)
  updates     (* the numbers that were spread updates                      *)

server == <<sequence, sinceBeat, clients, queue, handler, holding>>
network == <<wire, broken>>
browser == <<conn, isOpen, lastSeq, missed, updaters, paused, rows>>
history == <<owner, toggles, deferred, sent, got, updates>>
vars == <<server, network, browser, history>>

(* handler: none; awaits accept(); awaits queue.get(); awaits send_text(); *)
(* has returned.                                                           *)
Handlers == {"none", "accepting", "waiting", "sending", "ended"}

TypeOK ==
  /\ sequence \in 0..MaxMessages /\ sinceBeat \in 0..HeartbeatEvery - 1
  /\ clients \subseteq Conns
  /\ queue \in [Conns -> Seq(1..MaxMessages)]
  /\ \A c \in Conns : Len(queue[c]) <= QueueSize
  /\ handler \in [Conns -> Handlers] /\ holding \in [Conns -> 0..MaxMessages]
  /\ wire \in [Conns -> Seq(1..MaxMessages)] /\ broken \subseteq Conns
  /\ conn \in [Browsers -> Conns \cup {NoConn}]
  /\ isOpen \in [Browsers -> BOOLEAN] /\ paused \in [Browsers -> BOOLEAN]
  /\ lastSeq \in [Browsers -> 0..MaxMessages] /\ missed \in [Browsers -> Int]
  /\ updaters \in [Browsers -> Seq(1..MaxMessages)]
  /\ rows \in [Browsers -> 0..MaxMessages]
  /\ owner \in Seq(Browsers) /\ Len(owner) <= MaxConns /\ toggles \in 0..MaxToggles
  /\ deferred \subseteq Browsers
  /\ sent \in [Conns -> Seq(1..MaxMessages)]
  /\ got \in [Conns -> SUBSET (1..MaxMessages)]
  /\ updates \subseteq 1..MaxMessages

Init ==
  /\ sequence = 0 /\ sinceBeat = 0 /\ clients = {}
  /\ queue = [c \in Conns |-> <<>>]
  /\ handler = [c \in Conns |-> "none"] /\ holding = [c \in Conns |-> NoSeq]
  /\ wire = [c \in Conns |-> <<>>] /\ broken = {}
  /\ conn = [b \in Browsers |-> NoConn] /\ isOpen = [b \in Browsers |-> FALSE]
  /\ lastSeq = [b \in Browsers |-> NoSeq] /\ missed = [b \in Browsers |-> 0]
  /\ updaters = [b \in Browsers |-> <<>>]
  /\ paused = [b \in Browsers |-> FALSE] /\ rows = [b \in Browsers |-> NoSeq]
  /\ owner = <<>> /\ toggles = 0 /\ deferred = {}
  /\ sent = [c \in Conns |-> <<>>] /\ got = [c \in Conns |-> {}]
  /\ updates = {}

-----------------------------------------------------------------------------
(* The broadcaster.                                                        *)

(* Fault: a full queue refuses the new message. *)
PutNewestDropped(q, n) == IF Len(q) = QueueSize THEN q ELSE Append(q, n)

(* Fault: the queue has no bound. *)
PutUnbounded(q, n) == Append(q, n)

(* Fault: the new message jumps the queue. *)
PutFirst(q, n) == <<n>> \o (IF Len(q) = QueueSize THEN Tail(q) ELSE q)

(* broadcast() to one queue: the oldest message makes room. *)
Put(q, n) == IF Len(q) = QueueSize THEN Append(Tail(q), n) ELSE Append(q, n)

(* An iteration of _run pushes the rows, and a heartbeat when one is due. *)
Push ==
  LET due == sinceBeat + 1 >= HeartbeatEvery
      row == sequence + 1
      beat == sequence + 2
      Queued(q) == IF due THEN Put(Put(q, row), beat) ELSE Put(q, row)
      Pushed(s) == IF due THEN s \o <<row, beat>> ELSE Append(s, row)
  IN  /\ clients # {}
      /\ sequence' = IF due THEN beat ELSE row
      /\ sequence' <= MaxMessages
      /\ sinceBeat' = IF due THEN 0 ELSE sinceBeat + 1
      /\ queue' = [c \in Conns |-> IF c \in clients THEN Queued(queue[c]) ELSE queue[c]]
      /\ sent' = [c \in Conns |-> IF c \in clients THEN Pushed(sent[c]) ELSE sent[c]]
      /\ updates' = updates \cup {row}
      /\ UNCHANGED <<clients, handler, holding, network, browser, owner, toggles,
                     deferred, got>>

(* compute_all() raises after the number has been taken. *)
PushFails ==
  /\ clients # {}
  /\ sequence < MaxMessages
  /\ sequence' = sequence + 1
  /\ UNCHANGED <<sinceBeat, clients, queue, handler, holding, network, browser, history>>

-----------------------------------------------------------------------------
(* The endpoint of a connection.                                           *)

(* accept() returns and connect() registers a queue of its own. *)
Register(c) ==
  /\ handler[c] = "accepting"
  /\ handler' = [handler EXCEPT ![c] = "waiting"]
  /\ clients' = clients \cup {c}
  /\ UNCHANGED <<sequence, sinceBeat, queue, holding, network, browser, history>>

AcceptFails(c) ==
  /\ handler[c] = "accepting"
  /\ c \in broken
  /\ handler' = [handler EXCEPT ![c] = "ended"]
  /\ UNCHANGED <<sequence, sinceBeat, clients, queue, holding, network, browser, history>>

TakePayload(c) ==
  /\ handler[c] = "waiting"
  /\ queue[c] # <<>>
  /\ holding' = [holding EXCEPT ![c] = Head(queue[c])]
  /\ queue' = [queue EXCEPT ![c] = Tail(@)]
  /\ handler' = [handler EXCEPT ![c] = "sending"]
  /\ UNCHANGED <<sequence, sinceBeat, clients, network, browser, history>>

(* send_text() returns once the transport has room; a connection that is   *)
(* broken may still swallow the payload.                                   *)
SendText(c) ==
  /\ handler[c] = "sending"
  /\ Len(wire[c]) < WireSize
  /\ wire' = IF c \in broken THEN wire ELSE [wire EXCEPT ![c] = Append(@, holding[c])]
  /\ holding' = [holding EXCEPT ![c] = NoSeq]
  /\ handler' = [handler EXCEPT ![c] = "waiting"]
  /\ UNCHANGED <<sequence, sinceBeat, clients, queue, broken, browser, history>>

(* send_text() raises: the endpoint returns and unregisters its queue. *)
SendFails(c) ==
  /\ handler[c] = "sending"
  /\ c \in broken
  /\ holding' = [holding EXCEPT ![c] = NoSeq]
  /\ handler' = [handler EXCEPT ![c] = "ended"]
  /\ clients' = clients \ {c}
  /\ queue' = [queue EXCEPT ![c] = <<>>]
  /\ UNCHANGED <<sequence, sinceBeat, network, browser, history>>

-----------------------------------------------------------------------------
(* The browser.                                                            *)

(* connect(): new WebSocket; the server starts an endpoint for it. *)
Dial(b) ==
  /\ conn[b] = NoConn
  /\ Len(owner) < MaxConns
  /\ owner' = Append(owner, b)
  /\ conn' = [conn EXCEPT ![b] = Len(owner')]
  /\ handler' = [handler EXCEPT ![Len(owner')] = "accepting"]
  /\ UNCHANGED <<sequence, sinceBeat, clients, queue, holding, network,
                 isOpen, lastSeq, missed, updaters, paused, rows, toggles, deferred, sent, got, updates>>

(* Fault: the last number of the previous connection is kept. *)
OnOpenKeepsSeq(b) ==
  /\ conn[b] # NoConn
  /\ ~isOpen[b]
  /\ conn[b] \notin broken
  /\ isOpen' = [isOpen EXCEPT ![b] = TRUE]
  /\ UNCHANGED <<server, network, conn, lastSeq, missed, updaters, paused, rows, history>>

OnOpen(b) ==
  /\ conn[b] # NoConn
  /\ ~isOpen[b]
  /\ conn[b] \notin broken
  /\ isOpen' = [isOpen EXCEPT ![b] = TRUE]
  /\ lastSeq' = [lastSeq EXCEPT ![b] = NoSeq]
  /\ UNCHANGED <<server, network, conn, missed, updaters, paused, rows, history>>

(* A gap is handed to React as an updater, a closure that reads lastSeqRef *)
(* when it runs: at once, or, if an update of the page is pending, during  *)
(* the next render, when lastSeqRef has moved on.                          *)
IsGap(last, n) == last # NoSeq /\ n > last + 1

CountGap(b, n) ==
  IF ~IsGap(lastSeq[b], n)
    THEN UNCHANGED <<missed, updaters>>
    ELSE \/ /\ updaters[b] = <<>>
            /\ missed' = [missed EXCEPT ![b] = @ + (n - lastSeq[b] - 1)]
            /\ UNCHANGED updaters
         \/ /\ updaters' = [updaters EXCEPT ![b] = Append(@, n)]
            /\ UNCHANGED missed

OnMessage(b) ==
  /\ isOpen[b]
  /\ wire[conn[b]] # <<>>
  /\ LET c == conn[b]
         n == Head(wire[c])
     IN  /\ wire' = [wire EXCEPT ![c] = Tail(@)]
         /\ CountGap(b, n)
         /\ lastSeq' = [lastSeq EXCEPT ![b] = n]
         /\ rows' = IF n \in updates /\ ~paused[b] THEN [rows EXCEPT ![b] = n] ELSE rows
         /\ got' = [got EXCEPT ![c] = @ \cup {n}]
  /\ UNCHANGED <<server, broken, conn, isOpen, paused, owner, toggles, deferred, sent, updates>>

(* A render runs the oldest updater that waits. *)
Render(b) ==
  /\ updaters[b] # <<>>
  /\ missed' = [missed EXCEPT ![b] = @ + (Head(updaters[b]) - lastSeq[b] - 1)]
  /\ updaters' = [updaters EXCEPT ![b] = Tail(@)]
  /\ deferred' = deferred \cup {b}
  /\ UNCHANGED <<server, network, conn, isOpen, lastSeq, paused, rows,
                 owner, toggles, sent, got, updates>>

(* onclose: whatever had not arrived is gone; the rows stay on display.    *)
OnClose(b) ==
  /\ conn[b] # NoConn
  /\ conn[b] \in broken
  /\ wire' = [wire EXCEPT ![conn[b]] = <<>>]
  /\ conn' = [conn EXCEPT ![b] = NoConn]
  /\ isOpen' = [isOpen EXCEPT ![b] = FALSE]
  /\ UNCHANGED <<server, broken, lastSeq, missed, updaters, paused, rows, history>>

TogglePause(b) ==
  /\ toggles < MaxToggles
  /\ toggles' = toggles + 1
  /\ paused' = [paused EXCEPT ![b] = ~@]
  /\ UNCHANGED <<server, network, conn, isOpen, lastSeq, missed, updaters, rows,
                 owner, deferred, sent, got, updates>>

(* The connection is lost, or closed by a proxy or by leaving the page.    *)
Break(c) ==
  /\ c \in DOMAIN owner
  /\ c \notin broken
  /\ Cardinality(broken) < MaxBreaks
  /\ broken' = broken \cup {c}
  /\ UNCHANGED <<server, wire, browser, history>>

-----------------------------------------------------------------------------
Endpoint(c) == Register(c) \/ AcceptFails(c) \/ TakePayload(c) \/ SendText(c) \/ SendFails(c)
Page(b) == Dial(b) \/ OnOpen(b) \/ OnMessage(b) \/ Render(b) \/ OnClose(b)

Next ==
  \/ Push \/ PushFails
  \/ \E c \in Conns : Endpoint(c) \/ Break(c)
  \/ \E b \in Browsers : Page(b) \/ TogglePause(b)

Spec == Init /\ [][Next]_vars

(* The event loop runs every endpoint; the pages that are not slow run     *)
(* their handlers.  Nothing is assumed of the slow ones.                   *)
LiveSpec ==
  /\ Spec
  /\ \A c \in Conns : WF_vars(Endpoint(c))
  /\ \A b \in Browsers \ Slow : WF_vars(Page(b))

-----------------------------------------------------------------------------
(* Properties.                                                             *)

Ascending(s) == \A i, j \in DOMAIN s : i < j => s[i] < s[j]
Held(c) == IF holding[c] = NoSeq THEN <<>> ELSE <<holding[c]>>

(* A queue holds exactly the newest messages broadcast to its connection,  *)
(* and what was taken from it is older and on its way in order: a slow     *)
(* client loses the oldest messages and never a newer one.                 *)
QueueIsNewest ==
  \A c \in clients :
    /\ \E k \in 0..Len(sent[c]) : queue[c] = SubSeq(sent[c], k + 1, Len(sent[c]))
    /\ Ascending(wire[c] \o Held(c) \o queue[c])
    /\ \A n \in got[c], i \in DOMAIN wire[c] : n < wire[c][i]

(* The numbers between the first and the last message of a connection that *)
(* the connection did not deliver.                                         *)
Missing(c) ==
  {n \in 1..MaxMessages \ got[c] : \E first, last \in got[c] : first < n /\ n < last}

(* The numbers that the connections of a page skipped: messages dropped    *)
(* from a full queue, and numbers used up by a failed computation.         *)
Skips(b) ==
  {skip \in Conns \X (1..MaxMessages) :
     /\ skip[1] \in DOMAIN owner /\ owner[skip[1]] = b
     /\ skip[2] \in Missing(skip[1])}

Skipped(b) == Cardinality(Skips(b))

(* The counter of a page whose updaters have all run at once is exactly    *)
(* the number of messages its connections skipped: overflows are counted   *)
(* once, and reconnecting adds nothing.  An updater that React puts off    *)
(* reads lastSeqRef too late, and the counter is wrong from then on.       *)
MissedIsExact ==
  \A b \in Browsers \ deferred : updaters[b] = <<>> => missed[b] = Skipped(b)

(* The rows on display are never replaced by older ones, whatever queue    *)
(* overflow, pause or reconnect happens in between.                        *)
RowsNeverGoBack == [][ \A b \in Browsers : rows'[b] >= rows[b] ]_vars

(* When the pushes have ended, a page that keeps reading has received the  *)
(* last message broadcast to its connection, even if others read nothing.  *)
LatestReaches ==
  <>[](\A b \in Browsers \ Slow :
         LET c == conn[b]
         IN  isOpen[b] /\ c \notin broken /\ c \in clients /\ sent[c] # <<>>
               => lastSeq[b] = sent[c][Len(sent[c])])
=============================================================================
