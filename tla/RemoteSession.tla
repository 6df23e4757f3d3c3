--------------------------- MODULE RemoteSession ---------------------------
(***************************************************************************)
(* One remote access session, from the page in the browser to guacd.       *)
(*                                                                         *)
(* In the browser: the page's script (rac/client.go), Guacamole.Client's   *)
(* life cycle and Guacamole.WebSocketTunnel (guacamole-common.js).  In the *)
(* engine: the handler (httpapi/rac.go), which dials guacd, records the    *)
(* session, accepts the WebSocket and runs Proxy (rac/proxy.go), whose two *)
(* goroutines copy in the two directions until one of them stops.  guacd,  *)
(* the WebSocket library and the network are the environment.              *)
(*                                                                         *)
(* The browser runs a handler to its end before the next event, so an      *)
(* event is one action; the handler's steps in the engine interleave with  *)
(* the goroutines and with the browser.                                    *)
(***************************************************************************)
EXTENDS Naturals, Sequences

CONSTANTS
    MaxUp,      \* bound: input in flight towards the engine; more changes nothing
    Bursts,     \* what guacd may send at a time: sequences of instructions
    MaxBursts,  \* bound: how often it sends
    Failing     \* bound: which of a session's writes to the database fail together

ASSUME BurstsAssumption == Bursts \subseteq Seq({"sync", "error", "disconnect"})
ASSUME BoundsAssumption == MaxUp \in Nat /\ MaxBursts \in Nat

VARIABLES
    b,   \* the browser: the socket (sock), the tunnel (tun, uuid, timers), the
         \* client (cli, keep), what the page's status line shows (page), whether
         \* the page is still there (here) and what is on its way to the engine
    s,   \* the engine: the handler (pc), the session's row, the audit trail, the
         \* goroutines (up, down), their channel (done), the reason taken from
         \* it, the WebSocket (ws), what is on its way to the browser (out), and
         \* which of its writes to the database failed (lost)
    g,   \* guacd: its connection with the engine (conn), whether it is alive,
         \* what it sent and nobody has read (buf), how often it sent
    user \* whether the user asked to disconnect, "no" or "yes"

vars == <<b, s, g, user>>

TunnelStates == {"CONNECTING", "OPEN", "CLOSED", "UNSTABLE"}
ClientStates == {"IDLE", "CONNECTING", "WAITING", "CONNECTED", "DISCONNECTING",
                 "DISCONNECTED"}

InitBrowser ==
    [sock |-> "none", tun |-> "CLOSED", uuid |-> FALSE, timers |-> {}, cli |-> "IDLE",
     keep |-> FALSE, page |-> "connecting", here |-> TRUE, out |-> <<>>]

-----------------------------------------------------------------------------
(* Guacamole.Tunnel and Guacamole.WebSocketTunnel *)

\* Tunnel.isConnected
TunnelConnected(w) == w.tun \in {"OPEN", "UNSTABLE"}

\* WebSocket.send throws while the socket is connecting, and the rest of the
\* handler is not run.
Throws(w) == TunnelConnected(w) /\ w.sock = "connecting"

\* sendMessage
SendMessage(w, m) ==
    IF TunnelConnected(w) /\ w.sock = "open" /\ (m = "input" => Len(w.out) < MaxUp)
    THEN [w EXCEPT !.out = Append(@, m)]
    ELSE w

\* sendPing: guacd ignores what it says.
SendPing(w) == SendMessage(w, "input")

\* resetTimers.  The ping is sent now if the last one is old enough.
ResetTimers(w, now) ==
    LET t == [w EXCEPT !.tun = IF @ = "UNSTABLE" THEN "OPEN" ELSE @,
                       !.timers = {"receive", "unstable"}
                                  \cup IF now THEN {} ELSE {"ping"}]
    IN  IF now THEN SendPing(t) ELSE t

\* WebSocket.close: the closing frame has no status, and a socket that is not
\* open yet is just dropped.
CloseSocket(w) ==
    [w EXCEPT !.sock = "closed",
              !.out = CASE w.sock = "open" -> Append(@, "close")
                        [] w.sock = "connecting" -> Append(@, "abort")
                        [] OTHER -> @]

(* Mutant: an abnormal end is not signalled. *)
CloseTunnelQuietly(w, status) ==
    CloseSocket([w EXCEPT !.timers = {}, !.tun = "CLOSED"])

\* close_tunnel, with the page's tunnel.onerror
CloseTunnel(w, status) ==
    LET t == [w EXCEPT !.timers = {}]
    IN  IF w.tun = "CLOSED" THEN t
        ELSE CloseSocket([t EXCEPT
                !.tun = "CLOSED", !.page = IF status = "SUCCESS" THEN @ ELSE "failed"])

\* Status.Code.fromWebSocketCode
FromWebSocketCode(code) ==
    CASE code = 1000 -> "SUCCESS"
      [] code \in {1006, 1015} -> "UPSTREAM_NOT_FOUND"
      [] code \in {1001, 1012, 1013, 1014} -> "UPSTREAM_UNAVAILABLE"
      [] OTHER -> "SERVER_ERROR"

-----------------------------------------------------------------------------
(* Guacamole.Client, with the page's client.onstatechange *)

ClientSetState(w, state) ==
    IF state = w.cli THEN w
    ELSE [w EXCEPT !.cli = state,
                   !.page = CASE state = "CONNECTING" -> "connecting"
                              [] state = "WAITING" -> "waiting"
                              [] state = "CONNECTED" -> "hidden"
                              [] state = "DISCONNECTED" -> "disconnected"
                              [] OTHER -> @]

\* Client's own isConnected, which guards sendKeyEvent and sendMouseState
ClientConnected(w) == w.cli \in {"CONNECTED", "WAITING"}

\* sendKeepAlive
SendKeepAlive(w) == SendMessage(w, "input")

\* scheduleKeepAlive: at once if the last one is old enough
ScheduleKeepAlive(w, now) ==
    IF now THEN SendKeepAlive([w EXCEPT !.keep = FALSE]) ELSE [w EXCEPT !.keep = TRUE]

\* disconnect.  If sending throws, the tunnel is not closed.
Disconnect(w) ==
    LET d == [ClientSetState(w, "DISCONNECTING") EXCEPT !.keep = FALSE]
        m == SendMessage(d, "disconnect")
    IN  IF w.cli \in {"DISCONNECTED", "DISCONNECTING"} THEN w
        ELSE IF Throws(d) THEN d
        ELSE ClientSetState(CloseTunnel(m, "SUCCESS"), "DISCONNECTED")

\* The handlers of "sync", "error" and "disconnect"; the page's client.onerror
Instruction(w, op) ==
    CASE op = "sync" -> IF w.cli = "WAITING" THEN ClientSetState(w, "CONNECTED") ELSE w
      [] op = "error" -> Disconnect([w EXCEPT !.page = "error"])
      [] op = "disconnect" -> Disconnect(w)

(* Mutant: every instruction opens the tunnel. *)
HandleReopens(w, op, now) ==
    LET t == [w EXCEPT !.uuid = @ \/ op = "id", !.tun = "OPEN"]
    IN  IF op = "id" THEN t ELSE ScheduleKeepAlive(Instruction(t, op), now)

\* One instruction of a message: the tunnel opens with the first, and the
\* internal one names the tunnel.  Those after a disconnect are handled too.
HandleInstruction(w, op, now) ==
    LET t == IF w.uuid THEN w ELSE [w EXCEPT !.uuid = (op = "id"), !.tun = "OPEN"]
    IN  IF op = "id" THEN t ELSE ScheduleKeepAlive(Instruction(t, op), now)

\* The instructions of a message, in order
HandleMessage(w, ops, now) ==
    LET after[n \in 0..Len(ops)] ==
            IF n = 0 THEN w ELSE HandleInstruction(after[n - 1], ops[n], now)
    IN  after[Len(ops)]

-----------------------------------------------------------------------------
(* The browser's events *)

\* What a socket that is closed has not delivered, it never delivers.
Undelivered(w, queue) == IF w.sock = "closed" THEN <<>> ELSE queue

\* client.connect, from the page's script, up to the engine's handler
PageLoad == \E now \in BOOLEAN :
    /\ b.sock = "none" /\ s.pc = "idle"
    /\ LET c == ResetTimers(ClientSetState(b, "CONNECTING"), TRUE)
           t == [c EXCEPT !.tun = "CONNECTING", !.sock = "connecting"]
       IN  b' = ClientSetState(ScheduleKeepAlive(t, now), "WAITING")
    /\ s' = [s EXCEPT !.pc = "request"]
    /\ UNCHANGED <<g, user>>

\* socket.onopen
SocketOpens == \E now \in BOOLEAN :
    /\ b.here /\ b.sock = "connecting" /\ s.out # <<>> /\ Head(s.out) = <<"open">>
    /\ b' = ResetTimers([b EXCEPT !.sock = "open"], now)
    /\ s' = [s EXCEPT !.out = Tail(@)]
    /\ UNCHANGED <<g, user>>

Closing == {<<"refused">>, <<"abort">>, <<"1000">>}

\* socket.onmessage
SocketMessage == \E ping, nop \in BOOLEAN :
    /\ b.here /\ b.sock = "open" /\ s.out # <<>> /\ Head(s.out) \notin Closing
    /\ b' = HandleMessage(ResetTimers(b, ping), Head(s.out), nop)
    /\ s' = [s EXCEPT !.out = Undelivered(b', Tail(@))]
    /\ UNCHANGED <<g, user>>

\* socket.onclose.  The browser reports every end but a regular one as 1006.
SocketClosed ==
    /\ b.here /\ b.sock \in {"connecting", "open"}
    /\ s.out # <<>> /\ Head(s.out) \in Closing
    /\ LET code == IF Head(s.out) = <<"1000">> THEN 1000 ELSE 1006
       IN  b' = CloseTunnel([b EXCEPT !.sock = "closed"], FromWebSocketCode(code))
    /\ s' = [s EXCEPT !.out = <<>>]
    /\ UNCHANGED <<g, user>>

\* The timers run out in the order of their delays: 500 ms, 1.5 s, 15 s.
PingFires ==
    /\ b.here /\ "ping" \in b.timers
    /\ b' = SendPing([b EXCEPT !.timers = @ \ {"ping"}])
    /\ UNCHANGED <<s, g, user>>

UnstableFires ==
    /\ b.here /\ "unstable" \in b.timers /\ "ping" \notin b.timers
    /\ b' = [b EXCEPT !.timers = @ \ {"unstable"}, !.tun = "UNSTABLE"]
    /\ UNCHANGED <<s, g, user>>

ReceiveFires ==
    /\ b.here /\ b.timers = {"receive"}
    /\ b' = CloseTunnel(b, "UPSTREAM_TIMEOUT")
    /\ s' = [s EXCEPT !.out = Undelivered(b', @)]
    /\ UNCHANGED <<g, user>>

KeepAliveFires ==
    /\ b.here /\ b.keep
    /\ b' = SendKeepAlive([b EXCEPT !.keep = FALSE])
    /\ UNCHANGED <<s, g, user>>

\* A key or the mouse
Input ==
    /\ b.here /\ ClientConnected(b)
    /\ b' = SendMessage(b, "input")
    /\ UNCHANGED <<s, g, user>>

\* The page's disconnect button
Click ==
    /\ b.here /\ b.sock # "none" /\ user = "no"
    /\ user' = "yes"
    /\ LET d == Disconnect(b)
       IN  b' = IF Throws(b) THEN d ELSE [d EXCEPT !.page = "disconnected"]
    /\ s' = [s EXCEPT !.out = Undelivered(b', @)]
    /\ UNCHANGED g

\* The page is left: its script disconnects, the browser drops the socket, and
\* nothing of the page remains.
PageHide ==
    /\ b.here /\ b.sock # "none"
    /\ b' = [InitBrowser EXCEPT !.here = FALSE, !.sock = "closed",
                                !.out = CloseSocket(Disconnect(b)).out]
    /\ s' = [s EXCEPT !.out = <<>>]
    /\ UNCHANGED <<g, user>>

-----------------------------------------------------------------------------
(* The engine's handler *)

At(pc) == s.pc = pc

\* A write to the database that fails is logged, and the handler goes on.
Fails(t, write) ==
    {u \in {[t EXCEPT !.lost = @ \cup {write}]} : u.lost \in Failing}

\* Everything that is checked before guacd is dialled
Refuse ==
    /\ At("request")
    /\ s' = [s EXCEPT !.pc = "done", !.out = Undelivered(b, <<<<"refused">>>>)]
    /\ UNCHANGED <<b, g, user>>

\* auditDetached: its Begin, Write or Commit may fail, which is only logged.
auditDetached(t, event) ==
    {[t EXCEPT !.trail = @ \cup {event}]} \cup Fails(t, event)

\* The checks pass, and the request is audited; guacd is dialled even if that
\* failed.
Admit ==
    /\ At("request")
    /\ \E t \in auditDetached(s, "requested") : s' = [t EXCEPT !.pc = "dial"]
    /\ UNCHANGED <<b, g, user>>

\* Dial and its handshake
Dial ==
    /\ At("dial")
    /\ \/ /\ g' = [g EXCEPT !.conn = "open", !.alive = TRUE]
          /\ s' = [s EXCEPT !.pc = "record"]
       \/ /\ s' = [s EXCEPT !.pc = "done", !.out = Undelivered(b, <<<<"refused">>>>)]
          /\ UNCHANGED g
    /\ UNCHANGED <<b, user>>

\* StartRACSession; the session goes on without a row if it fails.
StartRACSession ==
    /\ At("record")
    /\ \E t \in {[s EXCEPT !.row = "open"]} \cup Fails(s, "start") :
          s' = [t EXCEPT !.pc = "accept"]
    /\ UNCHANGED <<b, g, user>>

\* EndRACSession.  It is not tried again if it fails.
EndRACSession(t, reason) ==
    IF t.row = "open"
    THEN {[t EXCEPT !.row = "ended", !.reason = reason]} \cup Fails(t, "row")
    ELSE {t}

(* Mutant: an upgrade that fails leaves the row as it is. *)
AcceptForgetsRow ==
    /\ At("accept")
    /\ \/ s' = [s EXCEPT !.pc = "hello", !.ws = "open", !.out = Undelivered(b, <<<<"open">>>>)]
       \/ s' = [s EXCEPT !.pc = "release", !.out = Undelivered(b, <<<<"refused">>>>)]
    /\ UNCHANGED <<b, g, user>>

\* websocket.Accept
Accept ==
    /\ At("accept")
    /\ \/ s' = [s EXCEPT !.pc = "hello", !.ws = "open", !.out = Undelivered(b, <<<<"open">>>>)]
       \/ \E t \in EndRACSession(s, "upgrade failed") :
             s' = [t EXCEPT !.pc = "release", !.out = Undelivered(b, <<<<"refused">>>>)]
    /\ UNCHANGED <<b, g, user>>

\* Whether a write to the browser can succeed, or fail
CanWrite == s.ws = "open" /\ ~s.cancelled
CanFail == s.ws # "open" \/ s.cancelled \/ b.sock = "closed"

\* Proxy, up to the start of its goroutines: the tunnel's identifier first.
Hello ==
    /\ At("hello")
    /\ \/ /\ CanWrite
          /\ s' = [s EXCEPT !.pc = "proxy", !.out = Undelivered(b, Append(@, <<"id">>)),
                            !.up = "reading", !.down = "reading"]
       \/ /\ CanFail
          /\ s' = [s EXCEPT !.pc = "end", !.cancelled = TRUE,
                            !.why = "client went away before the session started"]
    /\ UNCHANGED <<b, g, user>>

(* Mutant: the last reason counts. *)
ReturnedLast ==
    /\ At("proxy") /\ s.done # <<>>
    /\ LET torn == s.up = "reading" /\ s.ws = "open"
       IN  s' = [s EXCEPT !.pc = "end", !.cancelled = TRUE, !.why = s.done[Len(s.done)],
                          !.ws = IF torn THEN "broken" ELSE @,
                          !.out = IF torn THEN Undelivered(b, Append(@, <<"abort">>)) ELSE @]
    /\ UNCHANGED <<b, g, user>>

\* Proxy returns the first reason, and its context is cancelled.  A Read that
\* is waiting then tears the WebSocket down.
Returned ==
    /\ At("proxy") /\ s.done # <<>>
    /\ LET torn == s.up = "reading" /\ s.ws = "open"
       IN  s' = [s EXCEPT !.pc = "end", !.cancelled = TRUE, !.why = Head(s.done),
                          !.ws = IF torn THEN "broken" ELSE @,
                          !.out = IF torn THEN Undelivered(b, Append(@, <<"abort">>)) ELSE @]
    /\ UNCHANGED <<b, g, user>>

\* The row is ended with the reason Proxy returned.
EndRecord ==
    /\ At("end")
    /\ \E t \in EndRACSession(s, s.why) : s' = [t EXCEPT !.pc = "audit"]
    /\ UNCHANGED <<b, g, user>>

AuditEnd ==
    /\ At("audit")
    /\ \E t \in auditDetached(s, "ended") : s' = [t EXCEPT !.pc = "close"]
    /\ UNCHANGED <<b, g, user>>

(* Mutant: the WebSocket is left open. *)
CloseWebSocketNever ==
    /\ At("close")
    /\ s' = [s EXCEPT !.pc = "release"]
    /\ UNCHANGED <<b, g, user>>

\* ws.Close(StatusNormalClosure)
CloseWebSocket ==
    /\ At("close")
    /\ s' = [s EXCEPT !.pc = "release", !.ws = "broken",
                      !.out = IF s.ws = "open" THEN Undelivered(b, Append(@, <<"1000">>))
                              ELSE @]
    /\ UNCHANGED <<b, g, user>>

\* The deferred guac.Close
Release ==
    /\ At("release")
    /\ g' = [g EXCEPT !.conn = "closed", !.alive = FALSE]
    /\ s' = [s EXCEPT !.pc = "done"]
    /\ UNCHANGED <<b, user>>

-----------------------------------------------------------------------------
(* Proxy's goroutines *)

reasonFor(code, fallback) == IF code = 1000 THEN "closed by the user" ELSE fallback

\* wsPeer.ReadMessage's error for a closing frame without a status is 1005.
CloseStatus(m) == IF m = "close" THEN 1005 ELSE 1006

(* Mutant: a goroutine that has reported goes on. *)
UpReadOn ==
    /\ s.up = "reading" /\ ~s.cancelled /\ b.out # <<>> /\ Head(b.out) \in {"close", "abort"}
    /\ s' = [s EXCEPT !.done = Append(@, "client disconnected")]
    /\ UNCHANGED <<b, g, user>>

\* Browser to guacd: ReadMessage
UpRead ==
    /\ s.up = "reading" /\ ~s.cancelled /\ b.out # <<>>
    /\ b' = [b EXCEPT !.out = Tail(@)]
    /\ LET m == Head(b.out)
       IN  s' = IF m \in {"close", "abort"}
                THEN [s EXCEPT !.up = "stopped", !.ws = "broken",
                               !.done = Append(@, reasonFor(CloseStatus(m),
                                                            "client disconnected"))]
                ELSE [s EXCEPT !.up = m]
    /\ UNCHANGED <<g, user>>

\* guac.WriteRaw.  It fails once guacd is gone, though not always at once; a
\* disconnect makes guacd end the session.
UpWrite ==
    /\ s.up \in {"input", "disconnect"}
    /\ \/ /\ g.conn = "open"
          /\ s' = [s EXCEPT !.up = "reading"]
          /\ g' = [g EXCEPT !.alive = @ /\ s.up # "disconnect"]
       \/ /\ ~g.alive
          /\ s' = [s EXCEPT !.up = "stopped", !.done = Append(@, "guacd stopped reading")]
          /\ UNCHANGED g
    /\ UNCHANGED <<b, user>>

\* A Read whose context is cancelled returns.
UpCancelled ==
    /\ s.up = "reading" /\ s.cancelled
    /\ s' = [s EXCEPT !.up = "stopped", !.done = Append(@, "client disconnected")]
    /\ UNCHANGED <<b, g, user>>

\* guacd to browser: ReadFrame takes what has arrived, WriteMessage passes it on.
DownCopy ==
    /\ s.down = "reading" /\ g.buf # <<>> /\ g.conn = "open"
    /\ \E n \in 1..Len(g.buf) :
          /\ g' = [g EXCEPT !.buf = SubSeq(@, n + 1, Len(@))]
          /\ \/ /\ CanWrite
                /\ s' = [s EXCEPT !.out = Undelivered(b, Append(@, SubSeq(g.buf, 1, n)))]
             \/ /\ CanFail
                /\ s' = [s EXCEPT !.down = "stopped",
                                  !.done = Append(@, "client stopped reading")]
    /\ UNCHANGED <<b, user>>

\* guacd has closed its end, or the handler has closed ours.
DownEnds ==
    /\ s.down = "reading" /\ (g.conn = "closed" \/ (g.buf = <<>> /\ ~g.alive))
    /\ \E why \in {"remote session ended", "guacd disconnected"} :
          s' = [s EXCEPT !.down = "stopped", !.done = Append(@, why)]
    /\ UNCHANGED <<b, g, user>>

-----------------------------------------------------------------------------
(* guacd and the network *)

GuacdSends(burst) ==
    /\ g.conn = "open" /\ g.alive /\ g.sent < MaxBursts
    /\ g' = [g EXCEPT !.buf = @ \o burst, !.sent = @ + 1]
    /\ UNCHANGED <<b, s, user>>

\* The remote host or guacd goes away.
GuacdEnds ==
    /\ g.conn = "open" /\ g.alive
    /\ g' = [g EXCEPT !.alive = FALSE]
    /\ UNCHANGED <<b, s, user>>

\* The connection between browser and engine breaks; both ends notice.
NetworkLost ==
    /\ s.ws = "open" /\ b.sock = "open"
    /\ b' = [b EXCEPT !.out = <<"abort">>]
    /\ s' = [s EXCEPT !.ws = "broken", !.out = <<<<"abort">>>>]
    /\ UNCHANGED <<g, user>>

\* The engine dies; the sockets of its process are closed with it.
Crash ==
    /\ s.pc \notin {"idle", "done", "crashed"}
    /\ s' = [s EXCEPT !.pc = "crashed", !.ws = "broken", !.up = "stopped",
                      !.down = "stopped",
                      !.out = Undelivered(b, Append(@, <<"abort">>))]
    /\ g' = IF g.conn = "none" THEN g ELSE [g EXCEPT !.conn = "closed", !.alive = FALSE]
    /\ UNCHANGED <<b, user>>

-----------------------------------------------------------------------------

Init ==
    /\ b = InitBrowser
    /\ s = [pc |-> "idle", row |-> "none", reason |-> "", why |-> "", lost |-> {},
            trail |-> {}, up |-> "stopped", down |-> "stopped", done |-> <<>>,
            cancelled |-> FALSE, ws |-> "none", out |-> <<>>]
    /\ g = [conn |-> "none", alive |-> FALSE, buf |-> <<>>, sent |-> 0]
    /\ user = "no"

Handler == \/ Refuse \/ Admit \/ Dial \/ StartRACSession \/ Accept \/ Hello \/ Returned
           \/ EndRecord \/ AuditEnd \/ CloseWebSocket \/ Release
Up == UpRead \/ UpWrite \/ UpCancelled
Down == DownCopy \/ DownEnds
Delivery == SocketOpens \/ SocketMessage \/ SocketClosed

Next ==
    \/ PageLoad \/ Delivery
    \/ PingFires \/ UnstableFires \/ ReceiveFires \/ KeepAliveFires
    \/ Input \/ Click \/ PageHide
    \/ Handler \/ Up \/ Down
    \/ \E burst \in Bursts : GuacdSends(burst)
    \/ GuacdEnds \/ NetworkLost \/ Crash

Spec == Init /\ [][Next]_vars

\* The handler and the goroutines are scheduled, their calls return (the
\* handshake with guacd has a deadline, and guacd reads what is written to it or
\* goes away), and the browser is given what was sent to it.
FairSpec == /\ Spec
            /\ WF_vars(Handler) /\ WF_vars(Up) /\ WF_vars(Down) /\ WF_vars(Delivery)

-----------------------------------------------------------------------------
(* Properties *)

Over == s.pc \in {"done", "crashed"}

(* Neither goroutine reports twice: the channel of Proxy has room for two    *)
(* reasons, and a third would block a goroutine that nobody waits for.       *)
ChannelHasRoom ==
    Len(s.done) + (IF s.up = "stopped" THEN 0 ELSE 1)
                + (IF s.down = "stopped" THEN 0 ELSE 1) <= 2

(* Every variable has its type, and neither goroutine reports twice.         *)
TypeOK ==
    /\ user \in {"no", "yes"}
    /\ b.sock \in {"none", "connecting", "open", "closed"}
    /\ b.tun \in TunnelStates
    /\ b.cli \in ClientStates
    /\ b.page \in {"connecting", "waiting", "hidden", "failed", "error", "disconnected"}
    /\ b.timers \subseteq {"receive", "unstable", "ping"}
    /\ s.row \in {"none", "open", "ended"} /\ s.ws \in {"none", "open", "broken"}
    /\ s.up \in {"reading", "input", "disconnect", "stopped"}
    /\ s.down \in {"reading", "stopped"}
    /\ g.conn \in {"none", "open", "closed"}
    /\ ChannelHasRoom

(* A tunnel whose socket is gone is closed and stays so, whatever is left in *)
(* the message being handled and whatever timers were set.  It depends on    *)
(* the engine: the tunnel opens with every instruction until one has named   *)
(* it, and Proxy sends that one first.  Asking to disconnect closes it too,  *)
(* unless it was asked of a socket still connecting that had been marked     *)
(* unstable: send threw, and the client is left DISCONNECTING.               *)
ClosedStaysClosed ==
    /\ b.sock = "closed" => b.tun = "CLOSED"
    /\ user # "no" /\ b.tun # "CLOSED" => b.cli = "DISCONNECTING"

(* The status line is hidden on a tunnel that is closed in one case only:    *)
(* guacd ended the session without a word, and no Read was waiting when the  *)
(* handler gave up, so that the WebSocket was closed regularly.  Every other *)
(* end of a session, the engine's death included, leaves something to read.  *)
HiddenOnlyWhileOpen ==
    b.here /\ b.tun = "CLOSED" /\ b.page = "hidden" =>
        s.why \in {"guacd stopped reading", "remote session ended", "guacd disconnected"}

(* When the handler is through, guacd's connection is closed, and what it    *)
(* has not written down is what failed to be written, nothing else: the row  *)
(* is ended unless the UPDATE failed, and the end of a session that ran is   *)
(* audited unless auditDetached failed.  guacd is dialled only after the     *)
(* request was audited or the attempt failed: auditDetached returns nothing, *)
(* so the handler goes on and dials, and a session can run that the audit    *)
(* trail does not have.                                                      *)
HandlerLeavesNothing ==
    /\ g.conn # "none" => "requested" \in s.trail \cup s.lost
    /\ s.pc = "done" => /\ g.conn # "open"
                        /\ s.row = "open" => "row" \in s.lost
                        /\ s.why # "" => "ended" \in s.trail \cup s.lost

(* The row of a session says why it ended: the reason the first goroutine to *)
(* stop gave, not a later one (EndRACSession, Proxy).                        *)
FirstReasonRecorded ==
    s.row = "ended" /\ s.done # <<>> => s.reason = Head(s.done)

(* When either end is through with a session (the browser closed its tunnel, *)
(* gave up or was closed; the handler returned, or the engine died), all of  *)
(* it ends: the handler, guacd's connection, so that no desktop stays logged *)
(* in, the socket of a page that is still there, and both goroutines ("the   *)
(* other goroutine unblocks when its connection closes, which the caller's   *)
(* Close guarantees", Proxy).                                                *)
AllOfItEnds ==
    (b.sock = "closed" \/ Over) ~>
        /\ Over /\ g.conn # "open"
        /\ b.sock = "closed"
        /\ s.up = "stopped" /\ s.down = "stopped"
=============================================================================
