------------------------ MODULE RemoteSessionProofs ------------------------
(***************************************************************************)
(* A remote access session, whatever guacd sends, however much of it, and  *)
(* whatever the user does.                                                 *)
(*                                                                         *)
(* First the engine's half, for which the browser does not matter: what    *)
(* the handler has done when it is through, which reason is recorded, and  *)
(* that no goroutine is left waiting to give one.  Then the browser's: its *)
(* tunnel and its status line depend on what the engine sends and on the   *)
(* order in which it arrives, and a message is handled one instruction     *)
(* after the other, so that what a message does is shown by induction over *)
(* its length.                                                             *)
(***************************************************************************)
EXTENDS RemoteSession, WellFoundedInduction, TLAPS

(* The fields of the engine's and of guacd's state. *)
Fields ==
    /\ s = [pc |-> s.pc, row |-> s.row, reason |-> s.reason, why |-> s.why,
            lost |-> s.lost, trail |-> s.trail, up |-> s.up, down |-> s.down,
            done |-> s.done, cancelled |-> s.cancelled, ws |-> s.ws, out |-> s.out]
    /\ g = [conn |-> g.conn, alive |-> g.alive, buf |-> g.buf, sent |-> g.sent]

(* What the theorems are about: all but the WebSocket and its traffic. *)
core == <<s.pc, s.row, s.reason, s.why, s.lost, s.trail, s.up, s.down, s.done, g.conn>>

BeforeDial   == {"idle", "request", "dial"}
BeforeProxy  == BeforeDial \cup {"record", "accept", "hello"}
AfterRecord  == {"audit", "close", "release", "done"}
Places       == BeforeProxy \cup {"proxy", "end", "crashed"} \cup AfterRecord

Reasons == {"closed by the user", "client disconnected", "guacd stopped reading",
            "client stopped reading", "remote session ended", "guacd disconnected"}

(* The channel has room for every goroutine that has not reported. *)
Room ==
    /\ Len(s.done) <= 2
    /\ s.up # "stopped" \/ s.down # "stopped" => Len(s.done) <= 1
    /\ s.up # "stopped" /\ s.down # "stopped" => Len(s.done) = 0

(***************************************************************************)
(* Where the handler is says what it has done so far.  The goroutines run  *)
(* on after Proxy has returned, and may still report: the channel's first  *)
(* reason is the one that was taken, and if there was none (the browser    *)
(* was gone before they started) there is no goroutine.                    *)
(***************************************************************************)
Progress ==
    /\ s.pc \in Places /\ s.done \in Seq(Reasons) /\ g.conn \in {"none", "open", "closed"}
    \* guacd is dialled after the request is audited, and hung up on at the end
    /\ s.pc \in BeforeDial => g.conn = "none"
    /\ s.pc \in {"done", "crashed"} => g.conn # "open"
    /\ s.pc \notin {"idle", "request", "done", "crashed"} \/ g.conn # "none"
          => "requested" \in s.trail \cup s.lost
    \* the row
    /\ s.pc \in BeforeDial \cup {"record"} => s.row = "none"
    /\ s.row = "ended" => s.pc \in AfterRecord \cup {"crashed"}
    /\ s.pc \in AfterRecord => (s.row = "open" => "row" \in s.lost)
    \* the reason
    /\ s.pc \in BeforeProxy \cup {"proxy"} => s.why = ""
    /\ s.pc \in {"close", "release", "done"} => (s.why # "" => "ended" \in s.trail \cup s.lost)
    /\ s.pc \in BeforeProxy => s.done = <<>>
    /\ s.pc # "proxy" /\ s.done = <<>> => s.up = "stopped" /\ s.down = "stopped"
    /\ s.pc = "end" /\ s.done # <<>> => s.why = Head(s.done)
    /\ FirstReasonRecorded
    /\ Room

EngineInv == Fields /\ Progress

-----------------------------------------------------------------------------
LEMMA EngineStarts == Init => EngineInv
<1> SUFFICES ASSUME Init PROVE EngineInv
  OBVIOUS
<1>1. Fields
  BY DEF Init, Fields
<1>2. /\ s.pc = "idle" /\ s.row = "none" /\ s.why = "" /\ s.up = "stopped"
      /\ s.down = "stopped" /\ s.done = <<>> /\ g.conn = "none"
  BY DEF Init
<1>3. Room /\ s.done \in Seq(Reasons)
  <2>1. Len(<<>>) = 0 /\ <<>> \in Seq(Reasons)
    OBVIOUS
  <2>2. Len(s.done) = 0
    BY <1>2, <2>1, Zenon
  <2> QED
    <3>1. Room
      <4>1. 0 <= 2
        OBVIOUS
      <4> QED
        BY <1>2, <2>2, <4>1, Zenon DEF Room
    <3> QED
      BY <1>2, <2>1, <3>1, Zenon
<1>4. Progress
  BY <1>2, <1>3 DEF Progress, Places, BeforeProxy, BeforeDial, AfterRecord,
                    FirstReasonRecorded
<1> QED
  BY <1>1, <1>4 DEF EngineInv

(* What the browser, the network and guacd do by themselves. *)
Outside ==
    \/ Delivery \/ PingFires \/ UnstableFires \/ ReceiveFires \/ KeepAliveFires
    \/ Input \/ Click \/ PageHide
    \/ (\E burst \in Bursts : GuacdSends(burst))
    \/ GuacdEnds \/ NetworkLost

LEMMA OutsideKeepsCore ==
  ASSUME Fields, Outside
  PROVE  Fields' /\ UNCHANGED core
<1> USE DEF Fields
<1>1. ASSUME NEW out, s' = [s EXCEPT !.out = out], UNCHANGED g
      PROVE  Fields' /\ UNCHANGED core
  BY <1>1 DEF core
<1>2. CASE UNCHANGED <<s, g>>
  BY <1>2 DEF core
<1>3. CASE SocketOpens
  BY <1>1, <1>3 DEF SocketOpens
<1>4. CASE SocketMessage
  <2>1. s' = [s EXCEPT !.out = Undelivered(b', Tail(s.out))] /\ UNCHANGED g
    BY <1>4, Zenon DEF SocketMessage
  <2> QED
    BY <1>1, <2>1
<1>5. CASE SocketClosed
  BY <1>1, <1>5 DEF SocketClosed
<1>6. CASE ReceiveFires
  BY <1>1, <1>6 DEF ReceiveFires
<1>7. CASE Click
  BY <1>1, <1>7 DEF Click
<1>8. CASE PageHide
  BY <1>1, <1>8 DEF PageHide
<1>9. CASE PingFires \/ UnstableFires \/ KeepAliveFires \/ Input
  BY <1>2, <1>9 DEF PingFires, UnstableFires, KeepAliveFires, Input
<1>10. ASSUME NEW burst \in Bursts, GuacdSends(burst)
       PROVE  Fields' /\ UNCHANGED core
  BY <1>10 DEF GuacdSends, core
<1>11. CASE GuacdEnds
  BY <1>11 DEF GuacdEnds, core
<1>12. CASE NetworkLost
  BY <1>12 DEF NetworkLost, core
<1> QED
  BY <1>3, <1>4, <1>5, <1>6, <1>7, <1>8, <1>9, <1>10, <1>11, <1>12 DEF Outside, Delivery

(* Progress is about these fields only. *)
LEMMA CoreKeepsProgress ==
  ASSUME Progress, UNCHANGED core
  PROVE  Progress'
<1>1. /\ s'.pc = s.pc /\ s'.row = s.row /\ s'.reason = s.reason /\ s'.why = s.why
      /\ s'.lost = s.lost /\ s'.trail = s.trail /\ s'.up = s.up /\ s'.down = s.down
      /\ s'.done = s.done /\ g'.conn = g.conn
  BY DEF core
<1>2. Room'
  BY <1>1, Zenon DEF Progress, Room
<1>3. FirstReasonRecorded'
  BY <1>1, Zenon DEF Progress, FirstReasonRecorded
<1> QED
  BY <1>1, <1>2, <1>3, Zenon DEF Progress

-----------------------------------------------------------------------------
(* The handler *)

(* EndRACSession writes the row or loses the write, and changes nothing else. *)
LEMMA EndRecords ==
  ASSUME Fields, NEW reason, NEW t \in EndRACSession(s, reason)
  PROVE  /\ t = [pc |-> t.pc, row |-> t.row, reason |-> t.reason, why |-> t.why,
                 lost |-> t.lost, trail |-> t.trail, up |-> t.up, down |-> t.down,
                 done |-> t.done, cancelled |-> t.cancelled, ws |-> t.ws, out |-> t.out]
         /\ t.why = s.why /\ t.trail = s.trail /\ t.up = s.up /\ t.down = s.down
         /\ t.done = s.done /\ t.cancelled = s.cancelled /\ t.ws = s.ws /\ t.out = s.out
         /\ t.row = "open" => "row" \in t.lost
         /\ s.lost \subseteq t.lost
         /\ \/ s.row # "open" /\ t.row = s.row /\ t.reason = s.reason
            \/ s.row = "open" /\ t.row = "open"
            \/ s.row = "open" /\ t.row = "ended" /\ t.reason = reason
BY DEF Fields, EndRACSession, Fails

(* auditDetached writes the event or loses the write. *)
LEMMA AuditRecords ==
  ASSUME Fields, NEW event, NEW t \in auditDetached(s, event)
  PROVE  /\ t = [pc |-> t.pc, row |-> t.row, reason |-> t.reason, why |-> t.why,
                 lost |-> t.lost, trail |-> t.trail, up |-> t.up, down |-> t.down,
                 done |-> t.done, cancelled |-> t.cancelled, ws |-> t.ws, out |-> t.out]
         /\ t.row = s.row /\ t.reason = s.reason
         /\ t.why = s.why /\ t.up = s.up /\ t.down = s.down
         /\ t.done = s.done /\ t.cancelled = s.cancelled /\ t.ws = s.ws /\ t.out = s.out
         /\ s.lost \subseteq t.lost /\ s.trail \subseteq t.trail
         /\ event \in t.trail \cup t.lost
BY DEF Fields, auditDetached, Fails

(* StartRACSession makes the row, or loses it. *)
LEMMA StartRecords ==
  ASSUME Fields, NEW t \in {[s EXCEPT !.row = "open"]} \cup Fails(s, "start")
  PROVE  /\ t = [pc |-> t.pc, row |-> t.row, reason |-> t.reason, why |-> t.why,
                 lost |-> t.lost, trail |-> t.trail, up |-> t.up, down |-> t.down,
                 done |-> t.done, cancelled |-> t.cancelled, ws |-> t.ws, out |-> t.out]
         /\ t.row \in {"open", s.row} /\ t.reason = s.reason
         /\ t.why = s.why /\ t.trail = s.trail /\ t.up = s.up /\ t.down = s.down
         /\ t.done = s.done /\ t.cancelled = s.cancelled /\ t.ws = s.ws /\ t.out = s.out
         /\ s.lost \subseteq t.lost
BY DEF Fields, Fails

LEMMA Released ==
  ASSUME NEW t, NEW out, NEW u, u = [t EXCEPT !.pc = "release", !.out = out],
         t = [pc |-> t.pc, row |-> t.row, reason |-> t.reason, why |-> t.why,
              lost |-> t.lost, trail |-> t.trail, up |-> t.up, down |-> t.down,
              done |-> t.done, cancelled |-> t.cancelled, ws |-> t.ws, out |-> t.out]
  PROVE  u = [pc |-> "release", row |-> t.row, reason |-> t.reason, why |-> t.why,
              lost |-> t.lost, trail |-> t.trail, up |-> t.up, down |-> t.down,
              done |-> t.done, cancelled |-> t.cancelled, ws |-> t.ws, out |-> out]
OBVIOUS

LEMMA HandlerStep ==
  ASSUME EngineInv, PageLoad \/ Handler
  PROVE  EngineInv'
<1> USE DEF EngineInv, Places, BeforeProxy, BeforeDial, AfterRecord
<1>1. CASE PageLoad
  <2>1. /\ s.pc = "idle"
        /\ s' = [s EXCEPT !.pc = "request"] /\ g' = g
    BY <1>1 DEF PageLoad
  <2>2. /\ Fields' /\ g'.conn = g.conn
        /\ s'.pc = "request" /\ s'.row = s.row /\ s'.reason = s.reason
        /\ s'.why = s.why /\ s'.lost = s.lost /\ s'.trail = s.trail
        /\ s'.up = s.up /\ s'.down = s.down /\ s'.done = s.done
    BY <2>1 DEF Fields
  <2> QED
    BY <2>1, <2>2 DEF Progress, FirstReasonRecorded, Room
<1>2. CASE Refuse
  <2>1. /\ s.pc = "request"
        /\ s' = [s EXCEPT !.pc = "done", !.out = Undelivered(b, <<<<"refused">>>>)] /\ g' = g
    BY <1>2 DEF Refuse, At
  <2>2. /\ Fields' /\ g'.conn = g.conn
        /\ s'.pc = "done" /\ s'.row = s.row /\ s'.reason = s.reason
        /\ s'.why = s.why /\ s'.lost = s.lost /\ s'.trail = s.trail
        /\ s'.up = s.up /\ s'.down = s.down /\ s'.done = s.done
    BY <2>1 DEF Fields
  <2> QED
    BY <2>1, <2>2 DEF Progress, FirstReasonRecorded, Room
<1>3. CASE Admit
  <2>1. PICK t \in auditDetached(s, "requested") : s' = [t EXCEPT !.pc = "dial"]
    BY <1>3 DEF Admit
  <2>2. s.pc = "request" /\ g' = g
    BY <1>3 DEF Admit, At
  <2>3. /\ Fields' /\ g'.conn = g.conn
        /\ s'.pc = "dial" /\ s'.row = s.row /\ s'.reason = s.reason
        /\ s'.why = s.why /\ s'.lost = t.lost /\ s'.trail = t.trail
        /\ s'.up = s.up /\ s'.down = s.down /\ s'.done = s.done
    BY <2>1, <2>2, AuditRecords DEF Fields
  <2>4. "requested" \in s'.trail \cup s'.lost
    BY <2>1, <2>3, AuditRecords
  <2> QED
    BY <2>2, <2>3, <2>4 DEF Progress, FirstReasonRecorded, Room
<1>4. CASE Dial
  <2>1. s.pc = "dial"
    BY <1>4 DEF Dial, At
  <2>2. ASSUME g' = [g EXCEPT !.conn = "open", !.alive = TRUE], s' = [s EXCEPT !.pc = "record"]
        PROVE  EngineInv'
    <3>1. /\ Fields' /\ g'.conn = "open"
          /\ s'.pc = "record" /\ s'.row = s.row /\ s'.reason = s.reason
          /\ s'.why = s.why /\ s'.lost = s.lost /\ s'.trail = s.trail
          /\ s'.up = s.up /\ s'.down = s.down /\ s'.done = s.done
      BY <2>2 DEF Fields
    <3> QED
      BY <2>1, <3>1 DEF Progress, FirstReasonRecorded, Room
  <2>3. ASSUME s' = [s EXCEPT !.pc = "done", !.out = Undelivered(b, <<<<"refused">>>>)], g' = g
        PROVE  EngineInv'
    <3>1. /\ Fields' /\ g'.conn = g.conn
          /\ s'.pc = "done" /\ s'.row = s.row /\ s'.reason = s.reason
          /\ s'.why = s.why /\ s'.lost = s.lost /\ s'.trail = s.trail
          /\ s'.up = s.up /\ s'.down = s.down /\ s'.done = s.done
      BY <2>3 DEF Fields
    <3> QED
      BY <2>1, <3>1 DEF Progress, FirstReasonRecorded, Room
  <2> QED
    BY <1>4, <2>2, <2>3 DEF Dial
<1>5. CASE StartRACSession
  <2>1. PICK t \in {[s EXCEPT !.row = "open"]} \cup Fails(s, "start") :
           s' = [t EXCEPT !.pc = "accept"]
    BY <1>5 DEF StartRACSession
  <2>2. s.pc = "record" /\ g' = g
    BY <1>5 DEF StartRACSession, At
  <2>3. /\ Fields' /\ g'.conn = g.conn
        /\ s'.pc = "accept" /\ s'.row \in {"open", s.row} /\ s'.reason = s.reason
        /\ s'.why = s.why /\ s.lost \subseteq s'.lost /\ s'.trail = s.trail
        /\ s'.up = s.up /\ s'.down = s.down /\ s'.done = s.done
    BY <2>1, <2>2, StartRecords DEF Fields
  <2> QED
    BY <2>2, <2>3 DEF Progress, FirstReasonRecorded, Room
<1>6. CASE Accept
  <2>1. s.pc = "accept" /\ g' = g
    BY <1>6 DEF Accept, At
  <2>2. ASSUME s' = [s EXCEPT !.pc = "hello", !.ws = "open", !.out = Undelivered(b, <<<<"open">>>>)]
        PROVE  EngineInv'
    <3>1. /\ Fields' /\ g'.conn = g.conn
          /\ s'.pc = "hello" /\ s'.row = s.row /\ s'.reason = s.reason
          /\ s'.why = s.why /\ s'.lost = s.lost /\ s'.trail = s.trail
          /\ s'.up = s.up /\ s'.down = s.down /\ s'.done = s.done
      BY <2>1, <2>2 DEF Fields
    <3> QED
      BY <2>1, <3>1 DEF Progress, FirstReasonRecorded, Room
  <2>3. ASSUME NEW t \in EndRACSession(s, "upgrade failed"),
               s' = [t EXCEPT !.pc = "release", !.out = Undelivered(b, <<<<"refused">>>>)]
        PROVE  EngineInv'
    <3>1. /\ Fields' /\ g'.conn = g.conn /\ s'.pc = "release"
          /\ s'.row = t.row /\ s'.reason = t.reason /\ s'.lost = t.lost
          /\ s'.why = s.why /\ s'.trail = s.trail /\ s'.up = s.up /\ s'.down = s.down
          /\ s'.done = s.done
      <4> DEFINE out == Undelivered(b, <<<<"refused">>>>)
      <4>1. s' = [t EXCEPT !.pc = "release", !.out = out]
        BY <2>3
      <4> HIDE DEF out
      <4>2. /\ t.why = s.why /\ t.trail = s.trail /\ t.up = s.up /\ t.down = s.down
            /\ t.done = s.done
            /\ t = [pc |-> t.pc, row |-> t.row, reason |-> t.reason, why |-> t.why,
                    lost |-> t.lost, trail |-> t.trail, up |-> t.up, down |-> t.down,
                    done |-> t.done, cancelled |-> t.cancelled, ws |-> t.ws, out |-> t.out]
        BY <2>3, EndRecords
      <4>3. s' = [pc |-> "release", row |-> t.row, reason |-> t.reason, why |-> t.why,
                  lost |-> t.lost, trail |-> t.trail, up |-> t.up, down |-> t.down,
                  done |-> t.done, cancelled |-> t.cancelled, ws |-> t.ws, out |-> out]
        BY <4>1, <4>2, Released, Zenon
      <4>4. g' = [conn |-> g'.conn, alive |-> g'.alive, buf |-> g'.buf, sent |-> g'.sent]
        BY <2>1 DEF Fields
      <4> QED
        BY <2>1, <4>2, <4>4, <4>3 DEF Fields
    <3>2. /\ t.row = "open" => "row" \in t.lost
          /\ s.lost \subseteq t.lost
      BY <2>3, EndRecords
    <3>3. s.pc = "accept" /\ s.done = <<>> /\ s.why = ""
      BY <2>1 DEF Progress
    <3>4. Room'
      BY <3>1 DEF Progress, Room
    <3>5. FirstReasonRecorded'
      BY <3>1, <3>3 DEF FirstReasonRecorded
    <3>6. "requested" \in s'.trail \cup s'.lost
      BY <3>1, <3>2, <3>3 DEF Progress
    <3> QED
      BY <3>1, <3>2, <3>3, <3>4, <3>5, <3>6 DEF Progress
  <2> QED
    BY <1>6, <2>2, <2>3 DEF Accept
<1>7. CASE Hello
  <2>1. s.pc = "hello" /\ g' = g
    BY <1>7 DEF Hello, At
  <2>2. ASSUME s' = [s EXCEPT !.pc = "proxy", !.out = Undelivered(b, Append(@, <<"id">>)),
                              !.up = "reading", !.down = "reading"]
        PROVE  EngineInv'
    <3>1. /\ Fields' /\ g'.conn = g.conn
          /\ s'.pc = "proxy" /\ s'.row = s.row /\ s'.reason = s.reason
          /\ s'.why = s.why /\ s'.lost = s.lost /\ s'.trail = s.trail
          /\ s'.up = "reading" /\ s'.down = "reading" /\ s'.done = s.done
      BY <2>1, <2>2 DEF Fields
    <3>2. s'.done = <<>> /\ Len(<<>>) = 0
      BY <2>1, <3>1 DEF Progress
    <3>3. Room'
      BY <3>1, <3>2 DEF Room
    <3> QED
      BY <2>1, <3>1, <3>3 DEF Progress, FirstReasonRecorded
  <2>3. ASSUME s' = [s EXCEPT !.pc = "end", !.cancelled = TRUE,
                              !.why = "client went away before the session started"]
        PROVE  EngineInv'
    <3>1. /\ Fields' /\ g'.conn = g.conn
          /\ s'.pc = "end" /\ s'.row = s.row /\ s'.reason = s.reason
          /\ s'.why = "client went away before the session started"
          /\ s'.lost = s.lost /\ s'.trail = s.trail /\ s'.up = s.up
          /\ s'.down = s.down /\ s'.done = s.done
      BY <2>1, <2>3 DEF Fields
    <3> QED
      BY <2>1, <3>1 DEF Progress, FirstReasonRecorded, Room
  <2> QED
    BY <1>7, <2>2, <2>3 DEF Hello
<1>8. CASE Returned
  <2> DEFINE torn == s.up = "reading" /\ s.ws = "open"
             ws == IF torn THEN "broken" ELSE s.ws
             out == IF torn THEN Undelivered(b, Append(s.out, <<"abort">>)) ELSE s.out
  <2>1. /\ s.pc = "proxy" /\ s.done # <<>> /\ g' = g
        /\ s' = [s EXCEPT !.pc = "end", !.cancelled = TRUE, !.why = Head(s.done),
                          !.ws = ws, !.out = out]
    BY <1>8 DEF Returned, At
  <2> HIDE DEF ws, out
  <2>2. /\ Fields' /\ g'.conn = g.conn
        /\ s'.pc = "end" /\ s'.row = s.row /\ s'.reason = s.reason
        /\ s'.why = Head(s.done) /\ s'.lost = s.lost /\ s'.trail = s.trail
        /\ s'.up = s.up /\ s'.down = s.down /\ s'.done = s.done
    BY <2>1 DEF Fields
  <2> QED
    BY <2>1, <2>2 DEF Progress, FirstReasonRecorded, Room
<1>9. CASE EndRecord
  <2>1. PICK t \in EndRACSession(s, s.why) : s' = [t EXCEPT !.pc = "audit"]
    BY <1>9 DEF EndRecord
  <2>2. s.pc = "end" /\ g' = g
    BY <1>9 DEF EndRecord, At
  <2>3. /\ Fields' /\ g'.conn = g.conn /\ s'.pc = "audit"
        /\ s'.row = t.row /\ s'.reason = t.reason /\ s'.lost = t.lost
        /\ s'.why = s.why /\ s'.trail = s.trail /\ s'.up = s.up /\ s'.down = s.down
        /\ s'.done = s.done
    BY <2>1, <2>2, EndRecords DEF Fields
  <2> QED
    BY <2>2, <2>3, EndRecords DEF Progress, FirstReasonRecorded, Room
<1>10. CASE AuditEnd
  <2>1. PICK t \in auditDetached(s, "ended") : s' = [t EXCEPT !.pc = "close"]
    BY <1>10 DEF AuditEnd
  <2>2. s.pc = "audit" /\ g' = g
    BY <1>10 DEF AuditEnd, At
  <2>3. /\ Fields' /\ g'.conn = g.conn
        /\ s'.pc = "close" /\ s'.row = s.row /\ s'.reason = s.reason
        /\ s'.why = s.why /\ s'.lost = t.lost /\ s'.trail = t.trail
        /\ s'.up = s.up /\ s'.down = s.down /\ s'.done = s.done
    BY <2>1, <2>2, AuditRecords DEF Fields
  <2>4. /\ "ended" \in s'.trail \cup s'.lost
        /\ s.lost \subseteq s'.lost /\ s.trail \subseteq s'.trail
    BY <2>1, <2>3, AuditRecords
  <2> QED
    BY <2>2, <2>3, <2>4 DEF Progress, FirstReasonRecorded, Room
<1>11. CASE CloseWebSocket
  <2> DEFINE out == IF s.ws = "open" THEN Undelivered(b, Append(s.out, <<"1000">>)) ELSE s.out
  <2>1. /\ s.pc = "close" /\ g' = g
        /\ s' = [s EXCEPT !.pc = "release", !.ws = "broken", !.out = out]
    BY <1>11 DEF CloseWebSocket, At
  <2> HIDE DEF out
  <2>2. /\ Fields' /\ g'.conn = g.conn
        /\ s'.pc = "release" /\ s'.row = s.row /\ s'.reason = s.reason
        /\ s'.why = s.why /\ s'.lost = s.lost /\ s'.trail = s.trail
        /\ s'.up = s.up /\ s'.down = s.down /\ s'.done = s.done
    BY <2>1 DEF Fields
  <2> QED
    BY <2>1, <2>2 DEF Progress, FirstReasonRecorded, Room
<1>12. CASE Release
  <2>1. /\ s.pc = "release"
        /\ s' = [s EXCEPT !.pc = "done"] /\ g' = [g EXCEPT !.conn = "closed", !.alive = FALSE]
    BY <1>12 DEF Release, At
  <2>2. /\ Fields' /\ g'.conn = "closed"
        /\ s'.pc = "done" /\ s'.row = s.row /\ s'.reason = s.reason
        /\ s'.why = s.why /\ s'.lost = s.lost /\ s'.trail = s.trail
        /\ s'.up = s.up /\ s'.down = s.down /\ s'.done = s.done
    BY <2>1 DEF Fields
  <2> QED
    BY <2>1, <2>2 DEF Progress, FirstReasonRecorded, Room
<1> QED
  BY <1>1, <1>2, <1>3, <1>4, <1>5, <1>6, <1>7, <1>8, <1>9, <1>10, <1>11, <1>12
     DEF Handler

-----------------------------------------------------------------------------
(* The goroutines.  Each reports as it stops, and reads nothing after that.  *)

(* A reason is added to the channel by a goroutine that was running. *)
LEMMA ReportStep ==
  ASSUME EngineInv, Fields', NEW why \in Reasons, g'.conn = g.conn,
         s'.pc = s.pc, s'.row = s.row, s'.reason = s.reason, s'.why = s.why,
         s'.lost = s.lost, s'.trail = s.trail, s'.done = Append(s.done, why),
         \/ s.up # "stopped" /\ s'.up = "stopped" /\ s'.down = s.down
         \/ s.down # "stopped" /\ s'.down = "stopped" /\ s'.up = s.up
  PROVE  EngineInv'
<1> USE DEF EngineInv, Places, BeforeProxy, BeforeDial, AfterRecord
<1>1. s.done \in Seq(Reasons) /\ Room
  BY Zenon DEF Progress
<1>2. /\ s'.done \in Seq(Reasons) /\ s'.done # <<>> /\ Len(s'.done) = Len(s.done) + 1
      /\ s.done # <<>> => Head(s'.done) = Head(s.done)
  <2>1. \A q \in Seq(Reasons) :
          /\ Append(q, why) \in Seq(Reasons) /\ Append(q, why) # <<>>
          /\ Len(Append(q, why)) = Len(q) + 1
          /\ q # <<>> => Head(Append(q, why)) = Head(q)
    OBVIOUS
  <2> QED
    BY <1>1, <2>1, Zenon
<1>3. s.done = <<>> => s.pc = "proxy"
  BY DEF Progress
<1>4. Room'
  <2>1. Len(s.done) \in Nat
    BY <1>1
  <2> QED
    BY <1>1, <1>2, <2>1 DEF Room
<1>5. FirstReasonRecorded'
  <2>1. s.row = "ended" => s.done # <<>> /\ s.reason = Head(s.done)
    BY <1>3 DEF Progress, FirstReasonRecorded
  <2> QED
    BY <1>2, <2>1 DEF FirstReasonRecorded
<1>6. s.pc \notin BeforeProxy
  BY <1>3 DEF Progress
<1> QED
  BY <1>2, <1>3, <1>4, <1>5, <1>6, Zenon DEF Progress

LEMMA GoroutineStep ==
  ASSUME EngineInv, Up \/ Down
  PROVE  EngineInv'
<1>1. ASSUME NEW why \in Reasons, NEW ws, g' = g, s.up # "stopped",
             s' = [s EXCEPT !.up = "stopped", !.ws = ws, !.done = Append(s.done, why)]
      PROVE  EngineInv'
  <2>1. /\ Fields' /\ g'.conn = g.conn /\ s'.pc = s.pc /\ s'.row = s.row
        /\ s'.reason = s.reason /\ s'.why = s.why /\ s'.lost = s.lost
        /\ s'.trail = s.trail /\ s'.done = Append(s.done, why)
        /\ s'.up = "stopped" /\ s'.down = s.down
    BY <1>1 DEF EngineInv, Fields
  <2> QED
    BY <1>1, <2>1, ReportStep
<1>2. ASSUME NEW why \in Reasons, Fields', g'.conn = g.conn, s.down # "stopped",
             s' = [s EXCEPT !.down = "stopped", !.done = Append(@, why)]
      PROVE  EngineInv'
  <2>1. /\ s'.pc = s.pc /\ s'.row = s.row
        /\ s'.reason = s.reason /\ s'.why = s.why /\ s'.lost = s.lost
        /\ s'.trail = s.trail /\ s'.done = Append(s.done, why)
        /\ s'.down = "stopped" /\ s'.up = s.up
    BY <1>2 DEF EngineInv, Fields
  <2> QED
    BY <1>2, <2>1, ReportStep
(* Between reading and writing. *)
<1>3. ASSUME NEW m, g'.conn = g.conn, Fields', s.up # "stopped", s' = [s EXCEPT !.up = m]
      PROVE  EngineInv'
  <2>1. /\ s'.pc = s.pc /\ s'.row = s.row /\ s'.reason = s.reason /\ s'.why = s.why
        /\ s'.lost = s.lost /\ s'.trail = s.trail /\ s'.down = s.down
        /\ s'.done = s.done
    BY <1>3 DEF EngineInv, Fields
  <2>2. Room'
    BY <1>3, <2>1 DEF EngineInv, Progress, Room
  <2>3. FirstReasonRecorded'
    BY <2>1 DEF EngineInv, Progress, FirstReasonRecorded
  <2>4. s.done = <<>> => s.pc = "proxy"
    BY <1>3 DEF EngineInv, Progress
  <2> QED
    BY <1>3, <2>1, <2>2, <2>3, <2>4 DEF EngineInv, Progress
<1>4. CASE UpRead
  <2> DEFINE m == Head(b.out)
  <2>1. s.up = "reading" /\ g' = g
    BY <1>4 DEF UpRead
  <2>2. CASE m \in {"close", "abort"}
    <3> DEFINE why == reasonFor(CloseStatus(m), "client disconnected")
    <3>1. s' = [s EXCEPT !.up = "stopped", !.ws = "broken", !.done = Append(s.done, why)]
      BY <1>4, <2>2, Zenon DEF UpRead
    <3>2. why \in Reasons
      BY DEF reasonFor, Reasons
    <3> HIDE DEF why
    <3> QED
      BY <1>1, <2>1, <3>1, <3>2
  <2>3. CASE m \notin {"close", "abort"}
    <3>1. s' = [s EXCEPT !.up = m]
      BY <1>4, <2>3 DEF UpRead
    <3>2. Fields'
      BY <2>1, <3>1 DEF EngineInv, Fields
    <3> QED
      BY <1>3, <2>1, <3>1, <3>2
  <2> QED
    BY <2>2, <2>3
<1>5. CASE UpWrite
  <2>1. s.up # "stopped"
    BY <1>5 DEF UpWrite
  <2>2. ASSUME s' = [s EXCEPT !.up = "reading"],
               g' = [g EXCEPT !.alive = @ /\ s.up # "disconnect"]
        PROVE  EngineInv'
    <3>1. Fields' /\ g'.conn = g.conn
      BY <2>2 DEF EngineInv, Fields
    <3> QED
      BY <1>3, <2>1, <2>2, <3>1
  <2>3. ASSUME s' = [s EXCEPT !.up = "stopped", !.done = Append(@, "guacd stopped reading")],
               g' = g
        PROVE  EngineInv'
    <3>1. s' = [s EXCEPT !.up = "stopped", !.ws = s.ws,
                         !.done = Append(s.done, "guacd stopped reading")]
      BY <2>3 DEF EngineInv, Fields
    <3> QED
      BY <1>1, <2>1, <2>3, <3>1 DEF Reasons
  <2> QED
    BY <1>5, <2>2, <2>3 DEF UpWrite
<1>6. CASE UpCancelled
  <2>1. /\ s.up # "stopped" /\ g' = g
        /\ s' = [s EXCEPT !.up = "stopped", !.done = Append(@, "client disconnected")]
    BY <1>6 DEF UpCancelled
  <2>2. s' = [s EXCEPT !.up = "stopped", !.ws = s.ws,
                       !.done = Append(s.done, "client disconnected")]
    BY <2>1 DEF EngineInv, Fields
  <2> QED
    BY <1>1, <2>1, <2>2 DEF Reasons
<1>7. CASE DownCopy
  <2>1. PICK n \in 1..Len(g.buf) :
          /\ g' = [g EXCEPT !.buf = SubSeq(@, n + 1, Len(@))]
          /\ \/ s' = [s EXCEPT !.out = Undelivered(b, Append(@, SubSeq(g.buf, 1, n)))]
             \/ s' = [s EXCEPT !.down = "stopped",
                                !.done = Append(@, "client stopped reading")]
    BY <1>7 DEF DownCopy
  <2>2. s.down # "stopped"
    BY <1>7 DEF DownCopy
  <2>3. CASE s' = [s EXCEPT !.out = Undelivered(b, Append(@, SubSeq(g.buf, 1, n)))]
    <3>1. Fields' /\ UNCHANGED core
      BY <2>1, <2>3 DEF EngineInv, Fields, core
    <3> QED
      BY <3>1, CoreKeepsProgress DEF EngineInv
  <2>4. CASE s' = [s EXCEPT !.down = "stopped", !.done = Append(@, "client stopped reading")]
    <3>1. Fields' /\ g'.conn = g.conn
      BY <2>1, <2>4 DEF EngineInv, Fields
    <3> QED
      BY <1>2, <2>2, <2>4, <3>1 DEF Reasons
  <2> QED
    BY <2>1, <2>3, <2>4
<1>8. CASE DownEnds
  <2>1. PICK why \in {"remote session ended", "guacd disconnected"} :
          s' = [s EXCEPT !.down = "stopped", !.done = Append(@, why)]
    BY <1>8 DEF DownEnds
  <2>2. s.down # "stopped" /\ g' = g /\ why \in Reasons
    BY <1>8, <2>1 DEF DownEnds, Reasons
  <2>3. Fields'
    BY <2>1, <2>2 DEF EngineInv, Fields
  <2> QED
    BY <1>2, <2>1, <2>2, <2>3
<1> QED
  BY <1>4, <1>5, <1>6, <1>7, <1>8 DEF Up, Down

(* The process is gone, with its goroutines and its sockets. *)
LEMMA CrashStep ==
  ASSUME EngineInv, Crash
  PROVE  EngineInv'
<1> USE DEF EngineInv, Places, BeforeProxy, BeforeDial, AfterRecord
<1> DEFINE out == Undelivered(b, Append(s.out, <<"abort">>))
<1>1. /\ s.pc \notin {"idle", "done", "crashed"}
      /\ s' = [s EXCEPT !.pc = "crashed", !.ws = "broken", !.up = "stopped",
                        !.down = "stopped", !.out = out]
      /\ g' = IF g.conn = "none" THEN g ELSE [g EXCEPT !.conn = "closed", !.alive = FALSE]
  BY DEF Crash
<1> HIDE DEF out
<1>2. /\ Fields' /\ g'.conn \in {"none", "closed"}
      /\ g'.conn # "none" => g.conn # "none"
      /\ s'.pc = "crashed" /\ s'.row = s.row /\ s'.reason = s.reason
      /\ s'.why = s.why /\ s'.lost = s.lost /\ s'.trail = s.trail
      /\ s'.up = "stopped" /\ s'.down = "stopped" /\ s'.done = s.done
  BY <1>1 DEF Fields, Progress
<1>3. Room'
  BY <1>2 DEF Progress, Room
<1> QED
  BY <1>1, <1>2, <1>3 DEF Progress, FirstReasonRecorded

LEMMA EngineInvariant == Spec => []EngineInv
<1>1. EngineInv /\ [Next]_vars => EngineInv'
  <2> SUFFICES ASSUME EngineInv, [Next]_vars
               PROVE  EngineInv'
    OBVIOUS
  <2>1. CASE Outside
    BY <2>1, OutsideKeepsCore, CoreKeepsProgress DEF EngineInv
  <2>2. CASE UNCHANGED vars
    <3>1. Fields' /\ UNCHANGED core
      BY <2>2 DEF vars, core, EngineInv, Fields
    <3> QED
      BY <3>1, CoreKeepsProgress DEF EngineInv
  <2> QED
    BY <2>1, <2>2, HandlerStep, GoroutineStep, CrashStep DEF Next, Outside
<1> QED
  BY <1>1, EngineStarts, PTL DEF Spec

-----------------------------------------------------------------------------
(* When the handler is through, guacd's connection is closed, and the row's  *)
(* end and the two audit entries are written unless that very write failed,  *)
(* whichever of them fail (the deferred Close, EndRACSession and the calls   *)
(* of auditDetached in rac.go).                                              *)
THEOREM NothingLeft == Spec => []HandlerLeavesNothing
<1>1. EngineInv => HandlerLeavesNothing
  BY DEF EngineInv, Progress, HandlerLeavesNothing, AfterRecord
<1> QED
  BY <1>1, EngineInvariant, PTL

(* The reason in the row is the one the first goroutine to stop gave, though *)
(* the other one may report before the row is written (Proxy's channel).     *)
THEOREM FirstReasonCounts == Spec => []FirstReasonRecorded
<1>1. EngineInv => FirstReasonRecorded
  BY DEF EngineInv, Progress
<1> QED
  BY <1>1, EngineInvariant, PTL

(* The sum that ChannelHasRoom bounds, case by case *)
LEMMA RoomForAll == EngineInv => ChannelHasRoom
<1> SUFFICES ASSUME EngineInv PROVE ChannelHasRoom
  OBVIOUS
<1>1. s.done \in Seq(Reasons) /\ Room
  BY Zenon DEF EngineInv, Progress
<1>2. CASE s.up = "stopped" /\ s.down = "stopped"
  BY <1>1, <1>2 DEF Room, ChannelHasRoom
<1>3. CASE s.up # "stopped" /\ s.down = "stopped"
  BY <1>1, <1>3 DEF Room, ChannelHasRoom
<1>4. CASE s.up = "stopped" /\ s.down # "stopped"
  BY <1>1, <1>4 DEF Room, ChannelHasRoom
<1>5. CASE s.up # "stopped" /\ s.down # "stopped"
  BY <1>1, <1>5 DEF Room, ChannelHasRoom
<1> QED
  BY <1>2, <1>3, <1>4, <1>5

(* Neither goroutine ever waits to report: the channel has room for both     *)
(* (make(chan outcome, 2) in Proxy), although Proxy reads only one.          *)
THEOREM ReportsNeverWait == Spec => []ChannelHasRoom
BY RoomForAll, EngineInvariant, PTL

-----------------------------------------------------------------------------
(* The browser's half *)

Socks    == {"none", "connecting", "open", "closed"}
Pages    == {"connecting", "waiting", "hidden", "failed", "error", "disconnected"}
Timers   == {"receive", "unstable", "ping"}
Outgoing == {"input", "disconnect", "close", "abort"}

(* The fields of the browser's state. *)
IsTab(w) ==
    w = [sock |-> w.sock, tun |-> w.tun, uuid |-> w.uuid, timers |-> w.timers,
         cli |-> w.cli, keep |-> w.keep, page |-> w.page, here |-> w.here, out |-> w.out]

Tab(w) ==
    /\ IsTab(w)
    /\ w.sock \in Socks /\ w.tun \in TunnelStates /\ w.cli \in ClientStates
    /\ w.page \in Pages /\ w.timers \in SUBSET Timers /\ w.uuid \in BOOLEAN
    /\ w.out \in Seq(Outgoing)

(* The tunnel is closed with its socket and sets no timer after that, and the *)
(* client is not disconnected before.                                         *)
Sound(w) ==
    /\ w.tun = "CLOSED" <=> w.sock \in {"none", "closed"}
    /\ w.tun = "CLOSED" => w.timers = {}
    /\ w.cli = "DISCONNECTED" => w.tun = "CLOSED"

(* Only the outgoing messages and the keep-alive timer differ. *)
Posted(v, w) ==
    /\ Tab(v)
    /\ v.sock = w.sock /\ v.tun = w.tun /\ v.uuid = w.uuid /\ v.timers = w.timers
    /\ v.cli = w.cli /\ v.page = w.page /\ v.here = w.here

(* The queue towards the engine stays one of such messages. *)
LEMMA Outgoes ==
  ASSUME NEW q \in Seq(Outgoing), NEW m \in Outgoing
  PROVE  Append(q, m) \in Seq(Outgoing) /\ (q # <<>> => Tail(q) \in Seq(Outgoing))
OBVIOUS

(* One field is set: the others keep their values.  Two fields at a time are  *)
(* better written out, which the lemmas after these do.                       *)
LEMMA OutSet ==
  ASSUME NEW w, Tab(w), NEW q \in Seq(Outgoing), NEW v, v = [w EXCEPT !.out = q]
  PROVE  Posted(v, w) /\ v.out = q
BY DEF Posted, Tab, IsTab

LEMMA KeepSet ==
  ASSUME NEW w, Tab(w), NEW k, NEW v, v = [w EXCEPT !.keep = k]
  PROVE  Posted(v, w) /\ v.out = w.out
BY DEF Posted, Tab, IsTab

LEMMA TimersSet ==
  ASSUME NEW w, Tab(w), NEW timers \in SUBSET Timers, NEW v, v = [w EXCEPT !.timers = timers]
  PROVE  /\ Tab(v) /\ v.timers = timers /\ v.sock = w.sock /\ v.tun = w.tun
         /\ v.uuid = w.uuid /\ v.cli = w.cli /\ v.page = w.page /\ v.here = w.here
BY DEF Tab, IsTab

LEMMA TunnelIs ==
  ASSUME NEW w, Tab(w), NEW tun, NEW timers,
         NEW v, v = [w EXCEPT !.tun = tun, !.timers = timers]
  PROVE  v = [sock |-> w.sock, tun |-> tun, uuid |-> w.uuid, timers |-> timers,
              cli |-> w.cli, keep |-> w.keep, page |-> w.page, here |-> w.here, out |-> w.out]
BY DEF Tab, IsTab

LEMMA TunnelPageIs ==
  ASSUME NEW w, Tab(w), NEW tun, NEW page,
         NEW v, v = [w EXCEPT !.tun = tun, !.page = page]
  PROVE  v = [sock |-> w.sock, tun |-> tun, uuid |-> w.uuid, timers |-> w.timers,
              cli |-> w.cli, keep |-> w.keep, page |-> page, here |-> w.here, out |-> w.out]
BY DEF Tab, IsTab

LEMMA ClientPageIs ==
  ASSUME NEW w, Tab(w), NEW cli, NEW page,
         NEW v, v = [w EXCEPT !.cli = cli, !.page = page]
  PROVE  v = [sock |-> w.sock, tun |-> w.tun, uuid |-> w.uuid, timers |-> w.timers,
              cli |-> cli, keep |-> w.keep, page |-> page, here |-> w.here, out |-> w.out]
BY DEF Tab, IsTab

LEMMA NamedIs ==
  ASSUME NEW w, Tab(w), NEW uuid, NEW tun,
         NEW v, v = [w EXCEPT !.uuid = uuid, !.tun = tun]
  PROVE  v = [sock |-> w.sock, tun |-> tun, uuid |-> uuid, timers |-> w.timers,
              cli |-> w.cli, keep |-> w.keep, page |-> w.page, here |-> w.here, out |-> w.out]
BY DEF Tab, IsTab

LEMMA SocketIs ==
  ASSUME NEW w, Tab(w), NEW tun, NEW sock,
         NEW v, v = [w EXCEPT !.tun = tun, !.sock = sock]
  PROVE  v = [sock |-> sock, tun |-> tun, uuid |-> w.uuid, timers |-> w.timers,
              cli |-> w.cli, keep |-> w.keep, page |-> w.page, here |-> w.here, out |-> w.out]
BY DEF Tab, IsTab

(* sendMessage, and the two timers' handlers that use it *)
LEMMA Sends ==
  ASSUME NEW w, Tab(w), NEW m \in {"input", "disconnect"}
  PROVE  Posted(SendMessage(w, m), w)
<1>1. Append(w.out, m) \in Seq(Outgoing)
  BY Outgoes DEF Tab, Outgoing
<1>2. Posted(w, w)
  BY DEF Posted
<1>3. Posted([w EXCEPT !.out = Append(w.out, m)], w)
  BY <1>1, OutSet
<1> QED
  BY <1>2, <1>3 DEF SendMessage

LEMMA Keeps ==
  ASSUME NEW w, Tab(w), NEW now
  PROVE  Posted(ScheduleKeepAlive(w, now), w)
<1>1. ASSUME NEW k PROVE Posted([w EXCEPT !.keep = k], w)
  BY KeepSet
<1> DEFINE v == [w EXCEPT !.keep = FALSE]
<1>2. Posted(v, w)
  BY <1>1
<1> HIDE DEF v
<1>3. Posted(SendMessage(v, "input"), w)
  <2>1. Posted(SendMessage(v, "input"), v)
    BY <1>2, Sends DEF Posted
  <2> QED
    BY <1>2, <2>1 DEF Posted
<1> QED
  BY <1>1, <1>3 DEF ScheduleKeepAlive, SendKeepAlive, v

(* resetTimers opens no closed tunnel. *)
LEMMA Resets ==
  ASSUME NEW w, Tab(w), NEW now \in BOOLEAN, NEW v, v = ResetTimers(w, now)
  PROVE  /\ Tab(v) /\ v.sock = w.sock /\ v.uuid = w.uuid /\ v.cli = w.cli
         /\ v.page = w.page /\ v.here = w.here
         /\ v.tun = "CLOSED" <=> w.tun = "CLOSED"
<1> DEFINE tun == IF w.tun = "UNSTABLE" THEN "OPEN" ELSE w.tun
           timers == {"receive", "unstable"} \cup IF now THEN {} ELSE {"ping"}
           t == [w EXCEPT !.tun = tun, !.timers = timers]
<1>1. tun \in TunnelStates /\ timers \in SUBSET Timers /\ (tun = "CLOSED" <=> w.tun = "CLOSED")
  BY DEF Tab, TunnelStates, Timers
<1>2. v = IF now THEN SendMessage(t, "input") ELSE t
  BY DEF ResetTimers, SendPing
<1> HIDE DEF tun, timers
<1>3. /\ Tab(t) /\ t.sock = w.sock /\ t.uuid = w.uuid /\ t.cli = w.cli
      /\ t.page = w.page /\ t.here = w.here /\ t.tun = tun
  <2>1. t = [sock |-> w.sock, tun |-> tun, uuid |-> w.uuid, timers |-> timers,
             cli |-> w.cli, keep |-> w.keep, page |-> w.page, here |-> w.here, out |-> w.out]
    BY TunnelIs, Zenon
  <2> HIDE DEF t
  <2> QED
    BY <1>1, <2>1 DEF Tab, IsTab
<1> HIDE DEF t
<1>4. Posted(SendMessage(t, "input"), t)
  BY <1>3, Sends
<1> QED
  BY <1>1, <1>2, <1>3, <1>4 DEF Posted

(* WebSocket.close *)
LEMMA SocketCloses ==
  ASSUME NEW w, Tab(w), NEW v, v = CloseSocket(w)
  PROVE  /\ Tab(v) /\ v.sock = "closed" /\ v.tun = w.tun /\ v.uuid = w.uuid
         /\ v.timers = w.timers /\ v.cli = w.cli /\ v.page = w.page /\ v.here = w.here
<1> DEFINE out == CASE w.sock = "open" -> Append(w.out, "close")
                    [] w.sock = "connecting" -> Append(w.out, "abort")
                    [] OTHER -> w.out
<1>1. out \in Seq(Outgoing)
  BY Outgoes DEF Tab, Outgoing
<1>2. v = [w EXCEPT !.sock = "closed", !.out = out]
  BY DEF CloseSocket
<1> HIDE DEF out
<1> QED
  BY <1>1, <1>2 DEF Tab, IsTab, Socks

(* close_tunnel closes the socket with the tunnel; an end that is not regular   *)
(* is shown.                                                                 *)
LEMMA TunnelCloses ==
  ASSUME NEW w, Tab(w), NEW status, NEW v, v = CloseTunnel(w, status)
  PROVE  /\ Tab(v) /\ v.tun = "CLOSED" /\ v.timers = {} /\ v.uuid = w.uuid
         /\ v.cli = w.cli /\ v.here = w.here
         /\ w.tun = "CLOSED" => v.sock = w.sock /\ v.page = w.page
         /\ w.tun # "CLOSED" => /\ v.sock = "closed"
                                /\ v.page = IF status = "SUCCESS" THEN w.page ELSE "failed"
<1> DEFINE t == [w EXCEPT !.timers = {}]
           page == IF status = "SUCCESS" THEN w.page ELSE "failed"
           x == [t EXCEPT !.tun = "CLOSED", !.page = page]
<1>1. /\ Tab(t) /\ t.timers = {} /\ t.sock = w.sock /\ t.tun = w.tun /\ t.uuid = w.uuid
      /\ t.cli = w.cli /\ t.page = w.page /\ t.here = w.here
  BY TimersSet
<1>2. page \in Pages
  BY DEF Tab, Pages
<1>3. v = IF w.tun = "CLOSED" THEN t ELSE CloseSocket(x)
  <2>1. page = IF status = "SUCCESS" THEN t.page ELSE "failed"
    BY <1>1
  <2> QED
    BY <2>1 DEF CloseTunnel
<1> HIDE DEF t, page
<1>3a. "CLOSED" \in TunnelStates
  BY DEF TunnelStates
<1>4. /\ Tab(x) /\ x.timers = {} /\ x.tun = "CLOSED" /\ x.uuid = t.uuid
      /\ x.cli = t.cli /\ x.page = page /\ x.here = t.here
  <2>1. x = [sock |-> t.sock, tun |-> "CLOSED", uuid |-> t.uuid, timers |-> t.timers,
             cli |-> t.cli, keep |-> t.keep, page |-> page, here |-> t.here, out |-> t.out]
    BY <1>1, TunnelPageIs, Zenon
  <2> HIDE DEF x
  <2> QED
    BY <1>1, <1>2, <1>3a, <2>1 DEF Tab, IsTab
<1> HIDE DEF x
<1>5. CASE w.tun = "CLOSED"
  BY <1>1, <1>3, <1>5
<1>6. CASE w.tun # "CLOSED"
  <2>1. v = CloseSocket(x)
    BY <1>3, <1>6
  <2> QED
    BY <1>1, <1>4, <1>6, <2>1, SocketCloses DEF page
<1> QED
  BY <1>5, <1>6

(* setState, with what the page's status line shows *)
LEMMA StateSet ==
  ASSUME NEW w, Tab(w), NEW state \in ClientStates, NEW v, v = ClientSetState(w, state)
  PROVE  /\ Tab(v) /\ v.cli = state
         /\ v.sock = w.sock /\ v.tun = w.tun /\ v.uuid = w.uuid /\ v.timers = w.timers
         /\ v.here = w.here
         /\ state = "DISCONNECTING" => v.page = w.page
         /\ state = "DISCONNECTED" /\ w.cli # "DISCONNECTED" => v.page = "disconnected"
<1> DEFINE page == CASE state = "CONNECTING" -> "connecting"
                     [] state = "WAITING" -> "waiting"
                     [] state = "CONNECTED" -> "hidden"
                     [] state = "DISCONNECTED" -> "disconnected"
                     [] OTHER -> w.page
<1>1. /\ page \in Pages
      /\ state = "DISCONNECTING" => page = w.page
      /\ state = "DISCONNECTED" => page = "disconnected"
  BY DEF Tab, Pages, ClientStates
<1>2. v = IF state = w.cli THEN w ELSE [w EXCEPT !.cli = state, !.page = page]
  BY DEF ClientSetState
<1> HIDE DEF page
<1>3. CASE state = w.cli
  BY <1>2, <1>3 DEF Tab
<1>4. CASE state # w.cli
  <2>1. v = [w EXCEPT !.cli = state, !.page = page]
    BY <1>2, <1>4
  <2>2. v = [sock |-> w.sock, tun |-> w.tun, uuid |-> w.uuid, timers |-> w.timers,
             cli |-> state, keep |-> w.keep, page |-> page, here |-> w.here, out |-> w.out]
    BY <2>1, ClientPageIs, Zenon
  <2> QED
    BY <1>1, <2>2 DEF Tab, IsTab
<1> QED
  BY <1>3, <1>4

LEMMA PageSet ==
  ASSUME NEW w, Tab(w), NEW page \in Pages, NEW v, v = [w EXCEPT !.page = page]
  PROVE  /\ Tab(v) /\ v.page = page /\ v.sock = w.sock /\ v.tun = w.tun
         /\ v.uuid = w.uuid /\ v.timers = w.timers /\ v.cli = w.cli /\ v.here = w.here
BY DEF Tab, IsTab

(* What a disconnect may come to: nothing, if the client was through; a client *)
(* that is left DISCONNECTING, if send threw; or the end of the tunnel.        *)
Disconnected(v, w) ==
    /\ Tab(v) /\ v.uuid = w.uuid /\ v.here = w.here
    /\ \/ w.cli \in {"DISCONNECTED", "DISCONNECTING"} /\ v = w
       \/ /\ Throws(w) /\ v.cli = "DISCONNECTING" /\ v.page = w.page
          /\ v.sock = w.sock /\ v.tun = w.tun /\ v.timers = w.timers
       \/ /\ ~Throws(w) /\ v.cli = "DISCONNECTED" /\ v.page = "disconnected"
          /\ v.tun = "CLOSED" /\ v.timers = {}
          /\ v.sock = IF w.tun = "CLOSED" THEN w.sock ELSE "closed"

LEMMA Disconnecting ==
  ASSUME NEW w, Tab(w)
  PROVE  Disconnected(Disconnect(w), w)
<1> DEFINE c == ClientSetState(w, "DISCONNECTING")
           d == [c EXCEPT !.keep = FALSE]
           m == SendMessage(d, "disconnect")
           t == CloseTunnel(m, "SUCCESS")
           v == ClientSetState(t, "DISCONNECTED")
<1>0. "DISCONNECTING" \in ClientStates /\ "DISCONNECTED" \in ClientStates
  BY DEF ClientStates
<1>1. Disconnect(w) = IF w.cli \in {"DISCONNECTED", "DISCONNECTING"} THEN w
                      ELSE IF Throws(d) THEN d ELSE v
  BY DEF Disconnect
<1>2. /\ Tab(c) /\ c.cli = "DISCONNECTING" /\ c.sock = w.sock /\ c.tun = w.tun
      /\ c.uuid = w.uuid /\ c.timers = w.timers /\ c.here = w.here /\ c.page = w.page
  BY <1>0, StateSet
<1> HIDE DEF c
<1>3. Posted(d, c)
  BY <1>2, KeepSet
<1> HIDE DEF d
<1>4. Posted(m, d)
  BY <1>3, Sends DEF Posted
<1> HIDE DEF m
<1>5. /\ Tab(t) /\ t.tun = "CLOSED" /\ t.timers = {} /\ t.uuid = m.uuid /\ t.cli = m.cli
      /\ t.here = m.here /\ t.sock = IF m.tun = "CLOSED" THEN m.sock ELSE "closed"
  BY <1>4, TunnelCloses DEF Posted
<1> HIDE DEF t
<1>6. /\ Tab(v) /\ v.cli = "DISCONNECTED" /\ v.sock = t.sock /\ v.tun = t.tun
      /\ v.uuid = t.uuid /\ v.timers = t.timers /\ v.here = t.here
      /\ t.cli # "DISCONNECTED" => v.page = "disconnected"
  BY <1>0, <1>5, StateSet
<1> HIDE DEF v
<1>7. /\ Throws(d) <=> Throws(w)
      /\ Tab(d) /\ d.uuid = w.uuid /\ d.here = w.here /\ d.cli = "DISCONNECTING"
      /\ d.page = w.page /\ d.sock = w.sock /\ d.tun = w.tun /\ d.timers = w.timers
  BY <1>2, <1>3 DEF Posted, Throws, TunnelConnected
<1>8. /\ m.uuid = w.uuid /\ m.cli = "DISCONNECTING" /\ m.here = w.here /\ m.tun = w.tun
      /\ m.sock = w.sock
  BY <1>4, <1>7 DEF Posted
<1>9. /\ Tab(v) /\ v.uuid = w.uuid /\ v.here = w.here /\ v.cli = "DISCONNECTED"
      /\ v.page = "disconnected" /\ v.tun = "CLOSED" /\ v.timers = {}
      /\ v.sock = IF w.tun = "CLOSED" THEN w.sock ELSE "closed"
  BY <1>5, <1>6, <1>8
<1> QED
  BY <1>1, <1>7, <1>9 DEF Disconnected

Ops == {"sync", "error", "disconnect"}

(* While the instructions of a message are handled: the socket was open when *)
(* the message came, and only a disconnect of the client closes it.          *)
Handled(v, asked, here) ==
    /\ Tab(v) /\ Sound(v) /\ v.uuid /\ v.here = here
    /\ v.sock \in {"open", "closed"}
    /\ v.sock = "closed" => v.cli = "DISCONNECTED" /\ v.page # "hidden"
    /\ asked => v.cli = "DISCONNECTING" \/ v.tun = "CLOSED"

LEMMA DisconnectHandled ==
  ASSUME NEW asked, NEW here, NEW w, Handled(w, asked, here), NEW v, Disconnected(v, w)
  PROVE  Handled(v, asked, here)
<1>1. ~Throws(w)
  BY DEF Handled, Throws
<1>2. CASE v = w
  BY <1>2
<1>3. CASE /\ v.cli = "DISCONNECTED" /\ v.page = "disconnected"
           /\ v.tun = "CLOSED" /\ v.timers = {}
           /\ v.sock = IF w.tun = "CLOSED" THEN w.sock ELSE "closed"
  BY <1>3 DEF Handled, Disconnected, Sound
<1> QED
  BY <1>1, <1>2, <1>3 DEF Disconnected

(* The handlers of sync, error and disconnect *)
LEMMA InstructionHandled ==
  ASSUME NEW asked, NEW here, NEW w, Handled(w, asked, here), NEW op \in Ops
  PROVE  Handled(Instruction(w, op), asked, here)
<1>0. Tab(w)
  BY DEF Handled
<1>1. CASE op = "sync"
  <2> DEFINE v == ClientSetState(w, "CONNECTED")
  <2>1. Instruction(w, op) = IF w.cli = "WAITING" THEN v ELSE w
    BY <1>1 DEF Instruction
  <2>2. /\ Tab(v) /\ v.cli = "CONNECTED" /\ v.sock = w.sock /\ v.tun = w.tun
        /\ v.uuid = w.uuid /\ v.timers = w.timers /\ v.here = w.here
    BY <1>0, StateSet DEF ClientStates
  <2> HIDE DEF v
  <2>3. w.cli = "WAITING" => Handled(v, asked, here)
    BY <2>2 DEF Handled, Sound
  <2> QED
    BY <2>1, <2>3
<1>2. CASE op = "error"
  <2> DEFINE v == [w EXCEPT !.page = "error"]
  <2>1. Instruction(w, op) = Disconnect(v)
    BY <1>2 DEF Instruction
  <2>2. /\ Tab(v) /\ v.page = "error" /\ v.sock = w.sock /\ v.tun = w.tun
        /\ v.uuid = w.uuid /\ v.timers = w.timers /\ v.cli = w.cli /\ v.here = w.here
    <3>1. "error" \in Pages
      BY DEF Pages
    <3> QED
      BY <1>0, <3>1, PageSet
  <2> HIDE DEF v
  <2>3. Handled(v, asked, here)
    BY <2>2 DEF Handled, Sound
  <2> QED
    BY <2>1, <2>2, <2>3, Disconnecting, DisconnectHandled
<1>3. CASE op = "disconnect"
  <2>1. Instruction(w, op) = Disconnect(w)
    BY <1>3 DEF Instruction
  <2> QED
    BY <1>0, <2>1, Disconnecting, DisconnectHandled
<1> QED
  BY <1>1, <1>2, <1>3 DEF Ops

(* One instruction of a message, once the tunnel has its name *)
LEMMA HandleHandled ==
  ASSUME NEW asked, NEW here, NEW w, Handled(w, asked, here), NEW op \in Ops, NEW now
  PROVE  Handled(HandleInstruction(w, op, now), asked, here)
<1> DEFINE i == Instruction(w, op)
<1>1. Handled(i, asked, here)
  BY InstructionHandled
<1>2. HandleInstruction(w, op, now) = ScheduleKeepAlive(i, now)
  BY DEF HandleInstruction, Handled, Ops
<1> HIDE DEF i
<1>3. Posted(ScheduleKeepAlive(i, now), i)
  BY <1>1, Keeps DEF Handled
<1> QED
  BY <1>1, <1>2, <1>3 DEF Handled, Posted, Sound

-----------------------------------------------------------------------------
(* A message *)

(* What holds of 0, and of a number's successor with it, holds of every number. *)
LEMMA Induction ==
  ASSUME NEW S, 0 \in S, \A n \in Nat : n \in S => n + 1 \in S
  PROVE  Nat \subseteq S
<1> SUFFICES ASSUME Nat \ S # {} PROVE FALSE
  OBVIOUS
<1> DEFINE R == OpToRel(<, Nat)
           T == Nat \ S
<1>1. \A x, y \in Nat : y < x => <<y, x>> \in R
  BY DEF OpToRel
<1>2. IsWellFoundedOn(R, Nat) /\ T \subseteq Nat /\ T # {}
  BY NatLessThanWellFounded
<1> HIDE DEF R
<1>3. PICK x \in T : \A y \in T : ~(<<y, x>> \in R)
  <2> HIDE DEF T
  <2> QED
    BY <1>2, WFMin
<1>4. x \in Nat /\ x # 0 /\ x - 1 \in Nat /\ x - 1 < x /\ x = (x - 1) + 1
  OBVIOUS
<1>5. x - 1 \in S
  BY <1>1, <1>3, <1>4
<1> QED
  BY <1>4, <1>5

(* The browser after each of the first m instructions. *)
Handles(f, w, ops, now, m) ==
    f = [n \in 0..m |-> IF n = 0 THEN w ELSE HandleInstruction(f[n - 1], ops[n], now)]

(* The function that HandleMessage takes its value from exists, for a message *)
(* of any length, and HandleMessage is its value at the end.                 *)
LEMMA HandlesExtend ==
  ASSUME NEW w, NEW ops, NEW now, NEW k \in Nat, NEW f, Handles(f, w, ops, now, k),
         NEW h, h = [n \in 0..k + 1 |-> IF n <= k THEN f[n]
                                        ELSE HandleInstruction(f[k], ops[k + 1], now)]
  PROVE  Handles(h, w, ops, now, k + 1)
<1>1. ASSUME NEW n \in 0..k + 1
      PROVE  h[n] = IF n = 0 THEN w ELSE HandleInstruction(h[n - 1], ops[n], now)
  <2>1. CASE n = 0
    BY <2>1 DEF Handles
  <2>2. CASE n # 0 /\ n <= k
    <3>1. h[n] = f[n] /\ h[n - 1] = f[n - 1]
      BY <2>2
    <3>2. f[n] = HandleInstruction(f[n - 1], ops[n], now)
      BY <2>2 DEF Handles
    <3> QED
      BY <2>2, <3>1, <3>2
  <2>3. CASE n = k + 1
    <3>1. h[n] = HandleInstruction(f[k], ops[n], now) /\ h[n - 1] = f[k] /\ n # 0
      BY <2>3
    <3> QED
      BY <3>1
  <2> QED
    BY <2>1, <2>2, <2>3
<1>2. h = [n \in 0..k + 1 |-> h[n]]
  OBVIOUS
<1>3. h = [n \in 0..k + 1 |-> IF n = 0 THEN w ELSE HandleInstruction(h[n - 1], ops[n], now)]
  BY <1>1, <1>2
<1> QED
  BY <1>3 DEF Handles

LEMMA HandlesUpTo ==
  ASSUME NEW w, NEW ops, NEW now, NEW m \in Nat
  PROVE  \E f : Handles(f, w, ops, now, m)
<1> DEFINE S == {k \in Nat : \E f : Handles(f, w, ops, now, k)}
<1>1. 0 \in S
  <2> DEFINE f == [n \in 0..0 |-> w]
  <2>1. Handles(f, w, ops, now, 0)
    BY DEF Handles
  <2> QED
    BY <2>1
<1>2. ASSUME NEW k \in Nat, k \in S PROVE k + 1 \in S
  <2>1. PICK f : Handles(f, w, ops, now, k)
    BY <1>2
  <2> DEFINE h == [n \in 0..k + 1 |-> IF n <= k THEN f[n]
                                      ELSE HandleInstruction(f[k], ops[k + 1], now)]
  <2>2. Handles(h, w, ops, now, k + 1)
    BY <2>1, HandlesExtend
  <2>3. \E x : Handles(x, w, ops, now, k + 1)
    BY <2>2, Zenon
  <2> QED
    BY <2>3
<1> HIDE DEF S
<1>3. m \in S
  BY <1>1, <1>2, Induction
<1> QED
  BY <1>3 DEF S

LEMMA MessageIs ==
  ASSUME NEW w, NEW ops, Len(ops) \in Nat, NEW now
  PROVE  \E f : /\ Handles(f, w, ops, now, Len(ops))
               /\ HandleMessage(w, ops, now) = f[Len(ops)]
<1> DEFINE h == CHOOSE f : Handles(f, w, ops, now, Len(ops))
<1>1. \E f : Handles(f, w, ops, now, Len(ops))
  BY HandlesUpTo
<1>2. Handles(h, w, ops, now, Len(ops))
  BY <1>1, Zenon
<1>3. HandleMessage(w, ops, now) = h[Len(ops)]
  BY DEF HandleMessage, Handles
<1> HIDE DEF h
<1> QED
  BY <1>2, <1>3

(* A whole message: the invariant of its instructions, by induction. *)
LEMMA MessageHandled ==
  ASSUME NEW asked, NEW here, NEW w, Handled(w, asked, here), NEW ops \in Seq(Ops), NEW now
  PROVE  Handled(HandleMessage(w, ops, now), asked, here)
<1> DEFINE m == Len(ops)
<1>0. m \in Nat /\ \A i \in 1..m : ops[i] \in Ops
  OBVIOUS
<1>1. PICK f : Handles(f, w, ops, now, m) /\ HandleMessage(w, ops, now) = f[m]
  BY <1>0, MessageIs
<1> HIDE DEF m
<1> DEFINE S == {n \in Nat : n <= m => Handled(f[n], asked, here)}
<1>2. 0 \in S
  <2>1. f[0] = w
    BY <1>0, <1>1 DEF Handles
  <2> QED
    BY <2>1
<1>3. ASSUME NEW n \in Nat, n \in S PROVE n + 1 \in S
  <2> SUFFICES ASSUME n + 1 <= m PROVE Handled(f[n + 1], asked, here)
    OBVIOUS
  <2>1. Handled(f[n], asked, here)
    BY <1>0, <1>3
  <2>2. f[n + 1] = HandleInstruction(f[n], ops[n + 1], now) /\ ops[n + 1] \in Ops
    BY <1>0, <1>1 DEF Handles
  <2> QED
    BY <2>1, <2>2, HandleHandled
<1> HIDE DEF S
<1>4. m \in S
  BY <1>0, <1>2, <1>3, Induction
<1> QED
  BY <1>0, <1>1, <1>4 DEF S

(* The internal instruction names the tunnel, and is alone in its message. *)
LEMMA NameHandled ==
  ASSUME NEW w, Tab(w), NEW now, NEW v, v = HandleMessage(w, <<"id">>, now)
  PROVE  /\ Tab(v) /\ v.uuid /\ v.sock = w.sock /\ v.timers = w.timers /\ v.cli = w.cli
         /\ v.page = w.page /\ v.here = w.here
         /\ v.tun \in {w.tun, "OPEN"}
<1> DEFINE ops == <<"id">>
           x == [w EXCEPT !.uuid = TRUE, !.tun = "OPEN"]
<1>1. PICK f : Handles(f, w, ops, now, 1) /\ v = f[1]
  <2>1. Len(ops) = 1
    OBVIOUS
  <2> HIDE DEF ops
  <2>2. \E f : Handles(f, w, ops, now, Len(ops)) /\ v = f[Len(ops)]
    BY <2>1, MessageIs DEF ops
  <2> QED
    BY <2>1, <2>2, Zenon
<1>2. v = HandleInstruction(w, "id", now)
  BY <1>1 DEF Handles
<1>3. v = IF w.uuid THEN w ELSE [w EXCEPT !.uuid = ("id" = "id"), !.tun = "OPEN"]
  BY <1>2, Zenon DEF HandleInstruction
<1>4. CASE w.uuid
  BY <1>3, <1>4 DEF Tab
<1>5. CASE ~w.uuid
  <2>1. PICK yes : yes = ("id" = "id")
    OBVIOUS
  <2>2. v = [w EXCEPT !.uuid = yes, !.tun = "OPEN"]
    BY <1>3, <1>5, <2>1, Zenon
  <2>3. v = [sock |-> w.sock, tun |-> "OPEN", uuid |-> yes, timers |-> w.timers,
             cli |-> w.cli, keep |-> w.keep, page |-> w.page, here |-> w.here, out |-> w.out]
    BY <2>2, NamedIs, Zenon
  <2>4. yes \in BOOLEAN /\ yes
    BY <2>1
  <2>5. yes = TRUE
    BY <2>4
  <2>6. /\ IsTab(v) /\ v.uuid = yes /\ v.sock = w.sock /\ v.timers = w.timers
        /\ v.cli = w.cli /\ v.page = w.page /\ v.here = w.here /\ v.tun = "OPEN"
        /\ v.out = w.out
    BY <2>3 DEF IsTab
  <2>7. v.uuid /\ v.uuid \in BOOLEAN
    BY <2>5, <2>6, Zenon
  <2> QED
    BY <2>6, <2>7 DEF Tab, TunnelStates
<1> QED
  BY <1>4, <1>5

-----------------------------------------------------------------------------
(* What is on its way to the browser *)

Control == {<<"open">>, <<"refused">>, <<"abort">>, <<"1000">>, <<"id">>}

(* The ends that guacd brings about. *)
Good == {"guacd stopped reading", "remote session ended", "guacd disconnected"}

(* The tunnel has its name, or the name is on its way. *)
Named(q, uuid) == uuid \/ \E j \in 1..Len(q) : q[j] = <<"id">>

(* The handshake's answer comes first, the tunnel's name before the first    *)
(* message of guacd, and a regular end only of a session that guacd ended.   *)
Mail(q, sock, uuid, why) ==
    /\ q \in Seq(Control \cup Seq(Ops))
    /\ \A i \in 1..Len(q) :
          /\ q[i] = <<"open">> => i = 1 /\ sock = "connecting"
          /\ q[i] = <<"1000">> => why \in Good
          /\ q[i] \in Seq(Ops) => uuid \/ \E j \in 1..i : q[j] = <<"id">>

(* What the engine sends by itself is no instruction of guacd. *)
LEMMA ControlsDiffer ==
  /\ \A m \in Seq(Ops) : m \notin Control
  /\ \A x, y : <<x>> = <<y>> => x = y
<1>1. ASSUME NEW m \in Seq(Ops), NEW x, m = <<x>> PROVE x \in Ops
  <2>1. Len(m) = 1 /\ m[1] = x
    BY <1>1
  <2> QED
    BY <2>1
<1>2. ASSUME NEW x, NEW y, <<x>> = <<y>> PROVE x = y
  <2>1. <<x>>[1] = x /\ <<y>>[1] = y
    OBVIOUS
  <2> QED
    BY <1>2, <2>1
<1>3. /\ "open" \notin Ops /\ "refused" \notin Ops /\ "abort" \notin Ops
      /\ "1000" \notin Ops /\ "id" \notin Ops
  BY DEF Ops
<1> QED
  BY <1>1, <1>2, <1>3, Zenon DEF Control

(* What remains true of the queue as it is emptied, added to and taken from. *)
LEMMA MailEmpty ==
  ASSUME NEW sock, NEW uuid, NEW why
  PROVE  Mail(<<>>, sock, uuid, why)
BY DEF Mail

LEMMA MailWhy ==
  ASSUME NEW q, NEW sock, NEW uuid, NEW why, Mail(q, sock, uuid, why),
         NEW other, why = "" \/ other = why
  PROVE  Mail(q, sock, uuid, other)
<1>1. "" \notin Good
  BY DEF Good
<1> QED
  BY <1>1 DEF Mail

LEMMA MailAppend ==
  ASSUME NEW q, NEW sock, NEW uuid, NEW why, Mail(q, sock, uuid, why),
         NEW m \in Control \cup Seq(Ops),
         m = <<"open">> => q = <<>> /\ sock = "connecting",
         m = <<"1000">> => why \in Good, m \in Seq(Ops) => Named(q, uuid)
  PROVE  /\ Mail(Append(q, m), sock, uuid, why)
         /\ Named(q, uuid) \/ m = <<"id">> => Named(Append(q, m), uuid)
<1> DEFINE T == Control \cup Seq(Ops)
           r == Append(q, m)
<1>1. q \in Seq(T) /\ m \in T
  BY DEF Mail
<1>2. /\ r \in Seq(T) /\ Len(q) \in Nat /\ Len(r) = Len(q) + 1 /\ r[Len(q) + 1] = m
      /\ \A i \in 1..Len(q) : r[i] = q[i]
      /\ q = <<>> => Len(q) = 0
  <2> HIDE DEF T
  <2> QED
    BY <1>1
<1> HIDE DEF r
<1>3. ASSUME NEW i \in 1..Len(r)
      PROVE  /\ r[i] = <<"open">> => i = 1 /\ sock = "connecting"
             /\ r[i] = <<"1000">> => why \in Good
             /\ r[i] \in Seq(Ops) => uuid \/ \E j \in 1..i : r[j] = <<"id">>
  <2>1. CASE i \in 1..Len(q)
    <3>1. r[i] = q[i] /\ \A j \in 1..i : r[j] = q[j]
      BY <1>2, <2>1
    <3> QED
      BY <2>1, <3>1 DEF Mail
  <2>2. CASE i = Len(q) + 1
    <3>1. \A j \in 1..Len(q) : j \in 1..i /\ r[j] = q[j]
      BY <1>2, <2>2
    <3>2. r[i] = m
      BY <1>2, <2>2
    <3>3. m \in Seq(Ops) => uuid \/ \E j \in 1..i : r[j] = <<"id">>
      BY <3>1 DEF Named
    <3>4. m = <<"open">> => i = 1
      BY <1>2, <2>2
    <3> QED
      BY <3>2, <3>3, <3>4
  <2> QED
    BY <1>2, <2>1, <2>2
<1>4. Mail(r, sock, uuid, why)
  BY <1>2, <1>3 DEF Mail
<1>5. Named(q, uuid) => Named(r, uuid)
  <2>1. \A j \in 1..Len(q) : j \in 1..Len(r) /\ r[j] = q[j]
    BY <1>2
  <2> QED
    BY <2>1 DEF Named
<1>6. m = <<"id">> => Named(r, uuid)
  <2>1. Len(q) + 1 \in 1..Len(r)
    BY <1>2
  <2> QED
    BY <1>2, <2>1 DEF Named
<1> QED
  BY <1>4, <1>5, <1>6 DEF r

LEMMA MailHead ==
  ASSUME NEW q, NEW sock, NEW uuid, NEW why, Mail(q, sock, uuid, why), q # <<>>
  PROVE  /\ Head(q) \in Control \cup Seq(Ops)
         /\ Head(q) = <<"open">> => sock = "connecting"
         /\ Head(q) = <<"1000">> => why \in Good
         /\ Head(q) \in Seq(Ops) => uuid
<1> DEFINE T == Control \cup Seq(Ops)
<1>1. q \in Seq(T)
  BY DEF Mail
<1>2. 1 \in 1..Len(q) /\ Head(q) = q[1] /\ q[1] \in T
  <2> HIDE DEF T
  <2> QED
    BY <1>1
<1>3. /\ q[1] = <<"open">> => sock = "connecting"
      /\ q[1] = <<"1000">> => why \in Good
      /\ q[1] \in Seq(Ops) => uuid \/ \E j \in 1..1 : q[j] = <<"id">>
  BY <1>2 DEF Mail
<1>4. q[1] \in Seq(Ops) => q[1] # <<"id">>
  BY ControlsDiffer DEF Control
<1> QED
  BY <1>2, <1>3, <1>4

LEMMA MailTail ==
  ASSUME NEW q, NEW sock, NEW uuid, NEW why, Mail(q, sock, uuid, why), q # <<>>,
         NEW sock2, NEW uuid2, uuid => uuid2, Head(q) = <<"id">> => uuid2
  PROVE  /\ Mail(Tail(q), sock2, uuid2, why)
         /\ Named(q, uuid) => Named(Tail(q), uuid2)
<1> DEFINE T == Control \cup Seq(Ops)
           r == Tail(q)
<1>1. q \in Seq(T)
  BY DEF Mail
<1>2. /\ r \in Seq(T) /\ Len(r) \in Nat /\ Len(q) = Len(r) + 1 /\ Head(q) = q[1]
      /\ \A i \in 1..Len(r) : r[i] = q[i + 1]
  <2> HIDE DEF T
  <2> QED
    BY <1>1
<1> HIDE DEF r
<1>3. ASSUME NEW j \in 1..Len(q), q[j] = <<"id">>
      PROVE  uuid2 \/ (j - 1 \in 1..Len(r) /\ r[j - 1] = <<"id">>)
  <2>1. CASE j = 1
    BY <1>2, <1>3, <2>1
  <2>2. CASE j # 1
    BY <1>2, <1>3, <2>2
  <2> QED
    BY <2>1, <2>2
<1>4. ASSUME NEW i \in 1..Len(r)
      PROVE  /\ r[i] = <<"open">> => i = 1 /\ sock2 = "connecting"
             /\ r[i] = <<"1000">> => why \in Good
             /\ r[i] \in Seq(Ops) => uuid2 \/ \E j \in 1..i : r[j] = <<"id">>
  <2>1. i + 1 \in 1..Len(q) /\ r[i] = q[i + 1] /\ i + 1 # 1
    BY <1>2
  <2>2. /\ q[i + 1] # <<"open">>
        /\ q[i + 1] = <<"1000">> => why \in Good
        /\ q[i + 1] \in Seq(Ops) => uuid \/ \E j \in 1..(i + 1) : q[j] = <<"id">>
    BY <2>1 DEF Mail
  <2>3. ASSUME NEW j \in 1..(i + 1), q[j] = <<"id">>
        PROVE  uuid2 \/ \E k \in 1..i : r[k] = <<"id">>
    <3>1. j \in 1..Len(q) /\ (j - 1 \in 1..Len(r) => j - 1 \in 1..i)
      BY <1>2
    <3> QED
      BY <1>3, <2>3, <3>1
  <2> QED
    BY <2>1, <2>2, <2>3
<1>5. Mail(r, sock2, uuid2, why)
  BY <1>2, <1>4 DEF Mail
<1>6. Named(q, uuid) => Named(r, uuid2)
  BY <1>3 DEF Named
<1> QED
  BY <1>5, <1>6 DEF r

-----------------------------------------------------------------------------
(* Both halves *)

Asked == user # "no" => b.cli = "DISCONNECTING" \/ b.tun = "CLOSED"

(* What each end may rely on about the other. *)
Link ==
    /\ user \in {"no", "yes"}
    /\ s.row \in {"none", "open", "ended"} /\ s.ws \in {"none", "open", "broken"}
    /\ s.up \in {"reading", "input", "disconnect", "stopped"}
    /\ s.down \in {"reading", "stopped"}
    /\ s.pc \in BeforeProxy \cup {"proxy"} => ~s.cancelled
    /\ s.pc \in BeforeDial \cup {"record", "accept"} => s.out = <<>> /\ s.ws = "none"
    /\ s.pc \in {"request", "dial", "record", "accept"} => b.sock \in {"connecting", "closed"}
    /\ b.sock = "none" => s.pc = "idle" /\ user = "no"
    /\ s.ws = "open" /\ b.sock # "closed" =>
          /\ s.down = "reading" => Named(s.out, b.uuid)
          /\ s.pc = "proxy" /\ s.done # <<>> => Head(s.done) \in Good
          /\ s.pc \in {"end", "audit", "close"} => s.why \in Good

SessionInv ==
    /\ Tab(b) /\ Sound(b) /\ Asked
    /\ Mail(s.out, b.sock, b.uuid, s.why) /\ g.buf \in Seq(Ops)
    /\ Link
    /\ HiddenOnlyWhileOpen

(* The page before client.connect *)
LEMMA SessionStarts == Init => SessionInv
<1> SUFFICES ASSUME Init PROVE SessionInv
  OBVIOUS
<1>1. /\ Tab(b) /\ b.tun = "CLOSED" /\ b.sock = "none" /\ b.timers = {} /\ b.cli = "IDLE"
      /\ b.page = "connecting"
  <2>1. b = InitBrowser
    BY DEF Init
  <2>2. <<>> \in Seq(Outgoing)
    OBVIOUS
  <2> QED
    BY <2>1, <2>2 DEF InitBrowser, Tab, IsTab, Socks, TunnelStates, ClientStates, Pages
<1>2. /\ s.pc = "idle" /\ s.row = "none" /\ s.up = "stopped" /\ s.down = "stopped"
      /\ s.cancelled = FALSE /\ s.ws = "none" /\ s.out = <<>> /\ g.buf = <<>> /\ user = "no"
  BY DEF Init
<1>3. Mail(<<>>, b.sock, b.uuid, s.why) /\ <<>> \in Seq(Ops)
  BY MailEmpty
<1>4. Link
  BY <1>1, <1>2 DEF Link
<1>5. Sound(b) /\ Asked /\ HiddenOnlyWhileOpen
  BY <1>1, <1>2 DEF Sound, Asked, HiddenOnlyWhileOpen
<1> QED
  BY <1>1, <1>2, <1>3, <1>4, <1>5, Zenon DEF SessionInv

(* A step of the browser: the engine's state keeps everything but what is on *)
(* its way.                                                                  *)
LEMMA BrowserStep ==
  ASSUME EngineInv, SessionInv, NEW q, s' = [s EXCEPT !.out = q], g' = g,
         user' \in {"no", "yes"}, Tab(b'), Sound(b'), Asked',
         Mail(q, b'.sock, b'.uuid, s.why),
         b'.here /\ b'.tun = "CLOSED" /\ b'.page = "hidden" =>
            s.why \in Good \/ (b.here /\ b.tun = "CLOSED" /\ b.page = "hidden"),
         s.pc \in BeforeDial \cup {"record", "accept"} => q = <<>>,
         s.pc \in {"request", "dial", "record", "accept"} => b'.sock \in {"connecting", "closed"},
         b'.sock # "none" \/ UNCHANGED <<b, user>>,
         b'.sock # "closed" => b.sock # "closed" /\ (Named(s.out, b.uuid) => Named(q, b'.uuid))
  PROVE  SessionInv'
<1>1. /\ s'.out = q /\ s'.pc = s.pc /\ s'.why = s.why /\ s'.row = s.row /\ s'.up = s.up
      /\ s'.down = s.down /\ s'.done = s.done /\ s'.cancelled = s.cancelled /\ s'.ws = s.ws
  BY DEF EngineInv, Fields
<1>2. Link'
  <2>1. Link
    BY DEF SessionInv
  <2>2. b'.sock = "none" => s.pc = "idle" /\ user' = "no"
    BY <2>1 DEF Link
  <2>3. b'.sock # "closed" /\ s.ws = "open" =>
          /\ s.down = "reading" => Named(q, b'.uuid)
          /\ s.pc = "proxy" /\ s.done # <<>> => Head(s.done) \in Good
          /\ s.pc \in {"end", "audit", "close"} => s.why \in Good
    BY <2>1 DEF Link
  <2> QED
    BY <1>1, <2>1, <2>2, <2>3 DEF Link
<1>3. HiddenOnlyWhileOpen'
  BY <1>1 DEF SessionInv, HiddenOnlyWhileOpen, Good
<1>4. Mail(q, b.sock, b.uuid, s.why)' /\ g'.buf \in Seq(Ops)
  BY <1>1 DEF SessionInv
<1> QED
  BY <1>1, <1>2, <1>3, <1>4 DEF SessionInv

-----------------------------------------------------------------------------
(* The browser's events *)

(* client.connect *)
LEMMA LoadStep ==
  ASSUME EngineInv, SessionInv, PageLoad
  PROVE  SessionInv'
<1>1. PICK now \in BOOLEAN :
        LET c == ResetTimers(ClientSetState(b, "CONNECTING"), TRUE)
            t == [c EXCEPT !.tun = "CONNECTING", !.sock = "connecting"]
        IN  b' = ClientSetState(ScheduleKeepAlive(t, now), "WAITING")
  BY DEF PageLoad
<1>2. /\ b.sock = "none" /\ s.pc = "idle" /\ s' = [s EXCEPT !.pc = "request"]
      /\ g' = g /\ user' = user
  BY DEF PageLoad
<1> DEFINE a == ClientSetState(b, "CONNECTING")
           c == ResetTimers(a, TRUE)
           t == [c EXCEPT !.tun = "CONNECTING", !.sock = "connecting"]
           k == ScheduleKeepAlive(t, now)
<1>3. b' = ClientSetState(k, "WAITING")
  BY <1>1
<1>4. Tab(a)
  BY StateSet DEF SessionInv, ClientStates
<1> HIDE DEF a
<1>5. Tab(c)
  BY <1>4, Resets
<1> HIDE DEF c
<1>6. Tab(t) /\ t.tun = "CONNECTING" /\ t.sock = "connecting"
  <2>1. t = [sock |-> "connecting", tun |-> "CONNECTING", uuid |-> c.uuid,
             timers |-> c.timers, cli |-> c.cli, keep |-> c.keep, page |-> c.page,
             here |-> c.here, out |-> c.out]
    BY <1>5, SocketIs, Zenon
  <2> HIDE DEF t
  <2> QED
    BY <1>5, <2>1 DEF Tab, IsTab, Socks, TunnelStates
<1> HIDE DEF t
<1>7. Posted(k, t)
  BY <1>6, Keeps
<1> HIDE DEF k
<1>8. Tab(b') /\ b'.tun = "CONNECTING" /\ b'.sock = "connecting" /\ b'.cli = "WAITING"
  BY <1>3, <1>6, <1>7, StateSet DEF Posted, ClientStates
<1>9. /\ s'.pc = "request" /\ s'.out = s.out /\ s'.why = s.why /\ s'.row = s.row
      /\ s'.up = s.up /\ s'.down = s.down /\ s'.done = s.done
      /\ s'.cancelled = s.cancelled /\ s'.ws = s.ws
  BY <1>2 DEF EngineInv, Fields
<1>10. s.out = <<>> /\ s.ws = "none" /\ user = "no" /\ ~s.cancelled
  BY <1>2 DEF SessionInv, Link, EngineInv, Progress, BeforeProxy, BeforeDial
<1>11. Sound(b') /\ Asked' /\ HiddenOnlyWhileOpen'
  BY <1>2, <1>8, <1>10 DEF Sound, Asked, HiddenOnlyWhileOpen
<1>12. Link'
  BY <1>2, <1>8, <1>9, <1>10 DEF SessionInv, Link, BeforeDial
<1>13. Mail(s'.out, b'.sock, b'.uuid, s'.why)
  BY <1>9, <1>10, MailEmpty
<1> QED
  BY <1>2, <1>8, <1>11, <1>12, <1>13 DEF SessionInv

(* socket.onopen: the answer to the handshake is taken from the queue. *)
LEMMA OpensStep ==
  ASSUME EngineInv, SessionInv, SocketOpens
  PROVE  SessionInv'
<1>1. PICK now \in BOOLEAN : b' = ResetTimers([b EXCEPT !.sock = "open"], now)
  BY DEF SocketOpens
<1>2. /\ b.sock = "connecting" /\ s.out # <<>> /\ Head(s.out) = <<"open">>
      /\ s' = [s EXCEPT !.out = Tail(@)] /\ g' = g /\ user' = user
  BY DEF SocketOpens
<1> DEFINE t == [b EXCEPT !.sock = "open"]
<1>3. Tab(b) /\ Sound(b) /\ Asked /\ Link /\ Mail(s.out, b.sock, b.uuid, s.why)
  BY DEF SessionInv
<1>4. /\ Tab(t) /\ t.sock = "open" /\ t.tun = b.tun /\ t.uuid = b.uuid /\ t.cli = b.cli
  <2>1. t = [sock |-> "open", tun |-> b.tun, uuid |-> b.uuid, timers |-> b.timers,
             cli |-> b.cli, keep |-> b.keep, page |-> b.page, here |-> b.here, out |-> b.out]
    BY <1>3 DEF Tab, IsTab
  <2> HIDE DEF t
  <2> QED
    BY <1>3, <2>1 DEF Tab, IsTab, Socks
<1>5. b' = ResetTimers(t, now)
  BY <1>1
<1> HIDE DEF t
<1>6. /\ Tab(b') /\ b'.sock = "open" /\ b'.uuid = b.uuid /\ b'.cli = b.cli
      /\ b'.tun = "CLOSED" <=> b.tun = "CLOSED"
  BY <1>4, <1>5, Resets
<1>7. b.tun # "CLOSED" /\ b.cli # "DISCONNECTED"
  BY <1>2, <1>3 DEF Sound
<1>8. Sound(b') /\ Asked'
  BY <1>2, <1>3, <1>6, <1>7 DEF Sound, Asked
<1>9. Head(s.out) # <<"id">>
  BY <1>2, ControlsDiffer
<1>10. /\ Mail(Tail(s.out), b'.sock, b'.uuid, s.why)
       /\ Named(s.out, b.uuid) => Named(Tail(s.out), b'.uuid)
  BY <1>2, <1>3, <1>6, <1>9, MailTail
<1>11. s.pc \notin BeforeDial \cup {"record", "accept"}
  BY <1>2, <1>3 DEF Link
<1>12. s.pc \notin {"request", "dial", "record", "accept"}
  BY <1>11 DEF BeforeDial
<1>13. user' \in {"no", "yes"}
  BY <1>2, <1>3 DEF Link
<1> DEFINE q == Tail(s.out)
<1>14. s' = [s EXCEPT !.out = q] /\ Mail(q, b'.sock, b'.uuid, s.why)
       /\ (Named(s.out, b.uuid) => Named(q, b'.uuid))
  BY <1>2, <1>10
<1> HIDE DEF q
<1> QED
  BY <1>2, <1>6, <1>7, <1>8, <1>11, <1>12, <1>13, <1>14, BrowserStep

(* socket.onmessage: the tunnel's name, or what guacd sent once it has one. *)
LEMMA MessageStep ==
  ASSUME EngineInv, SessionInv, SocketMessage
  PROVE  SessionInv'
<1> DEFINE m == Head(s.out)
<1>1. PICK ping \in BOOLEAN, nop \in BOOLEAN : b' = HandleMessage(ResetTimers(b, ping), m, nop)
  BY DEF SocketMessage
<1> DEFINE w == ResetTimers(b, ping)
           q == Undelivered(b', Tail(s.out))
<1>2. /\ b.here /\ b.sock = "open" /\ s.out # <<>> /\ m \notin Closing
      /\ s' = [s EXCEPT !.out = q] /\ g' = g /\ user' = user
  BY DEF SocketMessage
<1>3. Tab(b) /\ Sound(b) /\ Asked /\ Link /\ Mail(s.out, b.sock, b.uuid, s.why)
  BY DEF SessionInv
<1>4. /\ Tab(w) /\ w.sock = "open" /\ w.uuid = b.uuid /\ w.cli = b.cli
      /\ w.here = b.here
      /\ w.tun = "CLOSED" <=> b.tun = "CLOSED"
  <2>1. b.sock = "open"
    BY <1>2
  <2> QED
    BY <1>3, <2>1, Resets
<1>5. b' = HandleMessage(w, m, nop)
  BY <1>1
<1>6. b.tun # "CLOSED" /\ b.cli # "DISCONNECTED"
  BY <1>2, <1>3 DEF Sound
<1>7. m = <<"id">> \/ m \in Seq(Ops)
  <2>1. m \in Control \cup Seq(Ops) /\ m # <<"open">>
    BY <1>2, <1>3, MailHead
  <2> QED
    BY <1>2, <2>1 DEF Control, Closing
<1>8. m \in Seq(Ops) => b.uuid
  BY <1>2, <1>3, MailHead
<1> HIDE DEF w
(* Whichever it was: the socket is open, or the client has closed it. *)
<1>9. /\ Tab(b') /\ Sound(b') /\ b'.sock \in {"open", "closed"}
      /\ b'.uuid
      /\ b'.sock = "closed" => b'.page # "hidden"
      /\ user # "no" => b'.cli = "DISCONNECTING" \/ b'.tun = "CLOSED"
  <2>1. CASE m = <<"id">>
    <3>1. /\ Tab(b') /\ b'.uuid /\ b'.sock = w.sock /\ b'.cli = w.cli
          /\ b'.tun \in {w.tun, "OPEN"}
      BY <1>4, <1>5, <2>1, NameHandled
    <3> QED
      BY <1>3, <1>4, <1>6, <3>1 DEF Sound, Asked
  <2>2. CASE m \in Seq(Ops)
    <3>1. Handled(w, user # "no", b.here)
      BY <1>3, <1>4, <1>6, <1>8, <2>2 DEF Handled, Sound, Asked
    <3>2. Handled(b', user # "no", b.here)
      BY <1>5, <2>2, <3>1, MessageHandled
    <3> QED
      BY <3>2 DEF Handled
  <2> QED
    BY <1>7, <2>1, <2>2
<1>10. Asked'
  BY <1>2, <1>9 DEF Asked
<1>11. /\ Mail(Tail(s.out), b'.sock, b'.uuid, s.why)
       /\ Mail(<<>>, b'.sock, b'.uuid, s.why)
  BY <1>2, <1>3, <1>9, MailTail, MailEmpty
<1>12. Mail(q, b'.sock, b'.uuid, s.why) /\ Named(q, b'.uuid)
  BY <1>9, <1>11 DEF Undelivered, Named
<1> HIDE DEF q
<1>13. s.pc \notin BeforeDial \cup {"record", "accept"}
  BY <1>2, <1>3 DEF Link
<1>14. s.pc \notin {"request", "dial", "record", "accept"}
  BY <1>13 DEF BeforeDial
<1>15. user' \in {"no", "yes"}
  BY <1>2, <1>3 DEF Link
<1>16. b'.tun = "CLOSED" => b'.page # "hidden"
  BY <1>9 DEF Sound
<1>17. b'.sock # "none" /\ b.sock # "closed"
  BY <1>2, <1>9
<1> QED
  BY <1>2, <1>9, <1>10, <1>12, <1>13, <1>14, <1>15, <1>16, <1>17, BrowserStep

(* socket.onclose *)
LEMMA ClosedStep ==
  ASSUME EngineInv, SessionInv, SocketClosed
  PROVE  SessionInv'
<1> DEFINE code == IF Head(s.out) = <<"1000">> THEN 1000 ELSE 1006
           status == FromWebSocketCode(code)
           t == [b EXCEPT !.sock = "closed"]
<1>1. /\ b.sock \in {"connecting", "open"} /\ s.out # <<>>
      /\ b' = CloseTunnel(t, status) /\ s' = [s EXCEPT !.out = <<>>] /\ g' = g /\ user' = user
  BY DEF SocketClosed
<1>2. Tab(b) /\ Sound(b) /\ Link /\ Mail(s.out, b.sock, b.uuid, s.why)
  BY DEF SessionInv
<1>3. Head(s.out) = <<"1000">> => s.why \in Good
  BY <1>1, <1>2, MailHead
<1>4. Head(s.out) # <<"1000">> => status # "SUCCESS"
  BY DEF FromWebSocketCode
<1>5. Tab(t) /\ t.tun = b.tun
  <2>1. t = [sock |-> "closed", tun |-> b.tun, uuid |-> b.uuid, timers |-> b.timers,
             cli |-> b.cli, keep |-> b.keep, page |-> b.page, here |-> b.here, out |-> b.out]
    BY <1>2 DEF Tab, IsTab
  <2> HIDE DEF t
  <2> QED
    BY <1>2, <2>1 DEF Tab, IsTab, Socks
<1> HIDE DEF t, status
<1>6. b.tun # "CLOSED"
  BY <1>1, <1>2 DEF Sound
<1>7. /\ Tab(b') /\ b'.tun = "CLOSED" /\ b'.timers = {} /\ b'.sock = "closed"
      /\ status # "SUCCESS" => b'.page = "failed"
  BY <1>1, <1>5, <1>6, TunnelCloses
<1>8. Sound(b') /\ Asked'
  BY <1>7 DEF Sound, Asked
<1>9. b'.page = "hidden" => s.why \in Good
  BY <1>3, <1>4, <1>7
<1>10. Mail(<<>>, b'.sock, b'.uuid, s.why) /\ user' \in {"no", "yes"}
  BY <1>1, <1>2, MailEmpty DEF Link
<1> QED
  BY <1>1, <1>7, <1>8, <1>9, <1>10, BrowserStep

(* The timers, and what the user does before asking to disconnect. *)
LEMMA QuietStep ==
  ASSUME EngineInv, SessionInv, s' = s, g' = g, user' = user, Tab(b'), Sound(b'),
         b'.sock = b.sock, b'.uuid = b.uuid, b'.cli = b.cli, b'.page = b.page,
         b'.here = b.here, b'.tun = "CLOSED" <=> b.tun = "CLOSED"
  PROVE  SessionInv'
<1>1. Link /\ Asked /\ Mail(s.out, b.sock, b.uuid, s.why) /\ g.buf \in Seq(Ops)
      /\ HiddenOnlyWhileOpen
  BY DEF SessionInv
<1>2. Link'
  BY <1>1 DEF Link
<1>3. Asked' /\ HiddenOnlyWhileOpen'
  BY <1>1 DEF Asked, HiddenOnlyWhileOpen
<1> QED
  BY <1>1, <1>2, <1>3 DEF SessionInv

(* The ping and unstable timers, the keep-alive, a key or the mouse *)
LEMMA TimerStep ==
  ASSUME EngineInv, SessionInv, PingFires \/ UnstableFires \/ KeepAliveFires \/ Input
  PROVE  SessionInv'
<1>1. Tab(b) /\ Sound(b)
  BY DEF SessionInv
<1>2. ASSUME NEW w, Posted(b', w), Sound(w), w.sock = b.sock, w.uuid = b.uuid, w.cli = b.cli,
             w.page = b.page, w.here = b.here, w.tun = "CLOSED" <=> b.tun = "CLOSED",
             s' = s, g' = g, user' = user
      PROVE  SessionInv'
  <2>1. Tab(b') /\ Sound(b')
    BY <1>2 DEF Posted, Sound
  <2> QED
    BY <1>2, <2>1, QuietStep DEF Posted
<1>3. CASE PingFires
  <2> DEFINE timers == b.timers \ {"ping"}
             w == [b EXCEPT !.timers = timers]
  <2>1. /\ timers \in SUBSET Timers /\ b.tun # "CLOSED"
        /\ b' = SendMessage(w, "input") /\ s' = s /\ g' = g /\ user' = user
    BY <1>1, <1>3 DEF PingFires, SendPing, Tab, Sound
  <2> HIDE DEF timers
  <2>2. /\ Tab(w) /\ w.sock = b.sock /\ w.tun = b.tun /\ w.timers = timers
        /\ w.uuid = b.uuid /\ w.cli = b.cli /\ w.page = b.page /\ w.here = b.here
    BY <1>1, <2>1, TimersSet
  <2> HIDE DEF w
  <2>3. Posted(b', w) /\ Sound(w)
    BY <1>1, <2>1, <2>2, Sends DEF Sound
  <2> QED
    BY <1>2, <2>1, <2>2, <2>3
<1>4. CASE UnstableFires
  <2> DEFINE timers == b.timers \ {"unstable"}
  <2>1. /\ timers \in SUBSET Timers /\ b.tun # "CLOSED"
        /\ b' = [b EXCEPT !.timers = timers, !.tun = "UNSTABLE"]
        /\ s' = s /\ g' = g /\ user' = user
    BY <1>1, <1>4 DEF UnstableFires, Tab, Sound
  <2> HIDE DEF timers
  <2>2. b' = [sock |-> b.sock, tun |-> "UNSTABLE", uuid |-> b.uuid, timers |-> timers,
              cli |-> b.cli, keep |-> b.keep, page |-> b.page, here |-> b.here, out |-> b.out]
    BY <1>1, <2>1, TunnelIs DEF Tab, IsTab
  <2>3. Posted(b', b')
    BY <1>1, <2>1, <2>2 DEF Posted, Tab, IsTab, TunnelStates
  <2>4. Sound(b')
    BY <1>1, <2>1, <2>2 DEF Sound
  <2> QED
    BY <1>2, <2>1, <2>2, <2>3, <2>4
<1>5. CASE KeepAliveFires
  <2> DEFINE w == [b EXCEPT !.keep = FALSE]
  <2>1. b' = SendMessage(w, "input") /\ s' = s /\ g' = g /\ user' = user
    BY <1>5 DEF KeepAliveFires, SendKeepAlive
  <2>2. Posted(w, b)
    BY <1>1, KeepSet
  <2> HIDE DEF w
  <2>3. Posted(b', w) /\ Sound(w)
    BY <1>1, <2>1, <2>2, Sends DEF Posted, Sound
  <2> QED
    BY <1>2, <2>1, <2>2, <2>3 DEF Posted
<1>6. CASE Input
  <2>1. b' = SendMessage(b, "input") /\ s' = s /\ g' = g /\ user' = user
    BY <1>6 DEF Input
  <2>2. Posted(b', b)
    BY <1>1, <2>1, Sends
  <2> QED
    BY <1>1, <1>2, <2>1, <2>2
<1> QED
  BY <1>3, <1>4, <1>5, <1>6

(* The tunnel's socket is gone, and with it what was on its way. *)
LEMMA GoneStep ==
  ASSUME EngineInv, SessionInv, NEW q, q = <<>>, s' = [s EXCEPT !.out = q], g' = g,
         user' \in {"no", "yes"}, Tab(b'), b'.sock = "closed", b'.tun = "CLOSED",
         b'.timers = {}, b'.here => b'.page # "hidden"
  PROVE  SessionInv'
<1>1. Sound(b') /\ Asked'
  BY DEF Sound, Asked
<1>2. Mail(q, b'.sock, b'.uuid, s.why)
  BY MailEmpty
<1> QED
  BY <1>1, <1>2, BrowserStep

(* The receive timer *)
LEMMA ReceiveStep ==
  ASSUME EngineInv, SessionInv, ReceiveFires
  PROVE  SessionInv'
<1> DEFINE q == Undelivered(b', s.out)
<1>1. /\ b.timers = {"receive"} /\ b' = CloseTunnel(b, "UPSTREAM_TIMEOUT")
      /\ s' = [s EXCEPT !.out = q] /\ g' = g /\ user' = user
  BY DEF ReceiveFires
<1>2. Tab(b) /\ Sound(b) /\ Link
  BY DEF SessionInv
<1>3. b.tun # "CLOSED" /\ user' \in {"no", "yes"}
  BY <1>1, <1>2 DEF Sound, Link
<1>4. /\ Tab(b') /\ b'.tun = "CLOSED" /\ b'.timers = {} /\ b'.sock = "closed"
      /\ b'.page = "failed"
  BY <1>1, <1>2, <1>3, TunnelCloses
<1>5. q = <<>>
  BY <1>4 DEF Undelivered
<1> HIDE DEF q
<1> QED
  BY <1>1, <1>3, <1>4, <1>5, GoneStep

(* The button *)
LEMMA ClickStep ==
  ASSUME EngineInv, SessionInv, Click
  PROVE  SessionInv'
<1> DEFINE d == Disconnect(b)
           q == Undelivered(b', s.out)
<1>1. /\ b.sock # "none" /\ user' = "yes"
      /\ b' = IF Throws(b) THEN d ELSE [d EXCEPT !.page = "disconnected"]
      /\ s' = [s EXCEPT !.out = q] /\ g' = g
  BY DEF Click
<1>2. Tab(b) /\ Sound(b) /\ Link /\ Mail(s.out, b.sock, b.uuid, s.why)
  BY DEF SessionInv
<1>3. Disconnected(d, b)
  BY <1>2, Disconnecting
<1> HIDE DEF d
<1>4. /\ Tab(b') /\ b'.sock = d.sock /\ b'.tun = d.tun /\ b'.uuid = d.uuid
      /\ b'.timers = d.timers /\ b'.cli = d.cli
      /\ ~Throws(b) => b'.page = "disconnected"
  <2>1. CASE Throws(b)
    BY <1>1, <1>3, <2>1 DEF Disconnected
  <2>2. CASE ~Throws(b)
    <3>1. b' = [d EXCEPT !.page = "disconnected"] /\ "disconnected" \in Pages /\ Tab(d)
      BY <1>1, <1>3, <2>2 DEF Disconnected, Pages
    <3> QED
      BY <3>1, PageSet
  <2> QED
    BY <2>1, <2>2
<1>5. CASE b'.sock = "closed" /\ b.sock # "closed"
  <2>1. q = <<>> /\ b'.tun = "CLOSED" /\ b'.timers = {} /\ ~Throws(b)
    BY <1>3, <1>4, <1>5 DEF Disconnected, Undelivered
  <2> HIDE DEF q
  <2>2. user' \in {"no", "yes"} /\ b'.page # "hidden"
    BY <1>1, <1>4, <2>1
  <2> QED
    BY <1>1, <1>4, <1>5, <2>1, <2>2, GoneStep
<1>6. CASE ~(b'.sock = "closed" /\ b.sock # "closed")
  <2>1. b'.sock = b.sock /\ b'.uuid = b.uuid
    BY <1>3, <1>4, <1>6 DEF Disconnected
  <2>2. Sound(b')
    BY <1>2, <1>3, <1>4, <2>1 DEF Disconnected, Sound
  <2>3. Asked'
    BY <1>2, <1>3, <1>4 DEF Disconnected, Sound, Asked
  <2>4. q = <<>> \/ q = s.out
    BY <2>1 DEF Undelivered
  <2>5. b.sock # "closed" => q = s.out
    BY <2>1 DEF Undelivered
  <2> HIDE DEF q
  <2>6. Mail(q, b'.sock, b'.uuid, s.why)
    BY <1>2, <2>1, <2>4, MailEmpty
  <2>7. b'.tun = "CLOSED" => b'.page # "hidden"
    BY <1>2, <1>4, <2>1, <2>2 DEF Sound, Throws, TunnelConnected
  <2>8. s.pc \in BeforeDial \cup {"record", "accept"} => q = <<>>
    BY <1>2, <2>4 DEF Link
  <2>9. /\ s.pc \in {"request", "dial", "record", "accept"} => b'.sock \in {"connecting", "closed"}
        /\ user' \in {"no", "yes"}
    BY <1>1, <1>2, <2>1 DEF Link
  <2>10. /\ b'.sock # "none"
         /\ b'.sock # "closed" => b.sock # "closed" /\ (Named(s.out, b.uuid) => Named(q, b'.uuid))
    BY <1>1, <2>1, <2>5
  <2> QED
    BY <1>1, <1>4, <2>2, <2>3, <2>6, <2>7, <2>8, <2>9, <2>10, BrowserStep
<1> QED
  BY <1>5, <1>6

(* The page is left. *)
LEMMA HideStep ==
  ASSUME EngineInv, SessionInv, PageHide
  PROVE  SessionInv'
<1> DEFINE d == Disconnect(b)
           c == CloseSocket(d)
           out == c.out
<1>1. /\ b' = [InitBrowser EXCEPT !.here = FALSE, !.sock = "closed", !.out = out]
      /\ s' = [s EXCEPT !.out = <<>>] /\ g' = g /\ user' = user
  BY DEF PageHide
<1>2. Tab(b) /\ user \in {"no", "yes"}
  BY DEF SessionInv, Link
<1>3. Tab(d)
  BY <1>2, Disconnecting DEF Disconnected
<1> HIDE DEF d
<1>4. Tab(c)
  BY <1>3, SocketCloses
<1> HIDE DEF c
<1>5. out \in Seq(Outgoing)
  BY <1>4 DEF Tab
<1> HIDE DEF out
<1>6. b' = [sock |-> "closed", tun |-> "CLOSED", uuid |-> FALSE, timers |-> {}, cli |-> "IDLE",
            keep |-> FALSE, page |-> "connecting", here |-> FALSE, out |-> out]
  BY <1>1 DEF InitBrowser
<1>7. /\ Tab(b') /\ b'.sock = "closed" /\ b'.tun = "CLOSED" /\ b'.timers = {}
      /\ b'.page # "hidden"
  BY <1>5, <1>6 DEF Tab, IsTab, Socks, TunnelStates, ClientStates, Pages
<1> QED
  BY <1>1, <1>2, <1>7, GoneStep

-----------------------------------------------------------------------------
(* A step of the engine: the browser keeps everything but what it has sent. *)
LEMMA EngineStep ==
  ASSUME SessionInv, Posted(b', b), user' = user, Link', g'.buf \in Seq(Ops),
         s.why = "" \/ s'.why = s.why,
         Mail(s'.out, b.sock, b.uuid, s'.why)
  PROVE  SessionInv'
<1>1. Tab(b') /\ Sound(b') /\ Asked'
  BY DEF SessionInv, Posted, Sound, Asked
<1>2. HiddenOnlyWhileOpen'
  BY DEF SessionInv, Posted, HiddenOnlyWhileOpen
<1>3. Mail(s.out, b.sock, b.uuid, s.why)'
  BY DEF Posted
<1> QED
  BY <1>1, <1>2, <1>3 DEF SessionInv

(* What is added to the queue, or left of it when the socket is closed. *)
LEMMA MailSent ==
  ASSUME SessionInv, NEW m \in Control \cup Seq(Ops),
         m = <<"open">> => s.out = <<>> /\ b.sock \in {"connecting", "closed"},
         m = <<"1000">> => s.why \in Good \/ b.sock = "closed",
         m \in Seq(Ops) => Named(s.out, b.uuid) \/ b.sock = "closed",
         NEW out, out = Undelivered(b, Append(s.out, m))
  PROVE  /\ Mail(out, b.sock, b.uuid, s.why)
         /\ b.sock # "closed" /\ (Named(s.out, b.uuid) \/ m = <<"id">>) => Named(out, b.uuid)
<1>1. Mail(s.out, b.sock, b.uuid, s.why) /\ Mail(<<>>, b.sock, b.uuid, s.why)
  BY MailEmpty DEF SessionInv
<1>2. CASE b.sock = "closed"
  BY <1>1, <1>2 DEF Undelivered
<1>3. CASE b.sock # "closed"
  <2>1. out = Append(s.out, m)
    BY <1>3 DEF Undelivered
  <2> QED
    BY <1>1, <1>3, <2>1, MailAppend
<1> QED
  BY <1>2, <1>3

(* The answer to the handshake, when nothing has been sent yet. *)
LEMMA MailAnswered ==
  ASSUME SessionInv, s.out = <<>>, NEW m \in {<<"open">>, <<"refused">>},
         m = <<"open">> => b.sock \in {"connecting", "closed"},
         NEW out, out = Undelivered(b, <<m>>)
  PROVE  Mail(out, b.sock, b.uuid, s.why)
<1>1. Append(<<>>, m) = <<m>>
  OBVIOUS
<1>2. out = Undelivered(b, Append(s.out, m))
  BY <1>1
<1>3. m \in Control /\ m # <<"1000">> /\ m \notin Seq(Ops)
  BY ControlsDiffer DEF Control
<1> QED
  BY <1>2, <1>3, MailSent

(* The three of them that are added to a queue *)
LEMMA ControlsSent ==
  /\ {<<"id">>, <<"abort">>, <<"1000">>} \subseteq Control
  /\ <<"id">> \notin Seq(Ops) /\ <<"id">> # <<"open">> /\ <<"id">> # <<"1000">>
  /\ <<"abort">> \notin Seq(Ops) /\ <<"abort">> # <<"open">> /\ <<"abort">> # <<"1000">>
  /\ <<"1000">> \notin Seq(Ops) /\ <<"1000">> # <<"open">>
<1>1. {<<"id">>, <<"abort">>, <<"1000">>} \subseteq Control
  BY DEF Control
<1>2. "id" # "open" /\ "id" # "1000" /\ "abort" # "open" /\ "abort" # "1000" /\ "1000" # "open"
  OBVIOUS
<1> QED
  BY <1>1, <1>2, ControlsDiffer, Zenon

(* The handler's steps, one by one *)
LEMMA HandlerKeeps ==
  ASSUME EngineInv, SessionInv, Handler
  PROVE  SessionInv'
<1> USE DEF BeforeProxy, BeforeDial
<1>0. /\ Tab(b) /\ Link /\ g.buf \in Seq(Ops) /\ Mail(s.out, b.sock, b.uuid, s.why)
      /\ Fields /\ Progress
  BY DEF SessionInv, EngineInv
<1>a. b' = b => Posted(b', b)
  BY <1>0 DEF Posted
<1>b. ASSUME NEW out, out = Undelivered(b, <<<<"refused">>>>), s.out = <<>>
      PROVE  Mail(out, b.sock, b.uuid, s.why)
  <2>1. <<"refused">> # <<"open">>
    BY ControlsDiffer
  <2> QED
    BY <1>b, <2>1, MailAnswered
<1>1. CASE Refuse
  <2> DEFINE out == Undelivered(b, <<<<"refused">>>>)
  <2>1. /\ s.pc = "request" /\ s' = [s EXCEPT !.pc = "done", !.out = out]
        /\ b' = b /\ g' = g /\ user' = user
    BY <1>1 DEF Refuse, At
  <2>2. s.out = <<>> /\ Mail(out, b.sock, b.uuid, s.why)
    BY <1>0, <1>b, <2>1 DEF Link
  <2> HIDE DEF out
  <2>3. /\ s'.pc = "done" /\ s'.row = s.row /\ s'.why = s.why /\ s'.up = s.up
        /\ s'.down = s.down /\ s'.done = s.done /\ s'.cancelled = s.cancelled
        /\ s'.ws = s.ws /\ s'.out = out
    BY <1>0, <2>1 DEF Fields
  <2>4. Link'
    BY <1>0, <2>1, <2>3 DEF Link, Progress
  <2> QED
    BY <1>0, <1>a, <2>1, <2>2, <2>3, <2>4, EngineStep
<1>2. CASE Admit
  <2>0. PICK t \in auditDetached(s, "requested") : s' = [t EXCEPT !.pc = "dial"]
    BY <1>2 DEF Admit
  <2>1. s.pc = "request" /\ b' = b /\ g' = g /\ user' = user
    BY <1>2 DEF Admit, At
  <2>2. /\ s'.pc = "dial" /\ s'.row = s.row /\ s'.why = s.why /\ s'.up = s.up
        /\ s'.down = s.down /\ s'.done = s.done /\ s'.cancelled = s.cancelled
        /\ s'.ws = s.ws /\ s'.out = s.out
    BY <1>0, <2>0, AuditRecords
  <2>3. Link'
    BY <1>0, <2>1, <2>2 DEF Link
  <2> QED
    BY <1>0, <1>a, <2>1, <2>2, <2>3, EngineStep
<1>3. CASE Dial
  <2>1. s.pc = "dial" /\ b' = b /\ user' = user
    BY <1>3 DEF Dial, At
  <2>2. ASSUME g' = [g EXCEPT !.conn = "open", !.alive = TRUE], s' = [s EXCEPT !.pc = "record"]
        PROVE  SessionInv'
    <3>1. /\ s'.pc = "record" /\ s'.row = s.row /\ s'.why = s.why /\ s'.up = s.up
          /\ s'.down = s.down /\ s'.done = s.done /\ s'.cancelled = s.cancelled
          /\ s'.ws = s.ws /\ s'.out = s.out
      BY <1>0, <2>2 DEF Fields
    <3>2. g'.buf = g.buf
      BY <1>0, <2>2 DEF Fields
    <3>3. Link'
      BY <1>0, <2>1, <3>1 DEF Link
    <3> QED
      BY <1>0, <1>a, <2>1, <3>1, <3>2, <3>3, EngineStep
  <2>3. ASSUME s' = [s EXCEPT !.pc = "done", !.out = Undelivered(b, <<<<"refused">>>>)], g' = g
        PROVE  SessionInv'
    <3> DEFINE out == Undelivered(b, <<<<"refused">>>>)
    <3>1. s' = [s EXCEPT !.pc = "done", !.out = out]
      BY <2>3
    <3>2. s.out = <<>> /\ Mail(out, b.sock, b.uuid, s.why)
      BY <1>0, <1>b, <2>1 DEF Link
    <3> HIDE DEF out
    <3>3. /\ s'.pc = "done" /\ s'.row = s.row /\ s'.why = s.why /\ s'.up = s.up
          /\ s'.down = s.down /\ s'.done = s.done /\ s'.cancelled = s.cancelled
          /\ s'.ws = s.ws /\ s'.out = out
      BY <1>0, <3>1 DEF Fields
    <3>4. Link'
      BY <1>0, <2>1, <3>3 DEF Link, Progress
    <3> QED
      BY <1>0, <1>a, <2>1, <2>3, <3>2, <3>3, <3>4, EngineStep
  <2> QED
    BY <1>3, <2>2, <2>3 DEF Dial
<1>4. CASE StartRACSession
  <2>1. PICK t \in {[s EXCEPT !.row = "open"]} \cup Fails(s, "start") :
           s' = [t EXCEPT !.pc = "accept"]
    BY <1>4 DEF StartRACSession
  <2>2. s.pc = "record" /\ b' = b /\ g' = g /\ user' = user
    BY <1>4 DEF StartRACSession, At
  <2>3. /\ s'.pc = "accept" /\ s'.row \in {"open", s.row} /\ s'.why = s.why /\ s'.up = s.up
        /\ s'.down = s.down /\ s'.done = s.done /\ s'.cancelled = s.cancelled
        /\ s'.ws = s.ws /\ s'.out = s.out
    BY <1>0, <2>1, StartRecords
  <2>4. Link'
    BY <1>0, <2>2, <2>3 DEF Link
  <2> QED
    BY <1>0, <1>a, <2>2, <2>3, <2>4, EngineStep
<1>5. CASE Accept
  <2>1. /\ s.pc = "accept" /\ b' = b /\ g' = g /\ user' = user
        /\ s.out = <<>> /\ b.sock \in {"connecting", "closed"}
        /\ s.down = "stopped" /\ s.done = <<>> /\ ~s.cancelled
    BY <1>0, <1>5 DEF Accept, At, Link, Progress
  <2>2. ASSUME s' = [s EXCEPT !.pc = "hello", !.ws = "open", !.out = Undelivered(b, <<<<"open">>>>)]
        PROVE  SessionInv'
    <3> DEFINE out == Undelivered(b, <<<<"open">>>>)
    <3>1. s' = [s EXCEPT !.pc = "hello", !.ws = "open", !.out = out]
      BY <2>2
    <3>2. Mail(out, b.sock, b.uuid, s.why)
      BY <2>1, MailAnswered
    <3> HIDE DEF out
    <3>3. /\ s'.pc = "hello" /\ s'.row = s.row /\ s'.why = s.why /\ s'.up = s.up
          /\ s'.down = s.down /\ s'.done = s.done /\ s'.cancelled = s.cancelled
          /\ s'.ws = "open" /\ s'.out = out
      BY <1>0, <3>1 DEF Fields
    <3>4. Link'
      BY <1>0, <2>1, <3>3 DEF Link
    <3> QED
      BY <1>0, <1>a, <2>1, <3>2, <3>3, <3>4, EngineStep
  <2>3. ASSUME NEW t \in EndRACSession(s, "upgrade failed"),
               s' = [t EXCEPT !.pc = "release", !.out = Undelivered(b, <<<<"refused">>>>)]
        PROVE  SessionInv'
    <3> DEFINE out == Undelivered(b, <<<<"refused">>>>)
    <3>1. s' = [t EXCEPT !.pc = "release", !.out = out]
      BY <2>3
    <3>2. Mail(out, b.sock, b.uuid, s.why)
      BY <1>b, <2>1
    <3> HIDE DEF out
    <3>3. /\ t = [pc |-> t.pc, row |-> t.row, reason |-> t.reason, why |-> t.why,
                  lost |-> t.lost, trail |-> t.trail, up |-> t.up, down |-> t.down,
                  done |-> t.done, cancelled |-> t.cancelled, ws |-> t.ws, out |-> t.out]
          /\ t.why = s.why /\ t.up = s.up /\ t.down = s.down /\ t.done = s.done
          /\ t.cancelled = s.cancelled /\ t.ws = s.ws /\ t.row \in {s.row, "open", "ended"}
      <4>1. Fields /\ t \in EndRACSession(s, "upgrade failed")
        BY <1>0, <2>3
      <4>2. \/ t.row = s.row
            \/ t.row = "open" \/ t.row = "ended"
        BY <4>1, EndRecords, Zenon
      <4>3. t.row \in {s.row, "open", "ended"}
        BY <4>2
      <4> QED
        BY <4>1, <4>3, EndRecords, Zenon
    <3>4. s' = [pc |-> "release", row |-> t.row, reason |-> t.reason, why |-> t.why,
                lost |-> t.lost, trail |-> t.trail, up |-> t.up, down |-> t.down,
                done |-> t.done, cancelled |-> t.cancelled, ws |-> t.ws, out |-> out]
      BY <3>1, <3>3, Released, Zenon
    <3>5. /\ s'.pc = "release" /\ s'.row = t.row /\ s'.why = s.why /\ s'.up = s.up
          /\ s'.down = s.down /\ s'.done = s.done /\ s'.cancelled = s.cancelled
          /\ s'.ws = s.ws /\ s'.out = out
      BY <3>3, <3>4
    <3>6. Link'
      BY <1>0, <2>1, <3>3, <3>5 DEF Link
    <3> QED
      BY <1>0, <1>a, <2>1, <3>2, <3>5, <3>6, EngineStep
  <2> QED
    BY <1>5, <2>2, <2>3 DEF Accept
<1>6. CASE Hello
  <2>1. /\ s.pc = "hello" /\ b' = b /\ g' = g /\ user' = user
        /\ ~s.cancelled /\ s.why = "" /\ s.done = <<>> /\ s.down = "stopped" /\ b.sock # "none"
    BY <1>0, <1>6 DEF Hello, At, Link, Progress
  <2>2. ASSUME s' = [s EXCEPT !.pc = "proxy", !.out = Undelivered(b, Append(@, <<"id">>)),
                              !.up = "reading", !.down = "reading"]
        PROVE  SessionInv'
    <3> DEFINE out == Undelivered(b, Append(s.out, <<"id">>))
    <3>1. s' = [s EXCEPT !.pc = "proxy", !.out = out, !.up = "reading", !.down = "reading"]
      BY <2>2
    <3>2. /\ Mail(out, b.sock, b.uuid, s.why)
          /\ b.sock # "closed" => Named(out, b.uuid)
      BY ControlsSent, MailSent
    <3> HIDE DEF out
    <3>3. /\ s'.pc = "proxy" /\ s'.row = s.row /\ s'.why = s.why /\ s'.up = "reading"
          /\ s'.down = "reading" /\ s'.done = s.done /\ s'.cancelled = s.cancelled
          /\ s'.ws = s.ws /\ s'.out = out
      BY <1>0, <3>1 DEF Fields
    <3>4. Link'
      BY <1>0, <2>1, <3>2, <3>3 DEF Link
    <3> QED
      BY <1>0, <1>a, <2>1, <3>2, <3>3, <3>4, EngineStep
  <2>3. ASSUME CanFail, s' = [s EXCEPT !.pc = "end", !.cancelled = TRUE,
                              !.why = "client went away before the session started"]
        PROVE  SessionInv'
    <3>1. /\ s'.pc = "end" /\ s'.row = s.row
          /\ s'.why = "client went away before the session started" /\ s'.up = s.up
          /\ s'.down = s.down /\ s'.done = s.done /\ s'.cancelled = TRUE /\ s'.ws = s.ws
          /\ s'.out = s.out
      BY <1>0, <2>3 DEF Fields
    <3>2. s.ws # "open" \/ b.sock = "closed"
      BY <2>1, <2>3 DEF CanFail
    <3>3. Mail(s'.out, b.sock, b.uuid, s'.why)
      BY <1>0, <2>1, <3>1, MailWhy
    <3>4. Link'
      BY <1>0, <2>1, <3>1, <3>2 DEF Link
    <3> QED
      BY <1>0, <1>a, <2>1, <3>1, <3>3, <3>4, EngineStep
  <2> QED
    BY <1>6, <2>2, <2>3 DEF Hello
<1>7. CASE Returned
  <2> DEFINE torn == s.up = "reading" /\ s.ws = "open"
             ws == IF torn THEN "broken" ELSE s.ws
             out == IF torn THEN Undelivered(b, Append(s.out, <<"abort">>)) ELSE s.out
  <2>1. /\ s.pc = "proxy" /\ s.done # <<>> /\ b' = b /\ g' = g /\ user' = user
        /\ s' = [s EXCEPT !.pc = "end", !.cancelled = TRUE, !.why = Head(s.done),
                          !.ws = ws, !.out = out]
    BY <1>7 DEF Returned, At
  <2>2. s.why = "" /\ b.sock # "none"
    BY <1>0, <2>1 DEF Progress, Link
  <2>3. Mail(out, b.sock, b.uuid, s.why)
    BY <1>0, ControlsSent, MailSent
  <2>4. ws \in {"broken", s.ws} /\ (ws = "open" => s.ws = "open" /\ out = s.out)
    OBVIOUS
  <2> HIDE DEF ws, out
  <2>5. /\ s'.pc = "end" /\ s'.row = s.row /\ s'.why = Head(s.done) /\ s'.up = s.up
        /\ s'.down = s.down /\ s'.done = s.done /\ s'.cancelled = TRUE /\ s'.ws = ws
        /\ s'.out = out
    BY <1>0, <2>1 DEF Fields
  <2>6. Mail(s'.out, b.sock, b.uuid, s'.why)
    BY <2>2, <2>3, <2>5, MailWhy
  <2>7. Link'
    BY <1>0, <2>1, <2>2, <2>4, <2>5 DEF Link
  <2> QED
    BY <1>0, <1>a, <2>1, <2>2, <2>6, <2>7, EngineStep
<1>8. CASE EndRecord
  <2>1. PICK t \in EndRACSession(s, s.why) : s' = [t EXCEPT !.pc = "audit"]
    BY <1>8 DEF EndRecord
  <2>2. s.pc = "end" /\ b' = b /\ g' = g /\ user' = user /\ b.sock # "none"
    BY <1>0, <1>8 DEF EndRecord, At, Link
  <2>3. /\ t = [pc |-> t.pc, row |-> t.row, reason |-> t.reason, why |-> t.why,
                lost |-> t.lost, trail |-> t.trail, up |-> t.up, down |-> t.down,
                done |-> t.done, cancelled |-> t.cancelled, ws |-> t.ws, out |-> t.out]
        /\ t.why = s.why /\ t.up = s.up /\ t.down = s.down /\ t.done = s.done
        /\ t.cancelled = s.cancelled /\ t.ws = s.ws /\ t.out = s.out
        /\ t.row \in {s.row, "open", "ended"}
    BY <1>0, <2>1, EndRecords
  <2>4. /\ s'.pc = "audit" /\ s'.row = t.row /\ s'.why = s.why /\ s'.up = s.up
        /\ s'.down = s.down /\ s'.done = s.done /\ s'.cancelled = s.cancelled
        /\ s'.ws = s.ws /\ s'.out = s.out
    BY <2>1, <2>3
  <2>5. Link'
    BY <1>0, <2>2, <2>3, <2>4 DEF Link
  <2> QED
    BY <1>0, <1>a, <2>2, <2>4, <2>5, EngineStep
<1>9. CASE AuditEnd
  <2>0. PICK t \in auditDetached(s, "ended") : s' = [t EXCEPT !.pc = "close"]
    BY <1>9 DEF AuditEnd
  <2>1. s.pc = "audit" /\ b' = b /\ g' = g /\ user' = user
    BY <1>9 DEF AuditEnd, At
  <2>2. /\ s'.pc = "close" /\ s'.row = s.row /\ s'.why = s.why /\ s'.up = s.up
        /\ s'.down = s.down /\ s'.done = s.done /\ s'.cancelled = s.cancelled
        /\ s'.ws = s.ws /\ s'.out = s.out
    BY <1>0, <2>0, AuditRecords
  <2>3. Link'
    BY <1>0, <2>1, <2>2 DEF Link
  <2> QED
    BY <1>0, <1>a, <2>1, <2>2, <2>3, EngineStep
<1>10. CASE CloseWebSocket
  <2> DEFINE out == IF s.ws = "open" THEN Undelivered(b, Append(s.out, <<"1000">>)) ELSE s.out
  <2>1. /\ s.pc = "close" /\ b' = b /\ g' = g /\ user' = user
        /\ s' = [s EXCEPT !.pc = "release", !.ws = "broken", !.out = out]
    BY <1>10 DEF CloseWebSocket, At
  <2>2. s.ws = "open" => s.why \in Good \/ b.sock = "closed"
    BY <1>0, <2>1 DEF Link
  <2>3. Mail(out, b.sock, b.uuid, s.why)
    BY <1>0, <2>2, ControlsSent, MailSent
  <2> HIDE DEF out
  <2>4. /\ s'.pc = "release" /\ s'.row = s.row /\ s'.why = s.why /\ s'.up = s.up
        /\ s'.down = s.down /\ s'.done = s.done /\ s'.cancelled = s.cancelled
        /\ s'.ws = "broken" /\ s'.out = out
    BY <1>0, <2>1 DEF Fields
  <2>5. Link'
    BY <1>0, <2>1, <2>4 DEF Link
  <2> QED
    BY <1>0, <1>a, <2>1, <2>3, <2>4, <2>5, EngineStep
<1>11. CASE Release
  <2>1. /\ s.pc = "release" /\ s' = [s EXCEPT !.pc = "done"]
        /\ g' = [g EXCEPT !.conn = "closed", !.alive = FALSE] /\ b' = b /\ user' = user
    BY <1>11 DEF Release, At
  <2>2. /\ s'.pc = "done" /\ s'.row = s.row /\ s'.why = s.why /\ s'.up = s.up
        /\ s'.down = s.down /\ s'.done = s.done /\ s'.cancelled = s.cancelled
        /\ s'.ws = s.ws /\ s'.out = s.out
    BY <1>0, <2>1 DEF Fields
  <2>3. g'.buf = g.buf
    BY <1>0, <2>1 DEF Fields
  <2>4. Link'
    BY <1>0, <2>1, <2>2 DEF Link
  <2> QED
    BY <1>0, <1>a, <2>1, <2>2, <2>3, <2>4, EngineStep
<1> QED
  BY <1>1, <1>2, <1>3, <1>4, <1>5, <1>6, <1>7, <1>8, <1>9, <1>10, <1>11 DEF Handler

(* The goroutines *)
LEMMA GoroutinesKeep ==
  ASSUME EngineInv, SessionInv, Up \/ Down
  PROVE  SessionInv'
<1> USE DEF BeforeProxy, BeforeDial
<1>0. /\ Tab(b) /\ Link /\ g.buf \in Seq(Ops) /\ Mail(s.out, b.sock, b.uuid, s.why)
      /\ Fields /\ Progress
  BY DEF SessionInv, EngineInv
<1>a. b' = b => Posted(b', b)
  BY <1>0 DEF Posted
(* A goroutine reports: if it is the first, guacd has ended the session, or  *)
(* the WebSocket is of no use any more.                                      *)
<1>b. ASSUME Posted(b', b), user' = user, g'.buf \in Seq(Ops), NEW why \in Reasons,
             s.up # "stopped" \/ s.down # "stopped",
             s'.pc = s.pc, s'.row = s.row, s'.why = s.why, s'.cancelled = s.cancelled,
             s'.out = s.out, s'.done = Append(s.done, why),
             s'.up \in {s.up, "stopped"}, s'.down \in {s.down, "stopped"},
             s'.ws \in {s.ws, "broken"},
             s.pc = "proxy" /\ s'.ws = "open" /\ b.sock # "closed" => why \in Good
      PROVE  SessionInv'
  <2>1. s.done # <<>> => Head(s'.done) = Head(s.done)
    <3>1. \A q \in Seq(Reasons) : q # <<>> => Head(Append(q, why)) = Head(q)
      OBVIOUS
    <3> QED
      BY <1>0, <1>b, <3>1 DEF Progress
  <2>2. s.done = <<>> => Head(s'.done) = why
    BY <1>b
  <2>3. b'.sock = b.sock /\ b'.uuid = b.uuid
    BY <1>b DEF Posted
  <2>4. s'.ws = "open" => s.ws = "open"
    BY <1>b
  <2>5. s'.down = "reading" => s.down = "reading"
    BY <1>b
  <2>6. s.ws = "open" /\ b.sock # "closed" /\ s.pc = "proxy" /\ s.done # <<>>
          => Head(s.done) \in Good
    BY <1>0 DEF Link
  <2>7. s'.pc = "proxy" /\ s'.ws = "open" /\ b'.sock # "closed" => Head(s'.done) \in Good
    BY <1>b, <2>1, <2>2, <2>3, <2>4, <2>6
  <2>8. s.pc \notin BeforeProxy
    BY <1>0, <1>b DEF Progress
  <2>9. Link'
    BY <1>0, <1>b, <2>3, <2>4, <2>5, <2>7, <2>8 DEF Link
  <2> QED
    BY <1>0, <1>b, <2>9, EngineStep
(* It goes on. *)
<1>c. ASSUME Posted(b', b), user' = user, g'.buf \in Seq(Ops),
             NEW m \in {"reading", "input", "disconnect"}, s' = [s EXCEPT !.up = m]
      PROVE  SessionInv'
  <2>1. /\ s'.pc = s.pc /\ s'.row = s.row /\ s'.why = s.why /\ s'.up = m
        /\ s'.down = s.down /\ s'.done = s.done /\ s'.cancelled = s.cancelled
        /\ s'.ws = s.ws /\ s'.out = s.out
    BY <1>0, <1>c DEF Fields
  <2>2. Link'
    BY <1>0, <1>c, <2>1 DEF Link, Posted
  <2> QED
    BY <1>0, <1>c, <2>1, <2>2, EngineStep
<1>1. CASE UpRead
  <2> DEFINE m == Head(b.out)
  <2>1. /\ s.up = "reading" /\ b.out # <<>> /\ b' = [b EXCEPT !.out = Tail(b.out)]
        /\ g' = g /\ user' = user
    BY <1>1 DEF UpRead
  <2>2. m \in Outgoing /\ Tail(b.out) \in Seq(Outgoing)
    BY <1>0, <2>1 DEF Tab
  <2>3. Posted(b', b)
    BY <1>0, <2>1, <2>2, OutSet
  <2>4. CASE m \in {"close", "abort"}
    <3> DEFINE why == reasonFor(CloseStatus(m), "client disconnected")
    <3>1. s' = [s EXCEPT !.up = "stopped", !.ws = "broken", !.done = Append(s.done, why)]
      BY <1>1, <2>4, Zenon DEF UpRead
    <3>2. why \in Reasons
      BY DEF reasonFor, Reasons
    <3> HIDE DEF why
    <3>3. /\ s'.pc = s.pc /\ s'.row = s.row /\ s'.why = s.why /\ s'.up = "stopped"
          /\ s'.down = s.down /\ s'.done = Append(s.done, why)
          /\ s'.cancelled = s.cancelled /\ s'.ws = "broken" /\ s'.out = s.out
      BY <1>0, <3>1 DEF Fields
    <3> QED
      BY <1>0, <1>b, <2>1, <2>3, <3>2, <3>3
  <2>5. CASE m \notin {"close", "abort"}
    <3>1. s' = [s EXCEPT !.up = m] /\ m \in {"reading", "input", "disconnect"}
      BY <1>1, <2>2, <2>5 DEF UpRead, Outgoing
    <3> HIDE DEF m
    <3> QED
      BY <1>0, <1>c, <2>1, <2>3, <3>1
  <2> QED
    BY <2>4, <2>5
<1>2. CASE UpWrite
  <2>1. s.up # "stopped" /\ b' = b /\ user' = user
    BY <1>2 DEF UpWrite
  <2>2. ASSUME s' = [s EXCEPT !.up = "reading"],
               g' = [g EXCEPT !.alive = @ /\ s.up # "disconnect"]
        PROVE  SessionInv'
    <3>1. g'.buf = g.buf
      BY <1>0, <2>2 DEF Fields
    <3> QED
      BY <1>0, <1>a, <1>c, <2>1, <2>2, <3>1
  <2>3. ASSUME s' = [s EXCEPT !.up = "stopped", !.done = Append(@, "guacd stopped reading")],
               g' = g
        PROVE  SessionInv'
    <3>1. /\ s'.pc = s.pc /\ s'.row = s.row /\ s'.why = s.why /\ s'.up = "stopped"
          /\ s'.down = s.down /\ s'.done = Append(s.done, "guacd stopped reading")
          /\ s'.cancelled = s.cancelled /\ s'.ws = s.ws /\ s'.out = s.out
      BY <1>0, <2>3 DEF Fields
    <3>2. "guacd stopped reading" \in Reasons \cap Good
      BY DEF Reasons, Good
    <3> QED
      BY <1>0, <1>a, <1>b, <2>1, <2>3, <3>1, <3>2
  <2> QED
    BY <1>2, <2>2, <2>3 DEF UpWrite
<1>3. CASE UpCancelled
  <2>1. /\ s.up # "stopped" /\ s.cancelled /\ b' = b /\ g' = g /\ user' = user
        /\ s' = [s EXCEPT !.up = "stopped", !.done = Append(@, "client disconnected")]
    BY <1>3 DEF UpCancelled
  <2>2. /\ s'.pc = s.pc /\ s'.row = s.row /\ s'.why = s.why /\ s'.up = "stopped"
        /\ s'.down = s.down /\ s'.done = Append(s.done, "client disconnected")
        /\ s'.cancelled = s.cancelled /\ s'.ws = s.ws /\ s'.out = s.out
    BY <1>0, <2>1 DEF Fields
  <2>3. "client disconnected" \in Reasons /\ s.pc # "proxy"
    BY <1>0, <2>1 DEF Reasons, Link
  <2> QED
    BY <1>0, <1>a, <1>b, <2>1, <2>2, <2>3
<1>4. CASE DownCopy
  <2>1. PICK n \in 1..Len(g.buf) :
          /\ g' = [g EXCEPT !.buf = SubSeq(@, n + 1, Len(@))]
          /\ \/ /\ CanWrite
                /\ s' = [s EXCEPT !.out = Undelivered(b, Append(@, SubSeq(g.buf, 1, n)))]
             \/ /\ CanFail
                /\ s' = [s EXCEPT !.down = "stopped",
                                  !.done = Append(@, "client stopped reading")]
    BY <1>4 DEF DownCopy
  <2>2. s.down = "reading" /\ b' = b /\ user' = user
    BY <1>4 DEF DownCopy
  <2> DEFINE m == SubSeq(g.buf, 1, n)
  <2>3. g'.buf \in Seq(Ops) /\ m \in Seq(Ops)
    <3>1. \A q \in Seq(Ops) : \A k \in 1..Len(q) :
             SubSeq(q, k + 1, Len(q)) \in Seq(Ops) /\ SubSeq(q, 1, k) \in Seq(Ops)
      OBVIOUS
    <3>2. g'.buf = SubSeq(g.buf, n + 1, Len(g.buf))
      BY <1>0, <2>1 DEF Fields
    <3> QED
      BY <1>0, <3>1, <3>2
  <2>4. ASSUME CanWrite, s' = [s EXCEPT !.out = Undelivered(b, Append(@, SubSeq(g.buf, 1, n)))]
        PROVE  SessionInv'
    <3> DEFINE out == Undelivered(b, Append(s.out, m))
    <3>1. s' = [s EXCEPT !.out = out] /\ s.ws = "open"
      BY <2>4 DEF CanWrite
    <3> HIDE DEF m
    <3>2. Named(s.out, b.uuid) \/ b.sock = "closed"
      BY <1>0, <2>2, <3>1 DEF Link
    <3>3. m # <<"open">> /\ m # <<"1000">>
      BY <2>3, ControlsDiffer DEF Control
    <3>4. /\ Mail(out, b.sock, b.uuid, s.why)
          /\ b.sock # "closed" => Named(out, b.uuid)
      BY <2>3, <3>2, <3>3, MailSent
    <3> HIDE DEF out
    <3>5. /\ s'.pc = s.pc /\ s'.row = s.row /\ s'.why = s.why /\ s'.up = s.up
          /\ s'.down = s.down /\ s'.done = s.done /\ s'.cancelled = s.cancelled
          /\ s'.ws = s.ws /\ s'.out = out
      BY <1>0, <3>1 DEF Fields
    <3>6. s.pc \notin BeforeProxy
      BY <1>0, <2>2 DEF Progress
    <3>7. Link'
      BY <1>0, <2>2, <3>4, <3>5, <3>6 DEF Link
    <3> QED
      BY <1>0, <1>a, <2>2, <2>3, <3>4, <3>5, <3>7, EngineStep
  <2>5. ASSUME CanFail, s' = [s EXCEPT !.down = "stopped",
                                       !.done = Append(@, "client stopped reading")]
        PROVE  SessionInv'
    <3>1. /\ s'.pc = s.pc /\ s'.row = s.row /\ s'.why = s.why /\ s'.up = s.up
          /\ s'.down = "stopped" /\ s'.done = Append(s.done, "client stopped reading")
          /\ s'.cancelled = s.cancelled /\ s'.ws = s.ws /\ s'.out = s.out
      BY <1>0, <2>5 DEF Fields
    <3>2. "client stopped reading" \in Reasons
      BY DEF Reasons
    <3>3. s.pc = "proxy" /\ s.ws = "open" => b.sock = "closed"
      BY <1>0, <2>5 DEF CanFail, Link
    <3> QED
      BY <1>0, <1>a, <1>b, <2>2, <2>3, <3>1, <3>2, <3>3
  <2> QED
    BY <2>1, <2>4, <2>5
<1>5. CASE DownEnds
  <2>1. PICK why \in {"remote session ended", "guacd disconnected"} :
          s' = [s EXCEPT !.down = "stopped", !.done = Append(@, why)]
    BY <1>5 DEF DownEnds
  <2>2. s.down # "stopped" /\ b' = b /\ g' = g /\ user' = user
    BY <1>5 DEF DownEnds
  <2>3. why \in Reasons /\ why \in Good
    BY DEF Reasons, Good
  <2>4. /\ s'.pc = s.pc /\ s'.row = s.row /\ s'.why = s.why /\ s'.up = s.up
        /\ s'.down = "stopped" /\ s'.done = Append(s.done, why)
        /\ s'.cancelled = s.cancelled /\ s'.ws = s.ws /\ s'.out = s.out
    BY <1>0, <2>1 DEF Fields
  <2> QED
    BY <1>0, <1>a, <1>b, <2>2, <2>3, <2>4
<1> QED
  BY <1>1, <1>2, <1>3, <1>4, <1>5 DEF Up, Down

(* guacd by itself, the network, and the end of the process. *)
LEMMA OthersKeep ==
  ASSUME EngineInv, SessionInv,
         (\E burst \in Bursts : GuacdSends(burst)) \/ GuacdEnds \/ NetworkLost \/ Crash
  PROVE  SessionInv'
<1> USE DEF BeforeProxy, BeforeDial
<1>0. /\ Tab(b) /\ Link /\ g.buf \in Seq(Ops) /\ Mail(s.out, b.sock, b.uuid, s.why)
      /\ Fields /\ Progress
  BY DEF SessionInv, EngineInv
<1>a. b' = b => Posted(b', b)
  BY <1>0 DEF Posted
<1>1. ASSUME g'.buf \in Seq(Ops), b' = b, s' = s, user' = user
      PROVE  SessionInv'
  <2>1. Link'
    BY <1>0, <1>1 DEF Link
  <2> QED
    BY <1>0, <1>a, <1>1, <2>1, EngineStep
<1>2. ASSUME NEW burst \in Bursts, GuacdSends(burst)
      PROVE  SessionInv'
  <2>1. g'.buf = g.buf \o burst /\ burst \in Seq(Ops)
    BY <1>0, <1>2, BurstsAssumption DEF GuacdSends, Fields, Ops
  <2>2. g'.buf \in Seq(Ops)
    BY <1>0, <2>1
  <2> QED
    BY <1>1, <1>2, <2>2 DEF GuacdSends
<1>3. CASE GuacdEnds
  <2>1. g'.buf = g.buf
    BY <1>0, <1>3 DEF GuacdEnds, Fields
  <2> QED
    BY <1>0, <1>1, <1>3, <2>1 DEF GuacdEnds
<1>4. CASE NetworkLost
  <2>1. /\ s.ws = "open" /\ b.sock = "open" /\ b' = [b EXCEPT !.out = <<"abort">>]
        /\ s' = [s EXCEPT !.ws = "broken", !.out = <<<<"abort">>>>] /\ g' = g /\ user' = user
    BY <1>4 DEF NetworkLost
  <2>2. Posted(b', b)
    <3>1. <<"abort">> \in Seq(Outgoing)
      BY DEF Outgoing
    <3> QED
      BY <1>0, <2>1, <3>1, OutSet
  <2> DEFINE out == <<<<"abort">>>>
  <2>3. Mail(out, b.sock, b.uuid, s.why)
    <3>1. out = Append(<<>>, <<"abort">>)
      OBVIOUS
    <3> HIDE DEF out
    <3> QED
      BY <3>1, ControlsSent, MailEmpty, MailAppend
  <2>4. s' = [s EXCEPT !.ws = "broken", !.out = out]
    BY <2>1
  <2> HIDE DEF out
  <2>5. /\ s'.pc = s.pc /\ s'.row = s.row /\ s'.why = s.why /\ s'.up = s.up
        /\ s'.down = s.down /\ s'.done = s.done /\ s'.cancelled = s.cancelled
        /\ s'.ws = "broken" /\ s'.out = out
    BY <1>0, <2>4 DEF Fields
  <2>6. s.pc \notin BeforeDial \cup {"record", "accept"}
    BY <1>0, <2>1 DEF Link
  <2>7. Link'
    BY <1>0, <2>1, <2>2, <2>5, <2>6 DEF Link, Posted
  <2> QED
    BY <1>0, <2>1, <2>2, <2>3, <2>5, <2>7, EngineStep
<1>5. CASE Crash
  <2> DEFINE out == Undelivered(b, Append(s.out, <<"abort">>))
  <2>1. /\ s.pc \notin {"idle", "done", "crashed"} /\ b' = b /\ user' = user
        /\ s' = [s EXCEPT !.pc = "crashed", !.ws = "broken", !.up = "stopped",
                          !.down = "stopped", !.out = out]
        /\ g' = IF g.conn = "none" THEN g ELSE [g EXCEPT !.conn = "closed", !.alive = FALSE]
    BY <1>5 DEF Crash
  <2>2. Mail(out, b.sock, b.uuid, s.why)
    BY ControlsSent, MailSent
  <2> HIDE DEF out
  <2>3. /\ s'.pc = "crashed" /\ s'.row = s.row /\ s'.why = s.why /\ s'.up = "stopped"
        /\ s'.down = "stopped" /\ s'.done = s.done /\ s'.cancelled = s.cancelled
        /\ s'.ws = "broken" /\ s'.out = out
    BY <1>0, <2>1 DEF Fields
  <2>4. g'.buf = g.buf
    BY <1>0, <2>1 DEF Fields
  <2>5. Link'
    BY <1>0, <2>1, <2>3 DEF Link
  <2> QED
    BY <1>0, <1>a, <2>1, <2>2, <2>3, <2>4, <2>5, EngineStep
<1> QED
  BY <1>2, <1>3, <1>4, <1>5

(* Both invariants, of every reachable state. *)
LEMMA SessionInvariant == Spec => [](EngineInv /\ SessionInv)
<1>1. EngineInv /\ SessionInv /\ [Next]_vars => SessionInv'
  <2> SUFFICES ASSUME EngineInv, SessionInv, [Next]_vars
               PROVE  SessionInv'
    OBVIOUS
  <2>1. CASE UNCHANGED vars
    <3>1. b' = b /\ s' = s /\ g' = g /\ user' = user
      BY <2>1 DEF vars
    <3>2. Asked' /\ HiddenOnlyWhileOpen'
      BY <3>1 DEF SessionInv, Asked, HiddenOnlyWhileOpen
    <3>3. Link'
      BY <3>1 DEF SessionInv, Link
    <3> QED
      BY <3>1, <3>2, <3>3 DEF SessionInv
  <2>2. CASE Delivery
    BY <2>2, OpensStep, MessageStep, ClosedStep DEF Delivery
  <2> QED
    BY <2>1, <2>2, LoadStep, TimerStep, ReceiveStep, ClickStep, HideStep, HandlerKeeps,
       GoroutinesKeep, OthersKeep DEF Next
<1> QED
  BY <1>1, SessionStarts, EngineInvariant, PTL DEF Spec

(* Every field of the browser's, the engine's and guacd's state has its type *)
(* after any sequence of events (Client.setState, Tunnel.setState, the       *)
(* goroutines of Proxy), and neither goroutine reports twice.                *)
THEOREM TypeCorrect == Spec => []TypeOK
<1>1. EngineInv /\ SessionInv => TypeOK
  <2> SUFFICES ASSUME EngineInv, SessionInv PROVE TypeOK
    OBVIOUS
  <2>1. ChannelHasRoom
    BY RoomForAll
  <2> QED
    BY <2>1 DEF EngineInv, Progress, SessionInv, Tab, Link, TypeOK, Socks, Pages, Timers
<1> QED
  BY <1>1, SessionInvariant, PTL

(* A tunnel whose socket is gone stays closed, whatever is left of the       *)
(* message being handled: nothing reopens it in socket.onmessage, because    *)
(* Proxy sends the tunnel's name before anything that guacd sends.  Once the *)
(* user has asked to disconnect it is closed, unless send threw.             *)
THEOREM ClosedTunnelStaysClosed == Spec => []ClosedStaysClosed
<1>1. SessionInv => ClosedStaysClosed
  BY DEF SessionInv, Sound, Asked, ClosedStaysClosed
<1> QED
  BY <1>1, SessionInvariant, PTL

(* A page whose tunnel is closed has its status line hidden only if guacd     *)
(* ended the session: close_tunnel shows every end but a regular one, and    *)
(* the handler closes regularly (ws.Close) only when the first goroutine to  *)
(* stop did so because of guacd.                                             *)
THEOREM StatusLineShown == Spec => []HiddenOnlyWhileOpen
<1>1. SessionInv => HiddenOnlyWhileOpen
  BY DEF SessionInv
<1> QED
  BY <1>1, SessionInvariant, PTL
=============================================================================
