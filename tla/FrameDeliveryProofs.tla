------------------------ MODULE FrameDeliveryProofs ------------------------
(***************************************************************************)
(* The frames of Networking: the invariant that relates the bytes of each  *)
(* connection to the frames that were sent, what it says of the frames     *)
(* that arrive, and that Networking implements FrameLinks.                 *)
(***************************************************************************)
EXTENDS NetworkingProofs

-----------------------------------------------------------------------------
(* The frames: what the bytes of each connection carry. *)

FrameInv ==
  \A c \in Conn :
    /\ DownOK(conn[c], tx[c], txBuf[c], down[c], hostSent[c], delivered[c])
    /\ UpOK(rx[c], rxBuf[c], up[c], appSent[c])

(* There are no connections but those that runNetworking has made. *)
MadeInv == \A c \in Conn : c > cur => conn[c] = "none"

(* What is known of the sequences of one connection. *)
LEMMA BytesType ==
  ASSUME TypeOK, NEW c \in Conn
  PROVE  down[c] \in Seq(Byte) /\ up[c] \in Seq(Byte)
BY Zenon DEF TypeOK

LEMMA MadeStep ==
  ASSUME ControlOK, TypeOK, MadeInv, [Next]_vars
  PROVE  MadeInv'
<1>1. conn \in [Conn -> {"none", "open", "cut", "closed"}] /\ cur \in Nat
  BY BoundsAssumption DEF TypeOK
<1>2. CASE Dial
  BY <1>1, <1>2 DEF Dial, MadeInv, Conn
<1>3. CASE UNCHANGED <<conn, cur>>
  BY <1>3 DEF MadeInv
<1>4. CASE cur > 0 /\ cur' = cur /\ CloseAll(cur)
  BY <1>1, <1>4 DEF CloseAll, MadeInv
<1>5. ASSUME NEW c \in Conn, Cut(c) PROVE MadeInv'
  <2>1. conn[c] = "open" /\ cur' = cur /\ conn' = [conn EXCEPT ![c] = "cut"]
    BY <1>5 DEF Cut
  <2> QED
    BY <1>1, <2>1 DEF MadeInv
<1>6. CASE SetupFails \/ SelectErr \/ SelectStop
  BY <1>3, <1>4, <1>6 DEF SetupFails, SelectErr, SelectStop, ControlOK
<1>7. CASE CreateTap \/ Configure \/ Retry \/ Stop \/ UNCHANGED vars
  BY <1>3, <1>7 DEF CreateTap, Configure, Retry, Stop, vars, runVars
<1>8. ASSUME NEW c \in Conn, Tx(c) \/ Rx(c) \/ TapFails(c) PROVE MadeInv'
  BY <1>3, <1>8, Zenon DEF Tx, Rx, TxHeader, TxPayload, TxReadFails, TxWrite, TxReports,
     RxReadFails, RxWrite, RxReports, TapFails, runVars
<1>9. ASSUME NEW c \in Conn, NEW f, RxRead(c, f) \/ HostSends(c, f) PROVE MadeInv'
  BY <1>3, <1>9, Zenon DEF RxRead, HostSends, runVars
<1> QED
  BY <1>2, <1>5, <1>6, <1>7, <1>8, <1>9, Zenon DEF Next, Setup

(* runNetworking only makes and closes connections and starts goroutines. *)
LEMMA RunFrames ==
  ASSUME IInv, TypeOK, MadeInv, FrameInv,
         \/ Dial \/ CreateTap \/ Configure \/ SetupFails \/ SelectErr \/ SelectStop
         \/ Retry \/ Stop
  PROVE  FrameInv'
<1> SUFFICES ASSUME NEW c \in Conn
             PROVE  /\ DownOK(conn[c], tx[c], txBuf[c], down[c], hostSent[c], delivered[c])'
                    /\ UpOK(rx[c], rxBuf[c], up[c], appSent[c])'
  BY DEF FrameInv
<1>1. /\ DownOK(conn[c], tx[c], txBuf[c], down[c], hostSent[c], delivered[c])
      /\ UpOK(rx[c], rxBuf[c], up[c], appSent[c])
  BY DEF FrameInv
<1>2. UNCHANGED <<txBuf, down, hostSent, delivered, rxBuf, up, appSent>>
  BY Zenon DEF Dial, CreateTap, Configure, SetupFails, SelectErr, SelectStop, Retry, Stop,
     txVars, rxVars
<1>3. conn'[c] \in {"none", "open"} => conn[c] \in {"none", "open"}
  <2>1. conn \in [Conn -> {"none", "open", "cut", "closed"}]
    BY DEF TypeOK
  <2>2. \/ Dial
        \/ UNCHANGED conn
        \/ conn' = [conn EXCEPT ![cur] = "closed"]
    BY DEF CreateTap, Configure, SetupFails, SelectErr, SelectStop, Retry, Stop, CloseAll
  <2>3. CASE Dial
    <3>1. cur + 1 > cur /\ cur + 1 \in Conn /\ conn' = [conn EXCEPT ![cur + 1] = "open"]
      BY <2>3, BoundsAssumption DEF Dial, TypeOK, Conn
    <3> QED
      BY <2>1, <3>1 DEF MadeInv
  <2> QED
    BY <2>1, <2>2, <2>3
<1>4. \/ tx'[c] = tx[c] /\ rx'[c] = rx[c]
      \/ tx[c] = "none" /\ tx'[c] = "header" /\ rx[c] = "none" /\ rx'[c] = "read"
  <2>1. CASE Configure
    <3>1. /\ run = "configure"
          /\ tx' = [tx EXCEPT ![cur] = "header"] /\ rx' = [rx EXCEPT ![cur] = "read"]
      BY <2>1 DEF Configure
    <3>2. c = cur => tx[c] = "none" /\ rx[c] = "none"
      BY <3>1 DEF IInv, SpawnInv
    <3> QED
      BY <3>1, <3>2 DEF IInv, ControlOK
  <2>2. CASE UNCHANGED <<tx, rx>>
    BY <2>2
  <2> QED
    BY <2>1, <2>2, Zenon DEF Dial, CreateTap, SetupFails, SelectErr, SelectStop, Retry, Stop,
       txVars, rxVars
<1>5. DownOK(conn'[c], tx[c], txBuf[c], down[c], hostSent[c], delivered[c])
  BY <1>1, <1>3, DownConn
<1>6. CASE tx'[c] = tx[c] /\ rx'[c] = rx[c]
  BY <1>1, <1>2, <1>5, <1>6
<1>7. CASE tx[c] = "none" /\ tx'[c] = "header" /\ rx[c] = "none" /\ rx'[c] = "read"
  <2>1. DownOK(conn'[c], "header", txBuf[c], down[c], hostSent[c], delivered[c])
    BY <1>5, <1>7, DownStarts, Zenon
  <2>2. UpOK("read", rxBuf[c], up[c], appSent[c])
    BY <1>1, <1>7, UpMoves, Zenon
  <2> QED
    BY <1>2, <1>7, <2>1, <2>2
<1> QED
  BY <1>4, <1>6, <1>7

(* A step of one goroutine leaves the others alone. *)
LEMMA TxOnly ==
  ASSUME FrameInv, NEW c \in Conn, UNCHANGED <<conn, hostSent, rxVars>>,
         \A d \in Conn \ {c} : /\ tx'[d] = tx[d] /\ txBuf'[d] = txBuf[d]
                               /\ down'[d] = down[d] /\ delivered'[d] = delivered[d],
         DownOK(conn[c], tx'[c], txBuf'[c], down'[c], hostSent[c], delivered'[c])
  PROVE  FrameInv'
<1> SUFFICES ASSUME NEW d \in Conn
             PROVE  /\ DownOK(conn[d], tx[d], txBuf[d], down[d], hostSent[d], delivered[d])'
                    /\ UpOK(rx[d], rxBuf[d], up[d], appSent[d])'
  BY DEF FrameInv
<1>1. /\ DownOK(conn[d], tx[d], txBuf[d], down[d], hostSent[d], delivered[d])
      /\ UpOK(rx[d], rxBuf[d], up[d], appSent[d])
  BY DEF FrameInv
<1>2. CASE d = c
  BY <1>1, <1>2 DEF rxVars
<1>3. CASE d # c
  BY <1>1, <1>3 DEF rxVars
<1> QED
  BY <1>2, <1>3, ZenonT(30)

LEMMA RxOnly ==
  ASSUME FrameInv, NEW c \in Conn, UNCHANGED <<conn, txVars>>,
         \A d \in Conn \ {c} : /\ rx'[d] = rx[d] /\ rxBuf'[d] = rxBuf[d]
                               /\ up'[d] = up[d] /\ appSent'[d] = appSent[d],
         UpOK(rx'[c], rxBuf'[c], up'[c], appSent'[c])
  PROVE  FrameInv'
<1> SUFFICES ASSUME NEW d \in Conn
             PROVE  /\ DownOK(conn[d], tx[d], txBuf[d], down[d], hostSent[d], delivered[d])'
                    /\ UpOK(rx[d], rxBuf[d], up[d], appSent[d])'
  BY DEF FrameInv
<1>1. /\ DownOK(conn[d], tx[d], txBuf[d], down[d], hostSent[d], delivered[d])
      /\ UpOK(rx[d], rxBuf[d], up[d], appSent[d])
  BY ZenonT(30) DEF FrameInv
<1>2. CASE d = c
  BY <1>1, <1>2 DEF txVars
<1>3. CASE d # c
  BY <1>1, <1>3 DEF txVars
<1> QED
  BY <1>2, <1>3

LEMMA TxFrames ==
  ASSUME TypeOK, FrameInv, NEW c \in Conn, Tx(c)
  PROVE  FrameInv'
<1> DEFINE cn == conn[c]
           sent == hostSent[c]
           got == delivered[c]
           bytes == down[c]
<1>1. bytes \in Seq(Byte) /\ DownOK(cn, tx[c], txBuf[c], bytes, sent, got)
  BY BytesType DEF FrameInv
<1>2. /\ tx \in [Conn -> {"none", "header", "payload", "write", "failed", "done"}]
      /\ txBuf \in [Conn -> Seq(Byte)] /\ down \in [Conn -> Seq(Byte)]
      /\ delivered \in [Conn -> Seq(Seq(Byte))]
  BY Zenon DEF TypeOK
<1>3. CASE TxHeader(c)
  <2>1. /\ tx[c] = "header" /\ tx' = [tx EXCEPT ![c] = "payload"]
        /\ 2 <= Len(bytes)
        /\ txBuf' = [txBuf EXCEPT ![c] = SubSeq(bytes, 1, 2)]
        /\ down' = [down EXCEPT ![c] = SubSeq(bytes, 2 + 1, Len(bytes))]
        /\ UNCHANGED <<conn, hostSent, delivered, rxVars>>
    BY <1>1, <1>3, Zenon DEF TxHeader, ReadFull, TxGoes, frameSizeLen, runVars
  <2>2. DownOK(cn, "payload", SubSeq(bytes, 1, 2), SubSeq(bytes, 2 + 1, Len(bytes)), sent, got)
    BY <1>1, <2>1, DownHeader
  <2> HIDE DEF cn, sent, got, bytes
  <2>3. DownOK(cn, tx'[c], txBuf'[c], down'[c], sent, delivered'[c])
    BY <1>2, <2>1, <2>2 DEF got
  <2>4. \A d \in Conn \ {c} : /\ tx'[d] = tx[d] /\ txBuf'[d] = txBuf[d]
                              /\ down'[d] = down[d] /\ delivered'[d] = delivered[d]
    BY <1>2, <2>1
  <2> QED
    BY <2>1, <2>3, <2>4, TxOnly DEF cn, sent
<1>4. CASE TxPayload(c)
  <2> DEFINE l == Uint16(txBuf[c])
             next == IF l = 0 THEN "failed" ELSE "write"
  <2>1. /\ tx[c] = "payload" /\ tx' = [tx EXCEPT ![c] = next]
        /\ l <= Len(bytes)
        /\ txBuf' = [txBuf EXCEPT ![c] = SubSeq(bytes, 1, l)]
        /\ down' = [down EXCEPT ![c] = SubSeq(bytes, l + 1, Len(bytes))]
        /\ UNCHANGED <<conn, hostSent, delivered, rxVars>>
    <3>1. tx[c] = "payload" /\ ReadFull(c, l) /\ TxGoes(c, next)
          /\ UNCHANGED <<conn, hostSent, delivered, rxVars>>
      BY <1>4 DEF TxPayload, runVars
    <3>2. l \in Int
      <4>1. \E at : Upcoming(cn, "payload", txBuf[c], bytes, sent, Len(got), at)
        BY <1>1, <3>1, Zenon DEF DownOK
      <4>2. /\ sent \in Seq(Wire) /\ Len(got) \in 0 .. Len(sent)
            /\ Len(got) < Len(sent) /\ txBuf[c] = PutUint16(Len(sent[Len(got) + 1]))
        BY <1>1, <4>1 DEF DownOK, Upcoming
      <4>3. Len(got) + 1 \in 1 .. Len(sent)
        BY <4>2
      <4>4. sent[Len(got) + 1] \in Wire
        BY <4>2, <4>3
      <4>5. Len(sent[Len(got) + 1]) \in 0 .. frameLen
        BY <4>4, EncodedType, Zenon
      <4> QED
        BY <4>2, <4>5, HeaderRoundTrip, HeaderLimit
    <3> QED
      BY <1>1, <3>1, <3>2 DEF ReadFull, TxGoes
  <2>2. DownOK(cn, "write", SubSeq(bytes, 1, l), SubSeq(bytes, l + 1, Len(bytes)), sent, got)
    BY <1>1, <2>1, DownPayload
  <2> HIDE DEF cn, sent, got, bytes, l
  <2>3. DownOK(cn, next, SubSeq(bytes, 1, l), SubSeq(bytes, l + 1, Len(bytes)), sent, got)
    <3>1. DownOK(cn, "failed", SubSeq(bytes, 1, l), SubSeq(bytes, l + 1, Len(bytes)), sent, got)
      BY <2>2, DownFails
    <3>2. next = "failed" \/ next = "write"
      OBVIOUS
    <3> QED
      BY <2>2, <3>1, <3>2
  <2> HIDE DEF next
  <2>4. DownOK(cn, tx'[c], txBuf'[c], down'[c], sent, delivered'[c])
    BY <1>2, <2>1, <2>3 DEF got
  <2>5. \A d \in Conn \ {c} : /\ tx'[d] = tx[d] /\ txBuf'[d] = txBuf[d]
                              /\ down'[d] = down[d] /\ delivered'[d] = delivered[d]
    BY <1>2, <2>1
  <2> QED
    BY <2>1, <2>4, <2>5, TxOnly, SMTT(30) DEF cn, sent
<1>5. CASE TxWrite(c) /\ tap[c] = "open"
  <2>1. /\ tx[c] = "write" /\ tx' = [tx EXCEPT ![c] = "header"]
        /\ delivered' = [delivered EXCEPT ![c] = Append(got, txBuf[c])]
        /\ UNCHANGED <<conn, txBuf, down, hostSent, rxVars>>
    BY <1>5 DEF TxWrite, TxGoes, runVars
  <2>2. DownOK(cn, "header", txBuf[c], bytes, sent, Append(got, txBuf[c]))
    BY <1>1, <2>1, DownWrite
  <2> HIDE DEF cn, sent, got
  <2>3. DownOK(cn, tx'[c], txBuf'[c], down'[c], sent, delivered'[c])
    BY <1>2, <2>1, <2>2
  <2>4. \A d \in Conn \ {c} : /\ tx'[d] = tx[d] /\ txBuf'[d] = txBuf[d]
                              /\ down'[d] = down[d] /\ delivered'[d] = delivered[d]
    BY <1>2, <2>1
  <2> QED
    BY <2>1, <2>3, <2>4, TxOnly DEF cn, sent
<1>6. CASE TxReadFails(c) \/ TxReports(c) \/ (TxWrite(c) /\ tap[c] # "open")
  <2>1. /\ tx' = [tx EXCEPT ![c] = "failed"] \/ tx' = [tx EXCEPT ![c] = "done"]
        /\ UNCHANGED <<conn, txBuf, down, hostSent, delivered, rxVars>>
    BY <1>6, Zenon DEF TxReadFails, TxReports, TxWrite, TxGoes, runVars
  <2>2. /\ DownOK(cn, "failed", txBuf[c], bytes, sent, got)
        /\ DownOK(cn, "done", txBuf[c], bytes, sent, got)
    BY <1>1, DownFails
  <2>3. DownOK(cn, tx'[c], txBuf'[c], down'[c], sent, delivered'[c])
    BY <1>2, <2>1, <2>2
  <2>4. \A d \in Conn \ {c} : /\ tx'[d] = tx[d] /\ txBuf'[d] = txBuf[d]
                              /\ down'[d] = down[d] /\ delivered'[d] = delivered[d]
    BY <1>2, <2>1
  <2> QED
    BY <2>1, <2>3, <2>4, TxOnly
<1> QED
  BY <1>3, <1>4, <1>5, <1>6 DEF Tx

LEMMA RxFrames ==
  ASSUME TypeOK, FrameInv, NEW c \in Conn, Rx(c) \/ \E f \in Frame : RxRead(c, f)
  PROVE  FrameInv'
<1> DEFINE buf == rxBuf[c]
           sent == appSent[c]
           bytes == up[c]
<1>1. bytes \in Seq(Byte) /\ UpOK(rx[c], buf, bytes, sent)
  BY BytesType DEF FrameInv
<1>2. /\ rx \in [Conn -> {"none", "read", "write", "failed", "done"}]
      /\ rxBuf \in [Conn -> Seq(Byte)] /\ up \in [Conn -> Seq(Byte)]
      /\ appSent \in [Conn -> Seq(Seq(Byte))]
  BY Zenon DEF TypeOK
<1>3. ASSUME NEW f \in Frame, RxRead(c, f) PROVE FrameInv'
  <2>1. /\ rx[c] = "read" /\ rx' = [rx EXCEPT ![c] = "write"]
        /\ rxBuf' = [rxBuf EXCEPT ![c] = f]
        /\ appSent' = [appSent EXCEPT ![c] = Append(sent, f)]
        /\ UNCHANGED <<conn, txVars, up>>
    BY <1>3 DEF RxRead, RxGoes, runVars
  <2>2. UpOK("write", f, bytes, Append(sent, f))
    BY <1>1, <2>1, FrameWire, UpReads, Zenon
  <2> HIDE DEF sent
  <2>3. UpOK(rx'[c], rxBuf'[c], up'[c], appSent'[c])
    BY <1>2, <2>1, <2>2
  <2>4. \A d \in Conn \ {c} : /\ rx'[d] = rx[d] /\ rxBuf'[d] = rxBuf[d]
                              /\ up'[d] = up[d] /\ appSent'[d] = appSent[d]
    BY <1>2, <2>1
  <2> QED
    BY <2>1, <2>3, <2>4, RxOnly
<1>4. CASE RxWrite(c)
  <2> DEFINE e == Encoded(buf)
  <2>1. rx[c] = "write" /\ UNCHANGED <<conn, txVars, rxBuf, appSent>>
    BY <1>4, Zenon DEF RxWrite, runVars
  <2>2. PICK more : /\ up' = [up EXCEPT ![c] = more]
                    /\ \/ more = bytes \o e /\ rx' = [rx EXCEPT ![c] = "read"]
                       \/ /\ \/ more = bytes
                             \/ \E k \in 0 .. Len(e) - 1 : more = bytes \o SubSeq(e, 1, k)
                          /\ rx' = [rx EXCEPT ![c] = "failed"]
    <3>1. CASE RxGoes(c, "read") /\ up' = [up EXCEPT ![c] = @ \o e]
      BY <3>1, Zenon DEF RxGoes
    <3>2. CASE RxGoes(c, "failed") /\ UNCHANGED up
      <4>1. up' = [up EXCEPT ![c] = bytes]
        BY <1>2, <3>2
      <4> QED
        BY <3>2, <4>1, Zenon DEF RxGoes
    <3>3. ASSUME NEW k \in 0 .. Len(e) - 1,
                 RxGoes(c, "failed") /\ up' = [up EXCEPT ![c] = @ \o SubSeq(e, 1, k)]
          PROVE  \E more : /\ up' = [up EXCEPT ![c] = more]
                           /\ \E j \in 0 .. Len(e) - 1 : more = bytes \o SubSeq(e, 1, j)
                           /\ rx' = [rx EXCEPT ![c] = "failed"]
      BY <3>3, Zenon DEF RxGoes
    <3> QED
      BY <1>4, <3>1, <3>2, <3>3, Zenon DEF RxWrite, Encoded
  <2>3. UpOK(rx'[c], buf, more, sent)
    <3>1. CASE more = bytes \o e /\ rx' = [rx EXCEPT ![c] = "read"]
      <4>1. UpOK("read", buf, bytes \o e, sent)
        BY <1>1, <2>1, UpWrites
      <4> QED
        BY <1>2, <3>1, <4>1
    <3>2. CASE more = bytes /\ rx' = [rx EXCEPT ![c] = "failed"]
      <4>1. UpOK("failed", buf, bytes, sent)
        BY <1>1, UpMoves
      <4> QED
        BY <1>2, <3>2, <4>1
    <3>3. ASSUME NEW k \in 0 .. Len(e) - 1, more = bytes \o SubSeq(e, 1, k),
                 rx' = [rx EXCEPT ![c] = "failed"]
          PROVE  UpOK(rx'[c], buf, more, sent)
      <4>1. UpOK("failed", buf, bytes \o SubSeq(e, 1, k), sent)
        BY <1>1, <2>1, UpWrites, Zenon
      <4> QED
        BY <1>2, <3>3, <4>1
    <3> QED
      BY <2>2, <3>1, <3>2, <3>3, Zenon
  <2>4. UpOK(rx'[c], rxBuf'[c], up'[c], appSent'[c])
    BY <1>2, <2>1, <2>2, <2>3
  <2>5. \A d \in Conn \ {c} : /\ rx'[d] = rx[d] /\ rxBuf'[d] = rxBuf[d]
                              /\ up'[d] = up[d] /\ appSent'[d] = appSent[d]
    BY <1>2, <2>1, <2>2
  <2> QED
    BY <2>1, <2>4, <2>5, RxOnly
<1>5. CASE RxReadFails(c) \/ RxReports(c)
  <2>1. /\ rx' = [rx EXCEPT ![c] = "failed"] \/ rx' = [rx EXCEPT ![c] = "done"]
        /\ UNCHANGED <<conn, txVars, rxBuf, up, appSent>>
    BY <1>5, Zenon DEF RxReadFails, RxReports, RxGoes, runVars
  <2>2. UpOK("failed", buf, bytes, sent) /\ UpOK("done", buf, bytes, sent)
    BY <1>1, UpMoves
  <2>3. UpOK(rx'[c], rxBuf'[c], up'[c], appSent'[c])
    BY <1>2, <2>1, <2>2
  <2>4. \A d \in Conn \ {c} : /\ rx'[d] = rx[d] /\ rxBuf'[d] = rxBuf[d]
                              /\ up'[d] = up[d] /\ appSent'[d] = appSent[d]
    BY <1>2, <2>1
  <2> QED
    BY <2>1, <2>3, <2>4, RxOnly
<1> QED
  BY <1>3, <1>4, <1>5 DEF Rx

LEMMA HostFrames ==
  ASSUME TypeOK, FrameInv, NEW c \in Conn,
         \/ Cut(c) \/ TapFails(c)
         \/ \E f \in Frame \cup {<<>>} : HostSends(c, f)
  PROVE  FrameInv'
<1> DEFINE sent == hostSent[c]
           got == delivered[c]
           bytes == down[c]
           buf == txBuf[c]
<1>1. /\ bytes \in Seq(Byte) /\ DownOK(conn[c], tx[c], buf, bytes, sent, got)
      /\ UpOK(rx[c], rxBuf[c], up[c], appSent[c])
  BY BytesType DEF FrameInv
<1>2. /\ conn \in [Conn -> {"none", "open", "cut", "closed"}]
      /\ tx \in [Conn -> {"none", "header", "payload", "write", "failed", "done"}]
      /\ rx \in [Conn -> {"none", "read", "write", "failed", "done"}]
      /\ down \in [Conn -> Seq(Byte)] /\ hostSent \in [Conn -> Seq(Seq(Byte))]
  BY Zenon DEF TypeOK
<1>3. ASSUME UNCHANGED <<tx, txBuf, delivered, rxVars>>,
             \A d \in Conn \ {c} : /\ conn'[d] = conn[d] /\ down'[d] = down[d]
                                   /\ hostSent'[d] = hostSent[d],
             DownOK(conn'[c], tx[c], buf, down'[c], hostSent'[c], got)
      PROVE  FrameInv'
  <2> SUFFICES ASSUME NEW d \in Conn
               PROVE  /\ DownOK(conn[d], tx[d], txBuf[d], down[d], hostSent[d], delivered[d])'
                      /\ UpOK(rx[d], rxBuf[d], up[d], appSent[d])'
    BY Zenon DEF FrameInv
  <2>1. /\ DownOK(conn[d], tx[d], txBuf[d], down[d], hostSent[d], delivered[d])
        /\ UpOK(rx[d], rxBuf[d], up[d], appSent[d])
    BY Zenon DEF FrameInv
  <2>2. CASE d = c
    BY <1>3, <2>1, <2>2, ZenonT(30) DEF rxVars
  <2>3. CASE d # c
    <3>1. /\ UNCHANGED <<tx, txBuf, delivered, rx, rxBuf, up, appSent>>
          /\ conn'[d] = conn[d] /\ down'[d] = down[d] /\ hostSent'[d] = hostSent[d]
      BY <1>3, <2>3, ZenonT(30) DEF rxVars
    <3> QED
      BY <2>1, <3>1, Zenon
  <2> QED
    BY <2>2, <2>3, ZenonT(30)
<1>4. CASE Cut(c)
  <2>1. /\ conn' = [conn EXCEPT ![c] = "cut"]
        /\ UNCHANGED <<tx, txBuf, hostSent, delivered, rxVars>>
    BY <1>4 DEF Cut
  <2>2. PICK k \in 0 .. Len(bytes) : down' = [down EXCEPT ![c] = SubSeq(bytes, 1, k)]
    BY <1>4, Zenon DEF Cut
  <2>3. DownOK("cut", tx[c], buf, SubSeq(bytes, 1, k), sent, got)
    BY <1>1, DownCut, Zenon
  <2> HIDE DEF bytes, buf, got
  <2>4. DownOK(conn'[c], tx[c], buf, down'[c], hostSent'[c], got)
    BY <1>2, <2>1, <2>2, <2>3
  <2>5. \A d \in Conn \ {c} : /\ conn'[d] = conn[d] /\ down'[d] = down[d]
                              /\ hostSent'[d] = hostSent[d]
    BY <1>2, <2>1, <2>2, SMTT(30)
  <2> QED
    BY <1>3, <2>1, <2>4, <2>5
<1>5. ASSUME NEW f \in Frame \cup {<<>>}, HostSends(c, f) PROVE FrameInv'
  <2> DEFINE h == <<Len(f) % Base, Len(f) \div Base>>
  <2>1. /\ conn[c] = "open"
        /\ hostSent' = [hostSent EXCEPT ![c] = Append(sent, f)]
        /\ down' = [down EXCEPT ![c] = bytes \o h \o f]
        /\ UNCHANGED <<conn, tx, txBuf, delivered, rxVars>>
    BY <1>5 DEF HostSends, runVars
  <2>2. f \in Wire /\ Encoded(f) = h \o f /\ f \in Seq(Byte) /\ h \in Seq(Byte)
    BY FrameWire, FrameType, Zenon
  <2> HIDE DEF h
  <2>3. bytes \o h \o f = bytes \o Encoded(f)
    <3> HIDE DEF bytes
    <3>1. bytes \in Seq(Byte)
      BY <1>1
    <3>2. bytes \o h \o f = bytes \o (h \o f)
      BY <2>2, <3>1, JoinedAssociative, Zenon
    <3> QED
      BY <2>2, <3>2, Zenon
  <2>4. DownOK("open", tx[c], buf, bytes \o Encoded(f), Append(sent, f), got)
    BY <1>1, <2>1, <2>2, DownSends, Zenon
  <2> HIDE DEF bytes, buf, got, sent
  <2>5. DownOK(conn'[c], tx[c], buf, down'[c], hostSent'[c], got)
    BY <1>2, <2>1, <2>3, <2>4
  <2>6. \A d \in Conn \ {c} : /\ conn'[d] = conn[d] /\ down'[d] = down[d]
                              /\ hostSent'[d] = hostSent[d]
    BY <1>2, <2>1
  <2> QED
    BY <1>3, <2>1, <2>5, <2>6
<1>6. CASE TapFails(c)
  <2>1. UNCHANGED <<conn, txBuf, down, hostSent, delivered, rxBuf, up, appSent>>
    BY <1>6, SMTT(30) DEF TapFails, runVars
  <2>2. CASE tx' = [tx EXCEPT ![c] = "failed"] /\ UNCHANGED rx
    <3>1. DownOK(conn[c], "failed", buf, bytes, sent, got)
      BY <1>1, DownFails, ZenonT(30)
    <3>2. DownOK(conn[c], tx'[c], txBuf'[c], down'[c], hostSent[c], delivered'[c])
      BY <1>2, <2>1, <2>2, <3>1
    <3>3. \A d \in Conn \ {c} : /\ tx'[d] = tx[d] /\ txBuf'[d] = txBuf[d]
                                /\ down'[d] = down[d] /\ delivered'[d] = delivered[d]
      BY <1>2, <2>1, <2>2, SMTT(30)
    <3> QED
      BY <2>1, <2>2, <3>2, <3>3, TxOnly DEF rxVars
  <2>3. CASE rx' = [rx EXCEPT ![c] = "failed"] /\ UNCHANGED tx
    <3>1. UpOK("failed", rxBuf[c], up[c], appSent[c])
      BY <1>1, UpMoves, ZenonT(30)
    <3>2. UpOK(rx'[c], rxBuf'[c], up'[c], appSent'[c])
      BY <1>2, <2>1, <2>3, <3>1
    <3>3. \A d \in Conn \ {c} : /\ rx'[d] = rx[d] /\ rxBuf'[d] = rxBuf[d]
                                /\ up'[d] = up[d] /\ appSent'[d] = appSent[d]
      BY <1>2, <2>1, <2>3, Zenon
    <3> QED
      BY <2>1, <2>3, <3>2, <3>3, RxOnly DEF txVars
  <2> QED
    BY <1>6, <2>2, <2>3, SMTT(30) DEF TapFails, TxGoes, RxGoes
<1> QED
  BY <1>4, <1>5, <1>6

(* Nothing has been sent. *)
LEMMA InitFrames == Init => MadeInv /\ FrameInv
<1> SUFFICES ASSUME Init PROVE MadeInv /\ FrameInv
  OBVIOUS
<1>1. MadeInv
  BY DEF Init, MadeInv
<1> DEFINE at == [i \in 1 .. 1 |-> 1]
<1>2. Carries(<<>>, <<>>, at) /\ at[1] = 1 /\ <<>> \in Seq(Wire)
  BY DEF Carries, Positions
<1> HIDE DEF at
<1>3. DownOK("none", "none", <<>>, <<>>, <<>>, <<>>)
  <2>1. Upcoming("none", "none", <<>>, <<>>, <<>>, 0, at)
    BY <1>2 DEF Upcoming
  <2> QED
    BY <1>2, <2>1 DEF DownOK
<1>4. UpOK("none", <<>>, <<>>, <<>>)
  <2>1. Written("none", <<>>, <<>>, <<>>, at)
    BY <1>2 DEF Written
  <2> QED
    BY <1>2, <2>1 DEF UpOK
<1> QED
  BY <1>1, <1>3, <1>4 DEF Init, FrameInv

LEMMA NextFrames ==
  ASSUME IInv, TypeOK, MadeInv, FrameInv, [Next]_vars
  PROVE  FrameInv'
<1>1. CASE UNCHANGED vars
  BY <1>1, Zenon DEF vars, runVars, txVars, rxVars, FrameInv
<1>2. CASE Setup \/ SetupFails \/ Stop
  BY <1>2, RunFrames DEF Setup
<1>3. CASE \E c \in Conn : Tx(c) \/ Rx(c) \/ Cut(c) \/ TapFails(c)
  BY <1>3, TxFrames, RxFrames, HostFrames
<1>4. CASE \E c \in Conn, f \in Frame : RxRead(c, f)
  BY <1>4, RxFrames
<1>5. CASE \E c \in Conn, f \in Frame \cup {<<>>} : HostSends(c, f)
  BY <1>5, HostFrames
<1> QED
  BY <1>1, <1>2, <1>3, <1>4, <1>5 DEF Next

(* What the invariant says of the frames. *)
LEMMA FramesDelivered ==
  ASSUME TypeOK, FrameInv
  PROVE  FramesIntact
<1> SUFFICES ASSUME NEW c \in Conn
    PROVE  /\ \E k \in 0 .. Len(hostSent[c]) : delivered[c] = SubSeq(hostSent[c], 1, k)
           /\ \E k \in 0 .. Len(appSent[c]) : Decoded(up[c]) = SubSeq(appSent[c], 1, k)
           /\ tx[c] = "header" /\ conn[c] = "open" /\ down[c] = <<>> =>
                delivered[c] = hostSent[c]
           /\ rx[c] = "read" => Decoded(up[c]) = appSent[c]
  BY DEF FramesIntact
<1> DEFINE sent == hostSent[c]
           got == delivered[c]
<1>1. /\ down[c] \in Seq(Byte) /\ up[c] \in Seq(Byte)
      /\ DownOK(conn[c], tx[c], txBuf[c], down[c], sent, got)
      /\ UpOK(rx[c], rxBuf[c], up[c], appSent[c])
  BY BytesType DEF FrameInv
<1>2. sent \in Seq(Wire) /\ Len(got) \in 0 .. Len(sent) /\ got = SubSeq(sent, 1, Len(got))
  BY <1>1 DEF DownOK
<1>3. ASSUME tx[c] = "header", conn[c] = "open", down[c] = <<>>
      PROVE  got = sent
  <2> HIDE DEF got, sent
  <2>1. PICK at : Upcoming("open", "header", txBuf[c], <<>>, sent, Len(got), at)
    BY <1>1, <1>3 DEF DownOK
  <2>2. /\ Carries(<<>>, sent, at) /\ <<>> \in Seq(Byte)
        /\ at[Len(sent) + 1] = 1 /\ at[Len(got) + 1] = 1
    BY <2>1 DEF Upcoming
  <2>3. /\ \A i \in 1 .. Len(sent) + 1 : at[i] \in Int
        /\ \A i, k \in 1 .. Len(sent) + 1 : i < k => at[i] + 2 <= at[k]
    BY <1>2, <2>2, PositionsType, Zenon
  <2>4. Len(got) = Len(sent)
    <3> SUFFICES ASSUME Len(got) < Len(sent) PROVE FALSE
      BY <1>2
    <3>1. /\ Len(got) + 1 \in 1 .. Len(sent) + 1 /\ Len(sent) + 1 \in 1 .. Len(sent) + 1
          /\ Len(got) + 1 < Len(sent) + 1
      BY <1>2
    <3>2. at[Len(got) + 1] + 2 <= at[Len(sent) + 1]
      BY <2>3, <3>1, SMTT(30)
    <3> QED
      BY <2>2, <3>2
  <2> QED
    BY <1>2, <2>4, WholeFrames
<1>4. PICK at : Written(rx[c], rxBuf[c], up[c], appSent[c], at)
  BY <1>1, ZenonT(30) DEF UpOK
<1>5. appSent[c] \in Seq(Wire) /\ Carries(up[c], appSent[c], at) /\ at[1] = 1
  BY <1>1, <1>4, Zenon DEF UpOK, Written
<1>6. PICK m \in 0 .. Len(appSent[c]) :
        /\ Decoded(up[c]) = SubSeq(appSent[c], 1, m)
        /\ at[Len(appSent[c]) + 1] = Len(up[c]) + 1 => m = Len(appSent[c])
  BY <1>1, <1>5, DecodedCarried, Zenon
<1>7. ASSUME rx[c] = "read" PROVE Decoded(up[c]) = appSent[c]
  <2>1. m = Len(appSent[c])
    BY <1>4, <1>6, <1>7 DEF Written
  <2> QED
    BY <1>5, <1>6, <2>1, WholeFrames
<1> QED
  BY <1>2, <1>3, <1>6, <1>7

(***************************************************************************)
(* tx delivers exactly the host's frames and the host can decode exactly   *)
(* the frames that rx read, in order and without gaps, as far as they got: *)
(* for every size of a byte, every length of a frame that fits the header, *)
(* and wherever a connection is cut.                                       *)
(***************************************************************************)
THEOREM FramesArriveIntact == Spec => []FramesIntact
<1>1. Init => MadeInv /\ FrameInv
  BY InitFrames
<1>2. IInv /\ TypeOK /\ MadeInv /\ FrameInv /\ [Next]_vars => MadeInv' /\ FrameInv'
  BY MadeStep, NextFrames DEF IInv
<1>3. TypeOK /\ FrameInv => FramesIntact
  BY FramesDelivered
<1> QED
  BY <1>1, <1>2, <1>3, Invariance, TypeCorrectness, PTL DEF Spec
-----------------------------------------------------------------------------
(* Networking implements FrameLinks. *)

(* Only the current connection is there, and its TAP device with it. *)
LinkInv ==
  \A c \in Conn :
    /\ Connected(c) <=> c = cur /\ run \in {"tap", "configure", "select"}
    /\ tap[c] = "open" <=> c = cur /\ run \in {"configure", "select"}

LEMMA LinkStep ==
  ASSUME ControlOK, TypeOK, LinkInv, [Next]_vars
  PROVE  LinkInv'
<1>1. /\ conn \in [Conn -> {"none", "open", "cut", "closed"}]
      /\ tap \in [Conn -> {"none", "open", "closed"}] /\ cur \in Nat
  BY BoundsAssumption, SMTT(30) DEF TypeOK
<1>2. CASE Dial
  BY <1>1, <1>2 DEF Dial, LinkInv, Connected, Conn
<1>3. CASE UNCHANGED <<conn, tap, cur, run>>
  BY <1>3 DEF LinkInv, Connected
<1>4. ASSUME run \in {"tap", "configure", "select"}, run' \in {"sleep", "returned"},
             cur' = cur, CloseAll(cur)
      PROVE  LinkInv'
  BY <1>1, <1>4 DEF CloseAll, LinkInv, Connected
<1>5. ASSUME NEW c \in Conn, Cut(c) PROVE LinkInv'
  BY <1>1, <1>5 DEF Cut, LinkInv, Connected
<1>6. CASE SetupFails
  <2>1. CASE run = "dial" /\ UNCHANGED <<conn, tap>>
    BY <1>6, <2>1 DEF SetupFails, LinkInv, Connected
  <2> QED
    BY <1>4, <1>6, <2>1 DEF SetupFails
<1>7. CASE SelectErr \/ SelectStop
  BY <1>4, <1>7 DEF SelectErr, SelectStop
<1>8. CASE CreateTap
  BY <1>1, <1>8 DEF CreateTap, LinkInv, Connected
<1>9. CASE Configure \/ Retry
  BY <1>9 DEF Configure, Retry, LinkInv, Connected
<1>10. CASE Stop \/ UNCHANGED vars
  BY <1>3, <1>10 DEF Stop, vars, runVars
<1>11. ASSUME NEW c \in Conn, Tx(c) \/ Rx(c) \/ TapFails(c) PROVE LinkInv'
  BY <1>3, <1>11, Zenon DEF Tx, Rx, TxHeader, TxPayload, TxReadFails, TxWrite, TxReports,
     RxReadFails, RxWrite, RxReports, TapFails, runVars
<1>12. ASSUME NEW c \in Conn, NEW f, RxRead(c, f) \/ HostSends(c, f) PROVE LinkInv'
  BY <1>3, <1>12, Zenon DEF RxRead, HostSends, runVars
<1> QED
  BY <1>2, <1>5, <1>6, <1>7, <1>8, <1>9, <1>10, <1>11, <1>12, ZenonT(30) DEF Next, Setup

(* The links are those of the connections, and Cut does not end one. *)
LEMMA LinkKept ==
  /\ UNCHANGED conn => UNCHANGED Link
  /\ UNCHANGED up => UNCHANGED Forwarded
<1>1. ASSUME UNCHANGED conn PROVE UNCHANGED Link
  BY <1>1, Zenon DEF Link, Connected
<1>2. ASSUME UNCHANGED up PROVE UNCHANGED Forwarded
  BY <1>2, Zenon DEF Forwarded
<1> QED
  BY <1>1, <1>2

LEMMA LinkOpen ==
  ASSUME TypeOK, LinkInv, NEW c \in Conn, conn[c] \in {"open", "cut"} \/ tap[c] = "open"
  PROVE  Link[c] = "open"
BY DEF LinkInv, Link, Connected

(* runNetworking opens a link when there is no other one, and closes it. *)
LEMMA RunLinks ==
  ASSUME ControlOK, TypeOK, MadeInv, LinkInv,
         \/ Dial \/ CreateTap \/ Configure \/ SetupFails \/ SelectErr \/ SelectStop
         \/ Retry \/ Stop
  PROVE  [Links!Next]_Links!vars
<1>1. /\ conn \in [Conn -> {"none", "open", "cut", "closed"}] /\ cur \in Nat
      /\ Link = [c \in Conn |-> IF conn[c] \in {"open", "cut"} THEN "open" ELSE conn[c]]
      /\ Link' = [c \in Conn |-> IF conn'[c] \in {"open", "cut"} THEN "open" ELSE conn'[c]]
  BY BoundsAssumption DEF TypeOK, Link, Connected
<1>2. UNCHANGED <<hostSent, delivered, appSent, Forwarded>>
  <2>1. UNCHANGED <<hostSent, delivered, appSent, up>>
    BY Zenon DEF Dial, CreateTap, Configure, SetupFails, SelectErr, SelectStop, Retry, Stop,
       txVars, rxVars
  <2> QED
    BY <2>1, LinkKept, Zenon
<1>3. CASE Dial
  <2>1. /\ cur + 1 \in Conn /\ cur + 1 > cur /\ run = "dial"
        /\ conn' = [conn EXCEPT ![cur + 1] = "open"]
    BY <1>1, <1>3, BoundsAssumption DEF Dial, Conn
  <2>2. Link[cur + 1] = "none" /\ \A d \in Conn : Link[d] # "open"
    BY <1>1, <2>1 DEF MadeInv, LinkInv, Connected
  <2>3. Link' = [Link EXCEPT ![cur + 1] = "open"]
    BY <1>1, <2>1
  <2>4. Links!Open(cur + 1)
    BY <1>2, <2>2, <2>3 DEF Links!Open
  <2> QED
    BY <2>1, <2>4 DEF Links!Next
<1>4. ASSUME run \in {"tap", "configure", "select"}, CloseAll(cur)
      PROVE  Links!Next
  <2>1. cur \in Conn /\ conn' = [conn EXCEPT ![cur] = "closed"]
    BY <1>4, BoundsAssumption DEF CloseAll, ControlOK, Conn
  <2>2. Link[cur] = "open"
    BY <1>4, <2>1, LinkOpen DEF LinkInv, Connected
  <2>3. Link' = [Link EXCEPT ![cur] = "closed"]
    BY <1>1, <2>1, Zenon
  <2>4. Links!Close(cur)
    BY <1>2, <2>2, <2>3 DEF Links!Close
  <2> QED
    BY <2>1, <2>4 DEF Links!Next
<1>5. CASE UNCHANGED conn
  BY <1>2, <1>5, LinkKept DEF Links!vars
<1> QED
  BY <1>3, <1>4, <1>5, SMTT(30) DEF CreateTap, Configure, SetupFails, SelectErr, SelectStop,
     Retry, Stop

(* tx delivers the next frame, as long as there is a TAP device. *)
LEMMA TxLinks ==
  ASSUME TypeOK, FrameInv, LinkInv, NEW c \in Conn, Tx(c)
  PROVE  [Links!Next]_Links!vars
<1>1. UNCHANGED <<Link, hostSent, appSent, Forwarded>>
  <2>1. UNCHANGED <<conn, hostSent, appSent, up>>
    BY Zenon DEF Tx, TxHeader, TxPayload, TxReadFails, TxWrite, TxReports, runVars, rxVars
  <2> QED
    BY <2>1, LinkKept, Zenon
<1>2. CASE TxWrite(c) /\ tap[c] = "open"
  <2> DEFINE sent == hostSent[c]
             got == delivered[c]
  <2>1. /\ tx[c] = "write"
        /\ delivered' = [delivered EXCEPT ![c] = Append(@, txBuf[c])]
    BY <1>2 DEF TxWrite
  <2>2. Len(got) < Len(sent) /\ txBuf[c] = sent[Len(got) + 1]
    <3>1. DownOK(conn[c], "write", txBuf[c], down[c], sent, got)
      BY <2>1 DEF FrameInv
    <3>2. PICK at : Upcoming(conn[c], "write", txBuf[c], down[c], sent, Len(got), at)
      BY <3>1, Zenon DEF DownOK
    <3> QED
      BY <3>2, SMTT(30) DEF Upcoming
  <2>3. delivered' = [delivered EXCEPT ![c] = Append(@, hostSent[c][Len(@) + 1])]
    BY <2>1, <2>2, Zenon
  <2>4. Links!Deliver(c)
    BY <1>1, <1>2, <2>2, <2>3, LinkOpen, Zenon DEF Links!Deliver
  <2> QED
    BY <2>4 DEF Links!Next
<1>3. CASE UNCHANGED delivered
  BY <1>1, <1>3, Zenon DEF Links!vars
<1> QED
  BY <1>2, <1>3, Zenon DEF Tx, TxHeader, TxPayload, TxReadFails, TxWrite, TxReports

(* rx forwards the frame in its buffer with the last byte of it. *)
LEMMA RxLinks ==
  ASSUME TypeOK, FrameInv, LinkInv, NEW c \in Conn, Rx(c)
  PROVE  [Links!Next]_Links!vars
<1>1. UNCHANGED <<Link, hostSent, delivered, appSent>>
  <2>1. UNCHANGED <<conn, hostSent, delivered, appSent>>
    BY Zenon DEF Rx, RxReadFails, RxWrite, RxReports, runVars, txVars
  <2> QED
    BY <2>1, LinkKept, Zenon
<1>2. CASE UNCHANGED Forwarded
  BY <1>1, <1>2, Zenon DEF Links!vars
<1>3. CASE UNCHANGED up
  BY <1>2, <1>3, LinkKept
<1>4. ASSUME NEW more, up' = [up EXCEPT ![c] = more]
      PROVE  Forwarded' = [Forwarded EXCEPT ![c] = Decoded(more)]
  <2>1. up \in [Conn -> Seq(Byte)]
    BY Zenon DEF TypeOK
  <2>2. \A d \in Conn : up'[d] = IF d = c THEN more ELSE up[d]
    BY <1>4, <2>1, Zenon
  <2> QED
    BY <2>2, Zenon DEF Forwarded
<1> DEFINE buf == rxBuf[c]
           e == Encoded(buf)
           sent == appSent[c]
           m == Len(sent) - 1
<1>5. ASSUME rx[c] = "write"
      PROVE  /\ sent \in Seq(Wire) /\ m \in Nat
             /\ Decoded(up[c]) = SubSeq(sent, 1, m)
             /\ Decoded(up[c] \o e) = sent
             /\ \A k \in 0 .. Len(e) - 1 :
                  Decoded(up[c] \o SubSeq(e, 1, k)) = SubSeq(sent, 1, m)
  <2>1. UpOK("write", buf, up[c], sent) /\ up[c] \in Seq(Byte)
    BY <1>5, BytesType DEF FrameInv
  <2> QED
    BY <2>1, WriteDecoded, Zenon
<1>6. ASSUME rx[c] = "write", conn[c] = "open", up' = [up EXCEPT ![c] = @ \o e]
      PROVE  Links!Next
  <2> DEFINE done == Forwarded[c]
  <2>1. done = SubSeq(sent, 1, m)
    BY <1>5, <1>6 DEF Forwarded
  <2>2. Len(done) = m /\ m < Len(sent) /\ Append(done, sent[m + 1]) = sent
    <3>1. sent \in Seq(Wire) /\ m \in Nat /\ m < Len(sent) /\ m + 1 = Len(sent)
      BY <1>5, <1>6
    <3>2. Append(SubSeq(sent, 1, m), sent[m + 1]) = SubSeq(sent, 1, m + 1)
          /\ Len(SubSeq(sent, 1, m)) = m
      BY <3>1, NextFrame, Zenon
    <3>3. SubSeq(sent, 1, m + 1) = sent
      BY <3>1, WholeFrames, Zenon
    <3> QED
      BY <2>1, <3>1, <3>2, <3>3, Zenon
  <2>3. Forwarded' = [Forwarded EXCEPT ![c] = sent]
    BY <1>4, <1>5, <1>6, Zenon
  <2>4. Forwarded' = [Forwarded EXCEPT ![c] = Append(@, appSent[c][Len(@) + 1])]
    BY <2>2, <2>3, Zenon
  <2>5. Links!Forward(c)
    BY <1>1, <1>6, <2>2, <2>4, LinkOpen, Zenon DEF Links!Forward
  <2> QED
    BY <2>5 DEF Links!Next
<1>7. ASSUME rx[c] = "write", NEW k \in 0 .. Len(e) - 1,
             up' = [up EXCEPT ![c] = @ \o SubSeq(e, 1, k)]
      PROVE  UNCHANGED Forwarded
  <2>1. Forwarded' = [Forwarded EXCEPT ![c] = Decoded(up[c] \o SubSeq(e, 1, k))]
    BY <1>4, <1>7, Zenon
  <2>2. Decoded(up[c] \o SubSeq(e, 1, k)) = Forwarded[c]
    BY <1>5, <1>7, Zenon DEF Forwarded
  <2> HIDE DEF e
  <2>3. Forwarded = [d \in Conn |-> Forwarded[d]]
    BY Zenon DEF Forwarded
  <2> QED
    BY <2>1, <2>2, <2>3, Zenon
<1>8. CASE RxWrite(c)
  BY <1>2, <1>3, <1>6, <1>7, <1>8, Zenon DEF RxWrite, Encoded
<1>9. CASE RxReadFails(c) \/ RxReports(c)
  BY <1>3, <1>9, Zenon DEF RxReadFails, RxReports
<1> QED
  BY <1>8, <1>9 DEF Rx

(* The host and the application send, and what fails leaves the links. *)
LEMMA HostLinks ==
  ASSUME TypeOK, LinkInv, NEW c \in Conn,
         \/ Cut(c) \/ TapFails(c)
         \/ \E f \in Frame : RxRead(c, f)
         \/ \E f \in Frame \cup {<<>>} : HostSends(c, f)
  PROVE  [Links!Next]_Links!vars
<1>1. CASE Cut(c)
  <2>1. /\ conn[c] = "open" /\ conn' = [conn EXCEPT ![c] = "cut"]
        /\ UNCHANGED <<hostSent, delivered, appSent, up>>
    BY <1>1, SMTT(30) DEF Cut, rxVars
  <2>2. conn \in [Conn -> {"none", "open", "cut", "closed"}]
    BY DEF TypeOK
  <2>3. UNCHANGED Link
    BY <2>1, <2>2 DEF Link, Connected
  <2> QED
    BY <2>1, <2>3, LinkKept, Zenon DEF Links!vars
<1>2. CASE TapFails(c)
  BY <1>2, LinkKept, Zenon DEF TapFails, Links!vars, runVars
<1>3. ASSUME NEW f \in Frame, RxRead(c, f) PROVE Links!Next
  <2>1. Link[c] = "open"
    BY <1>3, LinkOpen DEF RxRead
  <2>2. Links!AppSends(c, f)
    BY <1>3, <2>1, LinkKept, Zenon DEF RxRead, Links!AppSends, runVars, txVars
  <2> QED
    BY <2>2, Zenon DEF Links!Next
<1>4. ASSUME NEW f \in Frame \cup {<<>>}, HostSends(c, f) PROVE Links!Next
  <2>1. Link[c] = "open"
    BY <1>4, LinkOpen DEF HostSends
  <2>2. Links!HostSends(c, f)
    BY <1>4, <2>1, LinkKept, Zenon DEF HostSends, Links!HostSends, runVars, rxVars
  <2> QED
    BY <2>2, ZenonT(30) DEF Links!Next
<1> QED
  BY <1>1, <1>2, <1>3, <1>4

LEMMA InitLinks == Init => LinkInv /\ Links!Init
<1> SUFFICES ASSUME Init PROVE LinkInv /\ Links!Init
  OBVIOUS
<1>1. LinkInv
  BY DEF Init, LinkInv, Connected
<1>2. Link = [c \in Conn |-> "none"]
  BY DEF Init, Link, Connected
<1>3. Decoded(<<>>) = <<>>
  <2>1. PICK f : Decodes(<<>>, f) /\ Decoded(<<>>) = f[1]
    <3>1. <<>> \in Seq(Byte)
      OBVIOUS
    <3> QED
      BY <3>1, DecodedUnfolds, Zenon
  <2> QED
    BY <2>1 DEF Decodes, FramesFrom, Incomplete
<1>4. Forwarded = [c \in Conn |-> <<>>]
  BY <1>3, Zenon DEF Init, Forwarded
<1> QED
  BY <1>1, <1>2, <1>4 DEF Init, Links!Init

(***************************************************************************)
(* Whatever fails and is set up again, networking behaves like FrameLinks: *)
(* at most one connection carries frames, each one the next of those sent  *)
(* over it, and one that has been closed carries none, though its          *)
(* goroutines may still run.                                               *)
(***************************************************************************)
THEOREM LinksCarryFrames == Spec => ImplementsFrameLinks
<1>1. Init => LinkInv /\ Links!Init /\ MadeInv /\ FrameInv
  BY InitLinks, InitFrames
<1>2. IInv /\ TypeOK /\ MadeInv /\ FrameInv /\ LinkInv /\ [Next]_vars
        => /\ MadeInv' /\ FrameInv' /\ LinkInv'
           /\ [Links!Next]_Links!vars
  <2> SUFFICES ASSUME IInv, TypeOK, MadeInv, FrameInv, LinkInv, [Next]_vars
               PROVE  /\ MadeInv' /\ FrameInv' /\ LinkInv'
                      /\ [Links!Next]_Links!vars
    OBVIOUS
  <2>1. ControlOK /\ MadeInv' /\ FrameInv' /\ LinkInv'
    BY MadeStep, NextFrames, LinkStep DEF IInv
  <2>2. CASE UNCHANGED vars
    <3>1. UNCHANGED <<conn, up, hostSent, delivered, appSent>>
      BY <2>2, Zenon DEF vars, runVars, txVars, rxVars
    <3> QED
      BY <2>1, <3>1, LinkKept, Zenon DEF Links!vars
  <2> QED
    BY <2>1, <2>2, RunLinks, TxLinks, RxLinks, HostLinks, Zenon DEF Next, Setup
<1> QED
  BY <1>1, <1>2, Invariance, TypeCorrectness, PTL DEF Spec, ImplementsFrameLinks, Links!Spec
=============================================================================
