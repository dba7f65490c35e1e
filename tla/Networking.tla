----------------------------- MODULE Networking -----------------------------
(***************************************************************************)
(* The enclave's networking (proxy.go): runNetworking connects the TAP     *)
(* device to the proxy on the host and does so again when anything fails;  *)
(* the goroutines tx and rx forward Ethernet frames, each behind a header  *)
(* of two bytes with its length.  The goroutines of an earlier connection  *)
(* may still run when the next one is up, so all state is kept per         *)
(* connection.                                                             *)
(*                                                                         *)
(* A byte has Base values (256 in the code).  The host sends well-formed   *)
(* frames; a connection may be cut at any byte, in either direction.  The  *)
(* steps that configure the device and the link are one step.              *)
(***************************************************************************)
EXTENDS Integers, Sequences

CONSTANTS
  Base,      \* the number of values of a byte
  Frame,     \* the Ethernet frames: sequences of bytes
  MaxFrames, \* bound on the frames of both directions
  MaxFaults  \* bound on the failures

Byte == 0 .. Base - 1

(* The buffers hold frameLen bytes behind a header of frameSizeLen bytes. *)
frameSizeLen == 2
frameLen     == Base * Base - 1

ASSUME BaseAssumption == Base \in Nat \ {0, 1}
ASSUME FrameAssumption ==
  Frame \subseteq {f \in Seq(Byte) : Len(f) \in 1 .. frameLen}
ASSUME BoundsAssumption == MaxFrames \in Nat /\ MaxFaults \in Nat

Conn == 1 .. MaxFaults + 1

VARIABLES
  run,       \* where runNetworking is
  cur,       \* its connection: the number of those made so far
  stop,      \* has Stop closed the channel?
  conn,      \* the connections: "none", "open", "cut" by the host, "closed"
  tap,       \* their TAP devices
  errCh,     \* the number of errors in each errCh
  tx,        \* where the goroutine tx of each connection is
  rx,        \* where the goroutine rx is
  txBuf,     \* the header or the frame in tx's buffer
  rxBuf,     \* the frame in rx's buffer
  down,      \* the bytes from the host that tx has not read
  up,        \* all bytes that rx wrote
  hostSent,  \* history: the frames that the host sent
  delivered, \* history: the frames that tx wrote to the TAP device
  appSent,   \* history: the frames that rx read from it
  frames,    \* the number of frames sent so far
  faults     \* the number of failures so far

runVars == <<run, cur, stop, conn, tap>>
txVars  == <<tx, txBuf, down, hostSent, delivered>>
rxVars  == <<rx, rxBuf, up, appSent>>
vars    == <<runVars, txVars, rxVars, errCh, frames, faults>>

Init ==
  /\ run = "dial"
  /\ cur = 0
  /\ stop = FALSE
  /\ conn = [c \in Conn |-> "none"]
  /\ tap = [c \in Conn |-> "none"]
  /\ errCh = [c \in Conn |-> 0]
  /\ tx = [c \in Conn |-> "none"]
  /\ rx = [c \in Conn |-> "none"]
  /\ txBuf = [c \in Conn |-> <<>>]
  /\ rxBuf = [c \in Conn |-> <<>>]
  /\ down = [c \in Conn |-> <<>>]
  /\ up = [c \in Conn |-> <<>>]
  /\ hostSent = [c \in Conn |-> <<>>]
  /\ delivered = [c \in Conn |-> <<>>]
  /\ appSent = [c \in Conn |-> <<>>]
  /\ frames = 0
  /\ faults = 0

NewFrame == frames < MaxFrames /\ frames' = frames + 1
Fault == faults < MaxFaults /\ faults' = faults + 1

(* A mutant: the header in network byte order. *)
PutUint16BigEndian(n) == <<(n \div Base) % Base, n % Base>>

(* binary.LittleEndian.PutUint16 with the conversion to uint16. *)
PutUint16(n) == <<n % Base, (n \div Base) % Base>>

(* binary.LittleEndian.Uint16. *)
Uint16(b) == b[1] + Base * b[2]

-----------------------------------------------------------------------------
(* runNetworking and setupNetworking. *)

(* Dial, and write the POST request. *)
Dial ==
  /\ run = "dial"
  /\ cur < MaxFaults + 1
  /\ cur' = cur + 1
  /\ conn' = [conn EXCEPT ![cur + 1] = "open"]
  /\ run' = "tap"
  /\ UNCHANGED <<stop, tap, txVars, rxVars, errCh, frames, faults>>

CreateTap ==
  /\ run = "tap"
  /\ tap' = [tap EXCEPT ![cur] = "open"]
  /\ run' = "configure"
  /\ UNCHANGED <<cur, stop, conn, txVars, rxVars, errCh, frames, faults>>

(* Configure the device, write resolv.conf, bring up the link; go tx, go rx. *)
Configure ==
  /\ run = "configure"
  /\ run' = "select"
  /\ tx' = [tx EXCEPT ![cur] = "header"]
  /\ rx' = [rx EXCEPT ![cur] = "read"]
  /\ UNCHANGED <<cur, stop, conn, tap, txBuf, down, hostSent, delivered, rxBuf, up,
                 appSent, errCh, frames, faults>>

(* A mutant: the TAP device stays open. *)
CloseConnOnly(c) ==
  /\ tap' = tap
  /\ conn' = [conn EXCEPT ![c] = "closed"]

(* The deferred calls of tap.Close and conn.Close, as far as there are any. *)
CloseAll(c) ==
  /\ tap' = [tap EXCEPT ![c] = IF @ = "none" THEN @ ELSE "closed"]
  /\ conn' = [conn EXCEPT ![c] = "closed"]

(* A step of the setup fails; without a connection there is none to close. *)
SetupFails ==
  /\ Fault
  /\ \/ run = "dial" /\ UNCHANGED <<conn, tap>>
     \/ run \in {"tap", "configure"} /\ CloseAll(cur)
  /\ run' = "sleep"
  /\ UNCHANGED <<cur, stop, txVars, rxVars, errCh, frames>>

(* case err := <-errCh *)
SelectErr ==
  /\ run = "select"
  /\ errCh[cur] > 0
  /\ errCh' = [errCh EXCEPT ![cur] = @ - 1]
  /\ CloseAll(cur)
  /\ run' = "sleep"
  /\ UNCHANGED <<cur, stop, txVars, rxVars, frames, faults>>

(* A mutant: setupNetworking does not listen to stop. *)
SelectStopMissing == FALSE /\ UNCHANGED vars

(* case <-stop: the only way for runNetworking to return. *)
SelectStop ==
  /\ run = "select"
  /\ stop
  /\ CloseAll(cur)
  /\ run' = "returned"
  /\ UNCHANGED <<cur, stop, txVars, rxVars, errCh, frames, faults>>

(* A mutant: give up after the first error. *)
GiveUp ==
  /\ run = "sleep"
  /\ run' = "returned"
  /\ UNCHANGED <<cur, stop, conn, tap, txVars, rxVars, errCh, frames, faults>>

Retry ==
  /\ run = "sleep"
  /\ run' = "dial"
  /\ UNCHANGED <<cur, stop, conn, tap, txVars, rxVars, errCh, frames, faults>>

(* Enclave.Stop closes the channel. *)
Stop ==
  /\ ~stop
  /\ stop' = TRUE
  /\ UNCHANGED <<run, cur, conn, tap, txVars, rxVars, errCh, frames, faults>>

-----------------------------------------------------------------------------
(* The goroutine tx: frames from the host. *)

TxGoes(c, state) == tx' = [tx EXCEPT ![c] = state]

(* io.ReadFull of n bytes: all of them, or an error. *)
ReadFull(c, n) ==
  /\ conn[c] # "closed"
  /\ Len(down[c]) >= n
  /\ txBuf' = [txBuf EXCEPT ![c] = SubSeq(down[c], 1, n)]
  /\ down' = [down EXCEPT ![c] = SubSeq(down[c], n + 1, Len(down[c]))]
ReadFullFails(c, n) ==
  \/ conn[c] = "closed"
  \/ conn[c] = "cut" /\ Len(down[c]) < n

TxHeader(c) ==
  /\ tx[c] = "header"
  /\ ReadFull(c, frameSizeLen)
  /\ TxGoes(c, "payload")
  /\ UNCHANGED <<runVars, rxVars, hostSent, delivered, errCh, frames, faults>>

(* An empty frame is an error. *)
TxPayload(c) ==
  /\ tx[c] = "payload"
  /\ ReadFull(c, Uint16(txBuf[c]))
  /\ TxGoes(c, IF Uint16(txBuf[c]) = 0 THEN "failed" ELSE "write")
  /\ UNCHANGED <<runVars, rxVars, hostSent, delivered, errCh, frames, faults>>

TxReadFails(c) ==
  /\ \/ tx[c] = "header" /\ ReadFullFails(c, frameSizeLen)
     \/ tx[c] = "payload" /\ ReadFullFails(c, Uint16(txBuf[c]))
  /\ TxGoes(c, "failed")
  /\ UNCHANGED <<runVars, rxVars, txBuf, down, hostSent, delivered, errCh, frames, faults>>

TxWrite(c) ==
  /\ tx[c] = "write"
  /\ IF tap[c] = "open"
     THEN /\ delivered' = [delivered EXCEPT ![c] = Append(@, txBuf[c])]
          /\ TxGoes(c, "header")
     ELSE TxGoes(c, "failed") /\ UNCHANGED delivered
  /\ UNCHANGED <<runVars, rxVars, txBuf, down, hostSent, errCh, frames, faults>>

-----------------------------------------------------------------------------
(* The goroutine rx: frames from the application. *)

RxGoes(c, state) == rx' = [rx EXCEPT ![c] = state]

(* tap.Read returns the next frame. *)
RxRead(c, f) ==
  /\ rx[c] = "read"
  /\ tap[c] = "open"
  /\ NewFrame
  /\ rxBuf' = [rxBuf EXCEPT ![c] = f]
  /\ appSent' = [appSent EXCEPT ![c] = Append(@, f)]
  /\ RxGoes(c, "write")
  /\ UNCHANGED <<runVars, txVars, up, errCh, faults>>

RxReadFails(c) ==
  /\ rx[c] = "read"
  /\ tap[c] = "closed"
  /\ RxGoes(c, "failed")
  /\ UNCHANGED <<runVars, txVars, rxBuf, up, appSent, errCh, frames, faults>>

(* conn.Write; on a connection that was cut it stops at some byte k. *)
RxWrite(c) ==
  LET bytes == PutUint16(Len(rxBuf[c])) \o rxBuf[c] IN
  /\ rx[c] = "write"
  /\ \/ /\ conn[c] = "open"
        /\ up' = [up EXCEPT ![c] = @ \o bytes]
        /\ RxGoes(c, "read")
     \/ /\ conn[c] = "cut"
        /\ \E k \in 0 .. Len(bytes) - 1 : up' = [up EXCEPT ![c] = @ \o SubSeq(bytes, 1, k)]
        /\ RxGoes(c, "failed")
     \/ /\ conn[c] = "closed"
        /\ RxGoes(c, "failed")
        /\ UNCHANGED up
  /\ UNCHANGED <<runVars, txVars, rxBuf, appSent, errCh, frames, faults>>

-----------------------------------------------------------------------------
(* Both goroutines: errCh <- err, which blocks while errCh is full; return. *)

(* A mutant: errCh has no bound. *)
RoomAlways(c) == TRUE

Room(c) == errCh[c] < 1

(* A mutant: the goroutine goes on after it has reported the error. *)
RxReportsAndGoesOn(c) ==
  /\ rx[c] = "failed"
  /\ Room(c)
  /\ errCh' = [errCh EXCEPT ![c] = @ + 1]
  /\ RxGoes(c, "read")
  /\ UNCHANGED <<runVars, txVars, rxBuf, up, appSent, frames, faults>>

RxReports(c) ==
  /\ rx[c] = "failed"
  /\ Room(c)
  /\ errCh' = [errCh EXCEPT ![c] = @ + 1]
  /\ RxGoes(c, "done")
  /\ UNCHANGED <<runVars, txVars, rxBuf, up, appSent, frames, faults>>

TxReports(c) ==
  /\ tx[c] = "failed"
  /\ Room(c)
  /\ errCh' = [errCh EXCEPT ![c] = @ + 1]
  /\ TxGoes(c, "done")
  /\ UNCHANGED <<runVars, rxVars, txBuf, down, hostSent, delivered, frames, faults>>

-----------------------------------------------------------------------------
(* The host and what goes wrong. *)

(* The host sends a frame; an empty one counts as a failure. *)
HostSends(c, f) ==
  /\ conn[c] = "open"
  /\ NewFrame
  /\ IF f = <<>> THEN Fault ELSE UNCHANGED faults
  /\ hostSent' = [hostSent EXCEPT ![c] = Append(@, f)]
  /\ down' = [down EXCEPT ![c] = @ \o <<Len(f) % Base, Len(f) \div Base>> \o f]
  /\ UNCHANGED <<runVars, rxVars, tx, txBuf, delivered, errCh>>

(* The connection ends; of the bytes on their way to tx, k arrive. *)
Cut(c) ==
  /\ Fault
  /\ conn[c] = "open"
  /\ conn' = [conn EXCEPT ![c] = "cut"]
  /\ \E k \in 0 .. Len(down[c]) : down' = [down EXCEPT ![c] = SubSeq(@, 1, k)]
  /\ UNCHANGED <<run, cur, stop, tap, tx, txBuf, hostSent, delivered, rxVars, errCh, frames>>

(* Reading or writing an open TAP device fails. *)
TapFails(c) ==
  /\ Fault
  /\ tap[c] = "open"
  /\ \/ tx[c] = "write" /\ TxGoes(c, "failed") /\ UNCHANGED rx
     \/ rx[c] = "read" /\ RxGoes(c, "failed") /\ UNCHANGED tx
  /\ UNCHANGED <<runVars, txBuf, down, hostSent, delivered, rxBuf, up, appSent, errCh, frames>>

-----------------------------------------------------------------------------
Setup == Dial \/ CreateTap \/ Configure \/ SelectErr \/ SelectStop \/ Retry

Tx(c) == TxHeader(c) \/ TxPayload(c) \/ TxReadFails(c) \/ TxWrite(c) \/ TxReports(c)
Rx(c) == RxReadFails(c) \/ RxWrite(c) \/ RxReports(c)

Next ==
  \/ Setup
  \/ SetupFails
  \/ Stop
  \/ \E c \in Conn : Tx(c) \/ Rx(c) \/ Cut(c) \/ TapFails(c)
  \/ \E c \in Conn, f \in Frame : RxRead(c, f)
  \/ \E c \in Conn, f \in Frame \cup {<<>>} : HostSends(c, f)

Spec == Init /\ [][Next]_vars

(* The goroutines run when they can; nobody has to send a frame. *)
FairSpec ==
  /\ Spec
  /\ WF_vars(Setup)
  /\ \A c \in Conn : WF_vars(Tx(c)) /\ WF_vars(Rx(c))

-----------------------------------------------------------------------------
(* Properties. *)

(* Every variable has its type; no errCh holds more than one error. *)
TypeOK ==
  /\ run \in {"dial", "tap", "configure", "select", "sleep", "returned"}
  /\ cur \in 0 .. MaxFaults + 1
  /\ stop \in BOOLEAN
  /\ conn \in [Conn -> {"none", "open", "cut", "closed"}]
  /\ tap \in [Conn -> {"none", "open", "closed"}]
  /\ errCh \in [Conn -> 0 .. 1]
  /\ tx \in [Conn -> {"none", "header", "payload", "write", "failed", "done"}]
  /\ rx \in [Conn -> {"none", "read", "write", "failed", "done"}]
  /\ {txBuf, rxBuf, down, up} \subseteq [Conn -> Seq(Byte)]
  /\ {hostSent, delivered, appSent} \subseteq [Conn -> Seq(Seq(Byte))]
  /\ frames \in 0 .. MaxFrames
  /\ faults \in 0 .. MaxFaults

(* The last byte of the frame whose header is at byte i. *)
LastAt(bytes, i) == i + 1 + bytes[i] + Base * bytes[i + 1]

(* The frame at byte i is not complete: its header is not, or its payload. *)
Incomplete(bytes, i) == i + 1 > Len(bytes) \/ LastAt(bytes, i) > Len(bytes)

(* The complete frames in a sequence of bytes. *)
Decoded(bytes) ==
  LET from[i \in 1 .. Len(bytes) + 1] ==
        IF Incomplete(bytes, i) THEN <<>>
        ELSE <<SubSeq(bytes, i + 2, LastAt(bytes, i))>> \o from[LastAt(bytes, i) + 1]
  IN  from[1]

(***************************************************************************)
(* Frames arrive whole, in order and without gaps, whatever is cut or      *)
(* restarted: what tx writes to the TAP device is a prefix of what the     *)
(* host sent over the same connection, what the host can decode is a       *)
(* prefix of what rx read from the device, and nothing is missing as long  *)
(* as nothing has failed.                                                  *)
(***************************************************************************)
FramesIntact ==
  \A c \in Conn :
    /\ \E k \in 0 .. Len(hostSent[c]) : delivered[c] = SubSeq(hostSent[c], 1, k)
    /\ \E k \in 0 .. Len(appSent[c]) : Decoded(up[c]) = SubSeq(appSent[c], 1, k)
    /\ tx[c] = "header" /\ conn[c] = "open" /\ down[c] = <<>> =>
         delivered[c] = hostSent[c]
    /\ rx[c] = "read" => Decoded(up[c]) = appSent[c]

(* The links of FrameLinks: one that the host has cut has yet to be closed. *)
Connected(c) == conn[c] \in {"open", "cut"}
Link == [c \in Conn |-> IF Connected(c) THEN "open" ELSE conn[c]]
Forwarded == [c \in Conn |-> Decoded(up[c])]

Links == INSTANCE FrameLinks WITH
  Frame <- Frame \cup {<<>>}, link <- Link, forwarded <- Forwarded

(***************************************************************************)
(* Networking implements FrameLinks: each write to the TAP device delivers *)
(* the very next frame and each write to the connection forwards one, or   *)
(* none if it breaks off; and what fails closes its connection and device  *)
(* before another one is made, so that old goroutines forward nothing.     *)
(***************************************************************************)
ImplementsFrameLinks == Links!Spec

(* One of the goroutines waits for room in errCh, which nobody reads any more. *)
Leaked(c) ==
  /\ "failed" \in {tx[c], rx[c]}
  /\ errCh[c] = 1
  /\ ~(c = cur /\ run = "select")

(***************************************************************************)
(* errCh has room for one error only.  That is enough for the goroutine    *)
(* that reports second as long as setupNetworking has read the first       *)
(* error; only runNetworking's return leaves a goroutine behind.           *)
(***************************************************************************)
LeaksOnlyAfterStop == \A c \in Conn : Leaked(c) => c = cur /\ run = "returned"

(***************************************************************************)
(* Closing the TAP device and the connection ends both goroutines,         *)
(* whichever of them failed first, unless networking is stopped.           *)
(***************************************************************************)
ForwardersEnd ==
  \A c \in Conn : conn[c] = "closed" ~>
    \/ {tx[c], rx[c]} \subseteq {"none", "done"}
    \/ c = cur /\ run = "returned"

(***************************************************************************)
(* "If anything fails, we try again" (comment of runNetworking): unless    *)
(* networking is stopped, frames are forwarded in both directions in the   *)
(* end.                                                                    *)
(***************************************************************************)
Reconnects ==
  [](~stop) => <>[](/\ run = "select" /\ conn[cur] = "open"
                    /\ tx[cur] # "done" /\ rx[cur] # "done")

(* After Stop runNetworking returns, in whichever step it was. *)
StopReturns == stop ~> run = "returned"

=============================================================================
